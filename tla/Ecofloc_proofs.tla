---------------------------- MODULE Ecofloc_proofs ----------------------------
(***************************************************************************)
(* Proofs about Engine, for any finite sets of modules and outputs, any    *)
(* configuration and any bounds: its types, the safety properties its runs *)
(* check, and that it implements Pipeline. Then about Ecofloc, for any     *)
(* family of processes: the composition is a run of the engine and a run   *)
(* of the loader, and what holds between the two.                          *)
(***************************************************************************)
EXTENDS Ecofloc, SequenceTheorems, FiniteSetTheorems, TLAPS

-------------------------------------------------------------------------------
(***************************************************************************)
(* Types.                                                                  *)
(***************************************************************************)
\* Which positions of the loops go with which phase.
Positions ==
  /\ pc = "start" => nStarted = mi - 1
  /\ pc = "write" => mi <= Len(mods) /\ emitted # <<>>

TypeInv == TypeOK /\ Positions

\* The slices the registries build are sequences without repetition.
LEMMA OrdersAreSequences ==
  ASSUME NEW S, IsFiniteSet(S), NEW s \in Orders(S)
  PROVE  /\ s \in Seq(S)
         /\ \A i, j \in 1..Len(s) : s[i] = s[j] => i = j
<1>1. Cardinality(S) \in Nat
  BY FS_CardinalityType
<1>2. PICK n \in 0..Cardinality(S) :
        s \in [1..n -> S] /\ \A i, j \in 1..n : s[i] = s[j] => i = j
  BY DEF Orders
<1>3. n \in Nat
  BY <1>1
<1>4. s \in Seq(S)
  BY <1>2, <1>3, SeqDef
<1>5. Len(s) = n
  BY <1>2, <1>3, <1>4, LenProperties
<1> QED BY <1>2, <1>4, <1>5

LEMMA TypeInit == Init => TypeInv
<1> SUFFICES ASSUME Init PROVE TypeInv
  OBVIOUS
<1>1. mods \in Seq(Modules) /\ mods # <<>>
  BY EngineAssumption, OrdersAreSequences DEF Init
<1>2. outs \in Seq(Outputs)
  BY EngineAssumption, OrdersAreSequences DEF Init
<1>3. Len(mods) \in Nat /\ Len(outs) \in Nat
  BY <1>1, <1>2, LenProperties
<1>4. /\ <<>> \in Seq(Batches)
      /\ [o \in Outputs |-> <<>>] \in [Outputs -> Seq(Batches)]
  BY EmptySeq
<1>5. /\ emitted \in Seq(Batches)
      /\ offered \in [Outputs -> Seq(Batches)]
      /\ mstate \in [Modules -> {"idle", "started", "failed", "stopped"}]
  BY <1>4 DEF Init
<1>6. /\ mi \in 1..(Len(mods) + 1) /\ oi \in 1..(Len(outs) + 1)
      /\ nStarted \in 0..Len(mods)
      /\ ticks \in 0..MaxTicks /\ sampledUpTo \in 0..MaxTicks
      /\ rounds \in 0..MaxRounds
  BY <1>3, EngineAssumption DEF Init
<1>7. closed \in SUBSET Outputs
  BY DEF Init
<1>8. /\ tick \in BOOLEAN /\ deadlineHit \in BOOLEAN
      /\ cancelled \in BOOLEAN
  BY Zenon DEF Init
<1>9. TypeOK
  BY <1>1, <1>2, <1>5, <1>6, <1>7, <1>8 DEF Init, TypeOK, Phases
<1>10. Positions
  BY DEF Init, Positions
<1> QED
  BY <1>9, <1>10 DEF TypeInv

LEMMA TypeStep == TypeInv /\ [Next]_vars => TypeInv'
<1> SUFFICES ASSUME TypeInv, [Next]_vars PROVE TypeInv'
  OBVIOUS
<1> USE EngineAssumption DEF TypeInv, TypeOK, Positions, Phases,
      config, modVars, outVars, timers, samples
<1>0. Len(mods) \in Nat /\ Len(outs) \in Nat
  BY LenProperties
<1>1. CASE StartModule
  <2>1. mods[mi] \in Modules
    BY <1>0, <1>1, ElementOfSeq DEF StartModule
  <2> QED BY <1>0, <1>1, <2>1 DEF StartModule
<1>2. CASE StartModuleFails
  <2>1. mods[mi] \in Modules
    BY <1>0, <1>2, ElementOfSeq DEF StartModuleFails
  <2> QED BY <1>0, <1>2, <2>1 DEF StartModuleFails
<1>3. CASE EnterLoop
  BY <1>0, <1>3 DEF EnterLoop, AfterPanic
<1>4. CASE SelectCancelled
  BY <1>0, <1>4 DEF SelectCancelled, LeaveLoop
<1>5. CASE SelectDeadline
  BY <1>0, <1>5 DEF SelectDeadline, LeaveLoop
<1>6. CASE SelectTick
  <2>1. tick' \in BOOLEAN
    BY <1>6, Zenon DEF SelectTick
  <2>2. /\ pc' = "measure" /\ mi' = 1 /\ sampledUpTo' = ticks
        /\ UNCHANGED <<config, oi, modVars, outVars, ticks, deadlineHit,
                       cancelled, rounds, emitted, result>>
    BY <1>6 DEF SelectTick
  <2> QED BY <1>0, <2>1, <2>2
<1>7. CASE MeasureSamples
  <2>1. PICK b \in Batches : emitted' = Append(emitted, b)
    <3>1. mods[mi] \in Modules
      BY <1>0, <1>7, ElementOfSeq DEF MeasureSamples
    <3> QED BY <1>7, <3>1 DEF MeasureSamples, Batches
  <2>2. emitted' \in Seq(Batches) /\ emitted' # <<>>
    <3>1. emitted \in Seq(Batches)
      OBVIOUS
    <3> HIDE DEF TypeInv
    <3> QED BY <2>1, <3>1, AppendProperties
  <2> QED BY <1>0, <1>7, <2>2 DEF MeasureSamples
<1>8. CASE MeasureNothing
  BY <1>0, <1>8 DEF MeasureNothing
<1>9. ASSUME NEW ok \in BOOLEAN, WriteOutput(ok)
      PROVE  TypeInv'
  <2>1. emitted[Len(emitted)] \in Batches
    BY <1>9, EmptySeq, ElementOfSeq DEF WriteOutput
  <2>2. outs[oi] \in Outputs
    BY <1>0, <1>9, ElementOfSeq DEF WriteOutput
  <2>3. offered' \in [Outputs -> Seq(Batches)]
    BY <1>9, <2>1, <2>2, AppendProperties DEF WriteOutput
  <2> QED BY <1>0, <1>9, <2>3 DEF WriteOutput, AfterWrite
<1>10. CASE EndProcess
  BY <1>0, <1>10 DEF EndProcess
<1>11. CASE EndSample
  BY <1>0, <1>11 DEF EndSample
<1>12. CASE StopModule
  <2>1. mods[mi] \in Modules
    BY <1>0, <1>12, ElementOfSeq DEF StopModule
  <2> QED BY <1>0, <1>12, <2>1 DEF StopModule
<1>13. CASE RunReturns
  BY <1>0, <1>13 DEF RunReturns
<1>14. CASE UnhookSignals
  BY <1>0, <1>14 DEF UnhookSignals
<1>15. ASSUME NEW ok \in BOOLEAN, CloseOutput(ok)
       PROVE  TypeInv'
  <2>1. outs[oi] \in Outputs
    BY <1>0, <1>15, ElementOfSeq DEF CloseOutput
  <2> QED BY <1>0, <1>15, <2>1 DEF CloseOutput, AfterClose
<1>16. CASE Exit
  BY <1>0, <1>16 DEF Exit
<1>17. CASE TickerFires
  BY <1>0, <1>17 DEF TickerFires
<1>18. CASE DeadlineFires
  BY <1>0, <1>18 DEF DeadlineFires
<1>19. CASE Interrupt
  BY <1>0, <1>19 DEF Interrupt, Hooked
<1>20. CASE UNCHANGED vars
  BY <1>0, <1>20 DEF vars
<1> QED
  BY <1>1, <1>2, <1>3, <1>4, <1>5, <1>6, <1>7, <1>8, <1>9, <1>10, <1>11,
     <1>12, <1>13, <1>14, <1>15, <1>16, <1>17, <1>18, <1>19, <1>20
  DEF Next, Starting, Selecting, Sampling, Ending, Timers

\* Engine.Run and everything it calls: types and loop positions, always.
THEOREM TypeCorrect == Spec => []TypeOK
<1>1. Spec => []TypeInv
  BY TypeInit, TypeStep, PTL DEF Spec
<1>2. TypeInv => TypeOK
  BY DEF TypeInv
<1> QED BY <1>1, <1>2, PTL

\* What the other proofs take from the type invariant.
LEMMA Lengths ==
  ASSUME TypeInv
  PROVE  /\ Len(mods) \in Nat /\ Len(outs) \in Nat
         /\ \A k \in 1..Len(mods) : mods[k] \in Modules
         /\ \A k \in 1..Len(outs) : outs[k] \in Outputs
         /\ mi \in 1..(Len(mods) + 1) /\ oi \in 1..(Len(outs) + 1)
         /\ nStarted \in 0..Len(mods)
BY LenProperties, ElementOfSeq DEF TypeInv, TypeOK

-------------------------------------------------------------------------------
(***************************************************************************)
(* Modules. The ones in state "started" are among those the deferred loop  *)
(* still has to visit, and that loop runs unless a Start has failed.       *)
(***************************************************************************)
Running == pc \in {"start", "loop", "measure", "write"}

\* The indices of the modules Run is bound to stop.
Held == IF Running THEN 1..nStarted
        ELSE IF pc = "stop" THEN mi..nStarted ELSE {}

ReleaseInv ==
  /\ Running => result = "running"
  /\ result # "startError" =>
       \A m \in Modules : mstate[m] = "started" => \E k \in Held : mods[k] = m

LEMMA ReleaseInit == Init => ReleaseInv
BY DEF Init, ReleaseInv, Running

LEMMA ReleaseStep == TypeInv /\ ReleaseInv /\ [Next]_vars => ReleaseInv'
<1> SUFFICES ASSUME TypeInv, ReleaseInv, [Next]_vars PROVE ReleaseInv'
  OBVIOUS
<1>0. /\ Len(mods) \in Nat /\ mi \in 1..(Len(mods) + 1)
      /\ nStarted \in 0..Len(mods)
      /\ \A k \in 1..Len(mods) : mods[k] \in Modules
      /\ mstate \in [Modules -> {"idle", "started", "failed", "stopped"}]
      /\ pc = "start" => nStarted = mi - 1
  BY Lengths DEF TypeInv, TypeOK, Positions
<1> USE DEF ReleaseInv, Running, Held, config, modVars
<1>1. CASE StartModule
  <2>1. /\ pc = "start" /\ pc' = "start" /\ result' = result /\ mods' = mods
        /\ nStarted' = nStarted + 1 /\ nStarted + 1 = mi
        /\ mstate' = [mstate EXCEPT ![mods[mi]] = "started"]
    BY <1>0, <1>1 DEF StartModule
  <2>2. ASSUME NEW m \in Modules, mstate'[m] = "started"
        PROVE  \E k \in 1..(nStarted + 1) : mods[k] = m
    <3>1. CASE m = mods[mi]
      BY <1>0, <2>1, <3>1
    <3>2. CASE m # mods[mi]
      BY <1>0, <2>1, <2>2, <3>2
    <3> QED BY <3>1, <3>2
  <2> QED BY <2>1, <2>2
<1>2. CASE StartModuleFails
  BY <1>2 DEF StartModuleFails
<1>3. CASE EnterLoop
  BY <1>0, <1>3 DEF EnterLoop, AfterPanic
<1>4. CASE SelectCancelled \/ SelectDeadline
  BY <1>0, <1>4 DEF SelectCancelled, SelectDeadline, LeaveLoop
<1>5. CASE SelectTick
  BY <1>5 DEF SelectTick
<1>6. CASE MeasureSamples \/ MeasureNothing
  BY <1>6 DEF MeasureSamples, MeasureNothing
<1>7. ASSUME NEW ok \in BOOLEAN, WriteOutput(ok)
      PROVE  ReleaseInv'
  BY <1>7 DEF WriteOutput
<1>8. CASE EndProcess \/ EndSample
  BY <1>8 DEF EndProcess, EndSample
<1>9. CASE StopModule
  <2>1. /\ pc = "stop" /\ pc' = "stop" /\ result' = result /\ mods' = mods
        /\ nStarted' = nStarted /\ mi' = mi + 1 /\ mi <= nStarted
        /\ mstate' = [mstate EXCEPT ![mods[mi]] = "stopped"]
    BY <1>9 DEF StopModule
  <2>2. ASSUME NEW m \in Modules, mstate'[m] = "started",
               result # "startError"
        PROVE  \E k \in (mi + 1)..nStarted : mods[k] = m
    <3>1. m # mods[mi] /\ mstate[m] = "started"
      BY <1>0, <2>1, <2>2
    <3>2. PICK k \in mi..nStarted : mods[k] = m
      BY <2>1, <2>2, <3>1
    <3> QED BY <1>0, <3>1, <3>2
  <2> QED BY <2>1, <2>2
<1>10. CASE RunReturns
  BY <1>0, <1>10 DEF RunReturns
<1>11. CASE UnhookSignals \/ Exit
  BY <1>11 DEF UnhookSignals, Exit
<1>12. ASSUME NEW ok \in BOOLEAN, CloseOutput(ok)
       PROVE  ReleaseInv'
  BY <1>12 DEF CloseOutput
<1>13. CASE TickerFires \/ DeadlineFires
  BY <1>13 DEF TickerFires, DeadlineFires
<1>14. CASE Interrupt
  BY <1>14 DEF Interrupt, Hooked
<1>15. CASE UNCHANGED vars
  BY <1>15 DEF vars
<1> QED
  BY <1>1, <1>2, <1>3, <1>4, <1>5, <1>6, <1>7, <1>8, <1>9, <1>10, <1>11,
     <1>12, <1>13, <1>14, <1>15
  DEF Next, Starting, Selecting, Sampling, Ending, Timers

\* Engine.Run: the deferred loop stops every module that was started, on every
\* way out of the loop.
THEOREM ModulesAreReleased == Spec => []ModulesReleased
<1>1. Spec => [](TypeInv /\ ReleaseInv)
  BY TypeInit, TypeStep, ReleaseInit, ReleaseStep, PTL DEF Spec
<1>2. ReleaseInv => ModulesReleased
  BY DEF ReleaseInv, ModulesReleased, Held, Running
<1> QED BY <1>1, <1>2, PTL

-------------------------------------------------------------------------------
(***************************************************************************)
(* Ticks.                                                                  *)
(***************************************************************************)
TickInv == (pc = "start" \/ TimersOn) /\ ~tick => sampledUpTo = ticks

LEMMA TickInit == Init => TickInv
BY DEF Init, TickInv

LEMMA TickStep == TickInv /\ [Next]_vars => TickInv'
<1> SUFFICES ASSUME TickInv, [Next]_vars PROVE TickInv'
  OBVIOUS
<1> USE DEF TickInv, TimersOn, timers, samples
<1>1. CASE StartModule \/ StartModuleFails \/ EnterLoop
  BY <1>1 DEF StartModule, StartModuleFails, EnterLoop, AfterPanic
<1>2. CASE SelectCancelled \/ SelectDeadline
  BY <1>2 DEF SelectCancelled, SelectDeadline, LeaveLoop
<1>3. CASE SelectTick
  BY <1>3 DEF SelectTick
<1>4. CASE MeasureSamples \/ MeasureNothing \/ EndProcess \/ EndSample
  BY <1>4 DEF MeasureSamples, MeasureNothing, EndProcess, EndSample
<1>5. ASSUME NEW ok \in BOOLEAN, WriteOutput(ok) \/ CloseOutput(ok)
      PROVE  TickInv'
  BY <1>5 DEF WriteOutput, CloseOutput
<1>6. CASE StopModule \/ RunReturns \/ UnhookSignals \/ Exit
  BY <1>6 DEF StopModule, RunReturns, UnhookSignals, Exit
<1>7. CASE TickerFires
  BY <1>7 DEF TickerFires
<1>8. CASE DeadlineFires
  BY <1>8 DEF DeadlineFires
<1>9. CASE Interrupt
  BY <1>9 DEF Interrupt
<1>10. CASE UNCHANGED vars
  BY <1>10 DEF vars
<1> QED
  BY <1>1, <1>2, <1>3, <1>4, <1>5, <1>6, <1>7, <1>8, <1>9, <1>10
  DEF Next, Starting, Selecting, Sampling, Ending, Timers

\* Engine.Run, ticker: a firing is sampled, or still in the channel; those it
\* displaced are covered by the same sample.
THEOREM NoTickIsForgotten == Spec => []NoTickForgotten
<1>1. TickInv => NoTickForgotten
  BY DEF TickInv, NoTickForgotten
<1> QED BY <1>1, TickInit, TickStep, PTL DEF Spec

-------------------------------------------------------------------------------
(***************************************************************************)
(* Outputs. FanOut needs that no output is wired twice; what is closed is  *)
(* what the loop of Aggregator.Close has passed.                           *)
(***************************************************************************)
OutputInv ==
  /\ \A i, j \in 1..Len(outs) : outs[i] = outs[j] => i = j
  /\ FanOut
  /\ \A o \in Outputs \ Wired : offered[o] = <<>>

Passed == IF pc \in {"close", "exited", "killed"} THEN 1..(oi - 1) ELSE {}

CloseInv ==
  /\ closed = {outs[i] : i \in Passed}
  /\ pc = "exited" => oi = Len(outs) + 1

LEMMA OutputInit == Init => OutputInv /\ CloseInv
<1> SUFFICES ASSUME Init PROVE OutputInv /\ CloseInv
  OBVIOUS
<1>1. /\ outs \in Seq(Outputs)
      /\ \A i, j \in 1..Len(outs) : outs[i] = outs[j] => i = j
  BY EngineAssumption, OrdersAreSequences DEF Init
<1>2. \A i \in 1..Len(outs) : outs[i] \in Outputs
  BY <1>1, ElementOfSeq
<1>3. CloseInv
  BY DEF Init, CloseInv, Passed
<1> QED
  BY <1>1, <1>2, <1>3 DEF Init, OutputInv, FanOut, Wired

LEMMA OutputStep == TypeInv /\ OutputInv /\ [Next]_vars => OutputInv'
<1> SUFFICES ASSUME TypeInv, OutputInv, [Next]_vars PROVE OutputInv'
  OBVIOUS
<1>0. /\ Len(outs) \in Nat /\ oi \in 1..(Len(outs) + 1)
      /\ \A k \in 1..Len(outs) : outs[k] \in Outputs
      /\ offered \in [Outputs -> Seq(Batches)]
      /\ emitted \in Seq(Batches)
      /\ pc = "write" => emitted # <<>>
  BY Lengths DEF TypeInv, TypeOK, Positions
<1> USE DEF OutputInv, FanOut, Wired, config, outVars, samples
<1>1. CASE StartModule \/ StartModuleFails \/ EnterLoop
  BY <1>1 DEF StartModule, StartModuleFails, EnterLoop, AfterPanic
<1>2. CASE SelectCancelled \/ SelectDeadline \/ SelectTick
  BY <1>2 DEF SelectCancelled, SelectDeadline, LeaveLoop, SelectTick
<1>3. CASE MeasureSamples
  <2>1. PICK b : emitted' = Append(emitted, b)
    BY <1>3 DEF MeasureSamples
  <2>2. /\ pc = "measure" /\ pc' = "write" /\ oi' = 1
        /\ outs' = outs /\ offered' = offered
    BY <1>3 DEF MeasureSamples
  <2>3. Append(emitted, b)[Len(Append(emitted, b))] = b
    BY <1>0
  <2> QED BY <1>0, <2>1, <2>2, <2>3
<1>4. CASE MeasureNothing \/ EndSample
  BY <1>4 DEF MeasureNothing, EndSample
<1>5. ASSUME NEW ok \in BOOLEAN, WriteOutput(ok)
      PROVE  OutputInv'
  <2> DEFINE b == emitted[Len(emitted)]
  <2>1. /\ pc = "write" /\ pc' = "write" /\ oi <= Len(outs) /\ oi' = oi + 1
        /\ outs' = outs /\ emitted' = emitted
        /\ offered' = [offered EXCEPT ![outs[oi]] = Append(@, b)]
    BY <1>5 DEF WriteOutput, AfterWrite
  <2>2. offered'[outs[oi]] = emitted
    BY <1>0, <2>1
  <2>3. \A i \in 1..Len(outs) : i # oi => offered'[outs[i]] = offered[outs[i]]
    BY <1>0, <2>1
  <2>4. \A o \in Outputs \ Wired : offered'[o] = offered[o]
    BY <1>0, <2>1
  <2> HIDE DEF b
  <2>5. FanOut'
    <3> SUFFICES ASSUME NEW i \in 1..Len(outs)
                 PROVE  IF i >= oi + 1
                          THEN Append(offered'[outs[i]], b) = emitted
                          ELSE offered'[outs[i]] = emitted
      BY <2>1 DEF b
    <3>1. CASE i = oi
      BY <1>0, <2>2, <3>1
    <3>2. CASE i > oi
      BY <1>0, <2>1, <2>3, <3>2 DEF b
    <3>3. CASE i < oi
      BY <1>0, <2>1, <2>3, <3>3
    <3> QED BY <1>0, <3>1, <3>2, <3>3
  <2> QED BY <2>1, <2>4, <2>5
<1>6. CASE EndProcess
  BY <1>0, <1>6 DEF EndProcess
<1>7. CASE StopModule \/ RunReturns \/ UnhookSignals \/ Exit
  BY <1>7 DEF StopModule, RunReturns, UnhookSignals, Exit
<1>8. ASSUME NEW ok \in BOOLEAN, CloseOutput(ok)
      PROVE  OutputInv'
  BY <1>8 DEF CloseOutput
<1>9. CASE TickerFires \/ DeadlineFires
  BY <1>9 DEF TickerFires, DeadlineFires
<1>10. CASE Interrupt
  BY <1>10 DEF Interrupt, Hooked
<1>11. CASE UNCHANGED vars
  BY <1>11 DEF vars
<1> QED
  BY <1>1, <1>2, <1>3, <1>4, <1>5, <1>6, <1>7, <1>8, <1>9, <1>10, <1>11
  DEF Next, Starting, Selecting, Sampling, Ending, Timers

LEMMA CloseStep == TypeInv /\ CloseInv /\ [Next]_vars => CloseInv'
<1> SUFFICES ASSUME TypeInv, CloseInv, [Next]_vars PROVE CloseInv'
  OBVIOUS
<1>0. Len(outs) \in Nat /\ oi \in 1..(Len(outs) + 1)
  BY Lengths
<1> USE DEF CloseInv, Passed, config, outVars
<1>1. CASE StartModule \/ StartModuleFails \/ EnterLoop
  BY <1>1 DEF StartModule, StartModuleFails, EnterLoop, AfterPanic
<1>2. CASE SelectCancelled \/ SelectDeadline \/ SelectTick
  BY <1>2 DEF SelectCancelled, SelectDeadline, LeaveLoop, SelectTick
<1>3. CASE MeasureSamples \/ MeasureNothing \/ EndProcess \/ EndSample
  BY <1>3 DEF MeasureSamples, MeasureNothing, EndProcess, EndSample
<1>4. ASSUME NEW ok \in BOOLEAN, WriteOutput(ok)
      PROVE  CloseInv'
  BY <1>4 DEF WriteOutput
<1>5. CASE StopModule \/ RunReturns
  BY <1>5 DEF StopModule, RunReturns
<1>6. CASE UnhookSignals
  BY <1>6 DEF UnhookSignals
<1>7. ASSUME NEW ok \in BOOLEAN, CloseOutput(ok)
      PROVE  CloseInv'
  BY <1>0, <1>7 DEF CloseOutput, AfterClose
<1>8. CASE Exit
  BY <1>0, <1>8 DEF Exit
<1>9. CASE TickerFires \/ DeadlineFires
  BY <1>9 DEF TickerFires, DeadlineFires
<1>10. CASE Interrupt
  BY <1>10 DEF Interrupt, Hooked
<1>11. CASE UNCHANGED vars
  BY <1>11 DEF vars
<1> QED
  BY <1>1, <1>2, <1>3, <1>4, <1>5, <1>6, <1>7, <1>8, <1>9, <1>10, <1>11
  DEF Next, Starting, Selecting, Sampling, Ending, Timers

\* The invariant of the fan-out and of the closing of the outputs.
LEMMA OutputsInvariant == Spec => [](TypeInv /\ OutputInv /\ CloseInv)
BY TypeInit, TypeStep, OutputInit, OutputStep, CloseStep, PTL DEF Spec

\* Aggregator.Process: every output is offered every batch, in order.
THEOREM FanOutHolds == Spec => []FanOut
<1>1. OutputInv => FanOut
  BY DEF OutputInv
<1> QED BY <1>1, OutputsInvariant, PTL

\* Aggregator.Close: a process that exits has closed every output.
THEOREM OutputsAreClosed == Spec => []AllOutputsClosed
<1>1. TypeInv /\ CloseInv => AllOutputsClosed
  BY Lengths DEF CloseInv, Passed, AllOutputsClosed, Wired
<1> QED BY <1>1, OutputsInvariant, PTL

-------------------------------------------------------------------------------
(***************************************************************************)
(* Refinement. Every output has taken the same batches as far as Pipeline  *)
(* can see: all that were emitted, but for the one being fanned out.       *)
(***************************************************************************)
LEMMA FrontOfAppend ==
  ASSUME NEW S, NEW s \in Seq(S), NEW e \in S
  PROVE  SubSeq(Append(s, e), 1, Len(Append(s, e)) - 1) = s
<1> DEFINE t == Append(s, e)
           f == SubSeq(t, 1, Len(t) - 1)
<1>1. t \in Seq(S) /\ Len(t) = Len(s) + 1 /\ \A i \in 1..Len(s) : t[i] = s[i]
  BY AppendProperties
<1>2. Len(s) \in Nat
  BY LenProperties
<1>3. f \in Seq(S) /\ Len(f) = Len(s) /\ \A i \in 1..Len(s) : f[i] = s[i]
  BY <1>1, <1>2, SubSeqProperties
<1> QED BY <1>3, SeqEqual

LEMMA FrontAndLast ==
  ASSUME NEW S, NEW s \in Seq(S), s # <<>>
  PROVE  /\ s[Len(s)] \in S
         /\ Append(SubSeq(s, 1, Len(s) - 1), s[Len(s)]) = s
<1>1. PICK t \in Seq(S), e \in S : s = Append(t, e)
  BY SequenceEmptyOrAppend
<1>2. s[Len(s)] = e
  BY <1>1, AppendProperties
<1>3. SubSeq(s, 1, Len(s) - 1) = t
  BY <1>1, FrontOfAppend
<1> QED BY <1>1, <1>2, <1>3

\* The expression that Promise substitutes for log, and what it amounts to.
LogOf(o) == IF pc = "write" /\ Len(offered[o]) = Len(emitted)
              THEN SubSeq(offered[o], 1, Len(emitted) - 1)
              ELSE offered[o]

Visible == IF pc = "write" THEN SubSeq(emitted, 1, Len(emitted) - 1) ELSE emitted

LEMMA LogValue ==
  ASSUME TypeInv, OutputInv, NEW o \in Outputs
  PROVE  LogOf(o) = IF o \in Wired THEN Visible ELSE <<>>
<1>0. /\ emitted \in Seq(Batches) /\ offered[o] \in Seq(Batches)
      /\ pc = "write" => emitted # <<>>
  BY DEF TypeInv, TypeOK, Positions
<1>1. Len(emitted) \in Nat /\ (emitted # <<>> => Len(emitted) # 0)
  BY <1>0, EmptySeq, LenProperties
<1>2. CASE o \notin Wired
  BY <1>0, <1>1, <1>2 DEF LogOf, OutputInv
<1>3. CASE o \in Wired /\ pc # "write"
  BY <1>3 DEF LogOf, Visible, OutputInv, FanOut, Wired
<1>4. CASE o \in Wired /\ pc = "write"
  <2>1. PICK i \in 1..Len(outs) : o = outs[i]
    BY <1>4 DEF Wired
  <2>2. CASE i < oi
    <3>1. offered[o] = emitted
      BY <1>4, <2>1, <2>2, Lengths DEF OutputInv, FanOut
    <3> QED BY <1>4, <3>1 DEF LogOf, Visible
  <2>3. CASE i >= oi
    <3>1. Append(offered[o], emitted[Len(emitted)]) = emitted
      BY <1>4, <2>1, <2>3 DEF OutputInv, FanOut
    <3>2. emitted[Len(emitted)] \in Batches
      BY <1>0, <1>4, FrontAndLast
    <3>3. offered[o] = SubSeq(emitted, 1, Len(emitted) - 1)
      BY <1>0, <3>1, <3>2, FrontOfAppend
    <3>4. Len(emitted) = Len(offered[o]) + 1
      BY <1>0, <3>1, <3>2, AppendProperties
    <3> QED BY <1>0, <1>1, <1>4, <3>3, <3>4, LenProperties DEF LogOf, Visible
  <2> QED BY <2>1, <2>2, <2>3, Lengths
<1> QED BY <1>2, <1>3, <1>4

RefInv == TypeInv /\ OutputInv /\ CloseInv

LogIsVisible ==
  \A o \in Outputs : LogOf(o) = IF o \in Wired THEN Visible ELSE <<>>

LEMMA LogInvariant == RefInv => LogIsVisible
BY LogValue DEF RefInv, LogIsVisible

LEMMA RefineInit == Init => Promise!Init
<1> SUFFICES ASSUME Init PROVE Promise!Init
  OBVIOUS
<1>1. Wired \in SUBSET Outputs /\ closed = {}
  BY TypeInit, Lengths DEF Wired, Init
<1>2. [o \in Outputs |-> LogOf(o)] = [o \in Outputs |-> <<>>]
  BY DEF Init, LogOf
<1> QED BY <1>1, <1>2 DEF Promise!Init, LogOf

\* A step that changes none of these is a stutter of Pipeline.
LEMMA Stutter ==
  ASSUME RefInv, RefInv',
         UNCHANGED <<outs, closed>>, Visible' = Visible
  PROVE  UNCHANGED Promise!pipelineVars
<1>1. Wired' = Wired
  BY DEF Wired
<1>2. LogIsVisible /\ LogIsVisible'
  BY LogInvariant, PTL
<1>3. [o \in Outputs |-> LogOf(o)]' = [o \in Outputs |-> LogOf(o)]
  BY <1>1, <1>2 DEF LogIsVisible
<1> QED BY <1>1, <1>3 DEF Promise!pipelineVars, LogOf

\* Process returns: the batch has reached every output. A Close is a Close. All
\* else is invisible.
LEMMA RefineStep ==
  RefInv /\ RefInv' /\ [Next]_vars => [Promise!Next]_(Promise!pipelineVars)
<1> SUFFICES ASSUME RefInv, RefInv', [Next]_vars
             PROVE  Promise!Next \/ UNCHANGED Promise!pipelineVars
  OBVIOUS
<1> USE DEF config, outVars, samples
<1>1. CASE StartModule \/ StartModuleFails \/ EnterLoop
  BY <1>1, Stutter
  DEF StartModule, StartModuleFails, EnterLoop, AfterPanic, Visible
<1>2. CASE SelectCancelled \/ SelectDeadline \/ SelectTick
  BY <1>2, Stutter
  DEF SelectCancelled, SelectDeadline, LeaveLoop, SelectTick, Visible
<1>3. CASE MeasureSamples
  <2>1. PICK b \in Batches : emitted' = Append(emitted, b)
    <3>1. mods[mi] \in Modules /\ rounds \in 0..MaxRounds
      BY <1>3, Lengths DEF RefInv, TypeInv, TypeOK, MeasureSamples
    <3> QED BY <1>3, <3>1 DEF MeasureSamples, Batches
  <2>2. emitted \in Seq(Batches)
    BY DEF RefInv, TypeInv, TypeOK
  <2>3. Visible' = emitted
    BY <1>3, <2>1, <2>2, FrontOfAppend DEF MeasureSamples, Visible
  <2> QED BY <1>3, <2>3, Stutter DEF MeasureSamples, Visible
<1>4. CASE MeasureNothing \/ EndSample
  BY <1>4, Stutter DEF MeasureNothing, EndSample, Visible
<1>5. ASSUME NEW ok \in BOOLEAN, WriteOutput(ok)
      PROVE  UNCHANGED Promise!pipelineVars
  BY <1>5, Stutter DEF WriteOutput, Visible
<1>6. CASE EndProcess
  <2>1. PICK b \in Batches : Append(Visible, b) = emitted
    BY <1>6, FrontAndLast
    DEF RefInv, TypeInv, TypeOK, Positions, EndProcess, Visible
  <2>2. Visible' = emitted /\ Wired' = Wired
    BY <1>6 DEF EndProcess, Visible, Wired
  <2>3. closed = {} /\ closed' = closed
    BY <1>6 DEF RefInv, CloseInv, Passed, EndProcess
  <2>4. LogIsVisible /\ LogIsVisible'
    BY LogInvariant, PTL
  <2>5. [o \in Outputs |-> LogOf(o)]'
          = [o \in Outputs |-> IF o \in Wired THEN Append(LogOf(o), b)
                                              ELSE LogOf(o)]
    BY <2>1, <2>2, <2>4 DEF LogIsVisible
  <2>6. Promise!Emit(b)
    BY <2>2, <2>3, <2>5 DEF Promise!Emit, LogOf
  <2> QED BY <2>6 DEF Promise!Next
<1>7. CASE StopModule \/ RunReturns \/ UnhookSignals \/ Exit
  BY <1>7, Stutter DEF StopModule, RunReturns, UnhookSignals, Exit, Visible
<1>8. ASSUME NEW ok \in BOOLEAN, CloseOutput(ok)
      PROVE  Promise!Next
  <2>1. /\ pc = "close" /\ pc' = "close" /\ oi <= Len(outs)
        /\ closed' = closed \cup {outs[oi]}
        /\ Wired' = Wired /\ offered' = offered
    BY <1>8 DEF CloseOutput, Wired
  <2>2. outs[oi] \in Wired \ closed /\ outs[oi] \in Outputs
    <3>1. /\ Len(outs) \in Nat /\ oi \in 1..Len(outs)
          /\ \A k \in 1..Len(outs) : outs[k] \in Outputs
      BY <2>1, Lengths DEF RefInv
    <3>2. /\ closed = {outs[i] : i \in 1..(oi - 1)}
          /\ \A i, j \in 1..Len(outs) : outs[i] = outs[j] => i = j
      BY <2>1 DEF RefInv, OutputInv, CloseInv, Passed
    <3>3. \A i \in 1..(oi - 1) : outs[i] # outs[oi]
      BY <3>1, <3>2
    <3> QED BY <3>1, <3>2, <3>3 DEF Wired
  <2>3. [o \in Outputs |-> LogOf(o)]' = [o \in Outputs |-> LogOf(o)]
    BY <2>1 DEF LogOf
  <2>4. Promise!Close(outs[oi])
    BY <2>1, <2>2, <2>3 DEF Promise!Close, LogOf
  <2> QED BY <2>2, <2>4 DEF Promise!Next
<1>9. CASE TickerFires \/ DeadlineFires
  BY <1>9, Stutter DEF TickerFires, DeadlineFires, Visible
<1>10. CASE Interrupt
  BY <1>10, Stutter DEF Interrupt, Hooked, Visible
<1>11. CASE UNCHANGED vars
  BY <1>11, Stutter DEF vars, Visible
<1> QED
  BY <1>1, <1>2, <1>3, <1>4, <1>5, <1>6, <1>7, <1>8, <1>9, <1>10, <1>11
  DEF Next, Starting, Selecting, Sampling, Ending, Timers

\* Aggregator and engine implement the promise of Pipeline to the outputs.
THEOREM EngineImplementsPipeline == Spec => ImplementsPipeline
<1>1. Spec => []RefInv
  BY OutputsInvariant, PTL DEF RefInv
<1>2. RefInv /\ RefInv' /\ [Next]_vars => [Promise!Next]_(Promise!pipelineVars)
  BY RefineStep
<1> QED
  BY <1>1, <1>2, RefineInit, PTL DEF Spec, ImplementsPipeline, Promise!Spec

-------------------------------------------------------------------------------
(***************************************************************************)
(* Ecofloc. Each step of the composition is one of the engine, of the      *)
(* loader or of both.                                                      *)
(***************************************************************************)
LoaderSteps == C!Create(Self) \/ C!Attach(Self) \/ C!Close(Self)

LEMMA EcoStep ==
  ASSUME EcoNext
  PROVE  \/ Next /\ UNCHANGED cgroups
         \/ (Exit \/ Interrupt) /\ C!Active(Self) /\ C!Crash(Self)
         \/ NicIsNext /\ LoaderSteps /\ UNCHANGED vars
         \/ Family
<1>1. CASE EcoStarting
  BY <1>1 DEF EcoStarting, NicStartStep, LoaderSteps, Next, Starting
<1>2. CASE EcoEnding
  BY <1>2 DEF EcoEnding, NicStopStep, LoaderSteps, Next, Ending, ProcessEnds
<1>3. CASE EcoInterrupt
  BY <1>3 DEF EcoInterrupt, ProcessEnds, Next
<1>4. CASE Unaided(Selecting) \/ Unaided(Sampling) \/ Unaided(Timers)
  BY <1>4 DEF Unaided, Next
<1> QED BY <1>1, <1>2, <1>3, <1>4 DEF EcoNext

LEMMA EngineStep == [EcoNext]_all => [Next]_vars
<1>1. EcoNext => [Next]_vars
  BY EcoStep DEF Next, Ending, Family
<1> QED BY <1>1 DEF all

LEMMA LoaderStep == [EcoNext]_all => [C!Next]_(C!vars)
<1>1. UNCHANGED cgroups => UNCHANGED C!vars
  BY DEF cgroups, C!vars, C!system, C!errors
<1>2. EcoNext => C!Next \/ UNCHANGED cgroups
  BY EcoStep DEF LoaderSteps, Family, C!Next
<1> QED BY <1>1, <1>2 DEF all

\* To the engine a run with the nic module is a run like any other: what is
\* proved of Engine, its refinement of Pipeline included, holds of it.
THEOREM EcoflocIsAnEngine == EcoSpec => Spec
<1>1. EcoInit => Init
  BY DEF EcoInit
<1> QED BY <1>1, EngineStep, PTL DEF EcoSpec, Spec

\* The loader that the engine drives is the loader of NicCgroup: the composition
\* takes none of its steps out of order.
THEOREM EcoflocIsALoader == EcoSpec => C!Spec
<1>1. EcoInit => C!Init
  BY DEF EcoInit
<1> QED BY <1>1, LoaderStep, PTL DEF EcoSpec, C!Spec

-------------------------------------------------------------------------------
(***************************************************************************)
(* The engine: what the phase says of each module.                         *)
(***************************************************************************)
Wanted == \E k \in 1..Len(mods) : mods[k] = Nic

Distinct == \A j, k \in 1..Len(mods) : mods[j] = mods[k] => j = k

ModInv ==
  /\ Distinct
  /\ pc = "start" => \A k \in 1..Len(mods) :
                       mstate[mods[k]] = IF k < mi THEN "started" ELSE "idle"
  /\ pc \in {"loop", "measure", "write"} =>
       nStarted = Len(mods) /\ \A k \in 1..Len(mods) : mstate[mods[k]] = "started"
  /\ pc = "stop" =>
       /\ nStarted = Len(mods) /\ result # "startError"
       /\ \A k \in 1..Len(mods) :
            mstate[mods[k]] = IF k < mi THEN "stopped" ELSE "started"
  /\ pc \in {"return", "close", "exited", "killed"} /\ result # "startError" =>
       \A k \in 1..Len(mods) : mstate[mods[k]] = "stopped"
  /\ ~Wanted => mstate[Nic] = "idle"

LEMMA ModInit == Init => ModInv
BY EngineAssumption, EcoflocAssumption, OrdersAreSequences, Lengths, TypeInit
   DEF Init, ModInv, Distinct

LEMMA ModStep == TypeInv /\ ReleaseInv /\ ModInv /\ [Next]_vars => ModInv'
<1> SUFFICES ASSUME TypeInv, ReleaseInv, ModInv, [Next]_vars PROVE ModInv'
  OBVIOUS
<1>0. /\ Len(mods) \in Nat /\ mi \in 1..(Len(mods) + 1)
      /\ nStarted \in 0..Len(mods)
      /\ \A k \in 1..Len(mods) : mods[k] \in Modules
      /\ mstate \in [Modules -> {"idle", "started", "failed", "stopped"}]
      /\ pc = "start" => nStarted = mi - 1
      /\ Running => result = "running"
      /\ Nic \in Modules
  BY Lengths, EcoflocAssumption DEF TypeInv, TypeOK, Positions, ReleaseInv
<1> USE DEF ModInv, Distinct, Wanted, Running, config, modVars
<1>1. CASE StartModule
  <2>1. /\ pc = "start" /\ pc' = "start" /\ mods' = mods /\ mi' = mi + 1
        /\ mi \in 1..Len(mods) /\ mstate' = [mstate EXCEPT ![mods[mi]] = "started"]
    BY <1>0, <1>1 DEF StartModule
  <2>2. \A k \in 1..Len(mods) : mstate'[mods[k]] = IF k < mi' THEN "started" ELSE "idle"
    BY <1>0, <2>1
  <2>3. ~Wanted => mstate'[Nic] = "idle"
    BY <1>0, <2>1
  <2> QED BY <2>1, <2>2, <2>3
<1>2. CASE StartModuleFails
  BY <1>0, <1>2 DEF StartModuleFails
<1>3. CASE EnterLoop
  BY <1>0, <1>3 DEF EnterLoop, AfterPanic
<1>4. CASE Selecting
  BY <1>0, <1>4 DEF Selecting, SelectCancelled, SelectDeadline, SelectTick, LeaveLoop
<1>5. CASE Sampling
  BY <1>0, <1>5 DEF Sampling, MeasureSamples, MeasureNothing, EndProcess, EndSample,
                    WriteOutput
<1>6. CASE StopModule
  <2>1. /\ pc = "stop" /\ pc' = "stop" /\ mods' = mods /\ mi' = mi + 1
        /\ mi \in 1..Len(mods) /\ mstate' = [mstate EXCEPT ![mods[mi]] = "stopped"]
        /\ result' = result /\ nStarted' = nStarted
    BY <1>0, <1>6 DEF StopModule
  <2>2. \A k \in 1..Len(mods) : mstate'[mods[k]] = IF k < mi' THEN "stopped" ELSE "started"
    BY <1>0, <2>1
  <2>3. ~Wanted => mstate'[Nic] = "idle"
    BY <1>0, <2>1
  <2> QED BY <2>1, <2>2, <2>3
<1>7. CASE RunReturns
  BY <1>0, <1>7 DEF RunReturns
<1>8. CASE UnhookSignals \/ Exit \/ \E ok \in BOOLEAN : CloseOutput(ok)
  BY <1>0, <1>8 DEF UnhookSignals, Exit, CloseOutput
<1>9. CASE Timers
  BY <1>0, <1>9 DEF Timers, TickerFires, DeadlineFires
<1>10. CASE Interrupt
  BY <1>0, <1>10 DEF Interrupt, Hooked
<1>11. CASE UNCHANGED vars
  BY <1>11 DEF vars
<1> QED BY <1>1, <1>2, <1>3, <1>4, <1>5, <1>6, <1>7, <1>8, <1>9, <1>10, <1>11
        DEF Next, Starting, Ending

LEMMA EngineInvariants == EcoSpec => [](TypeInv /\ ReleaseInv /\ ModInv)
BY EcoflocIsAnEngine, TypeInit, TypeStep, ReleaseInit, ReleaseStep, ModInit, ModStep,
   PTL DEF Spec

-------------------------------------------------------------------------------
(***************************************************************************)
(* The loader, which is alone: the target is found in cgroup 0, and where  *)
(* it is and what is attached follows from the label.                      *)
(***************************************************************************)
Placed(S) == C!Live(Target) => cg[Target] \in S

LoaderInv ==
  /\ lpc \in [{Self} -> C!Labels] /\ orig = [i \in {Self} |-> 0]
  /\ attached \in [{Self} -> SUBSET {"egress", "ingress"}]
  /\ todo \in [{Self} -> SUBSET Procs]
  /\ depth \in Nat /\ cg \in [Procs -> Nat]
  /\ life \in [Procs -> {"unborn", "live", "dead"}] /\ life[Target] # "unborn"
  /\ LoaderAt({"off", "mkdir", "move"}) => Placed({0})
  /\ LoaderAt({"remove", "closed"}) => Placed({0}) \/ Target \in refused
  /\ LoaderAt({"egress", "ingress", "running"}) => Placed({1})
  /\ LoaderAt({"read"}) => Placed({0, 1})
  /\ LoaderAt({"moveback"}) /\ Target \notin todo[Self] =>
       Placed({0}) \/ Target \in refused
  /\ LoaderAt({"running"}) => attached[Self] = {"egress", "ingress"}
  /\ LoaderAt({"ingress"}) => attached[Self] = {"egress"}

LEMMA LoaderInit == C!Init => LoaderInv
BY EcoflocAssumption DEF C!Init, LoaderInv, LoaderAt, Placed, C!Live, C!Labels

LEMMA LoaderInvStep == LoaderInv /\ [C!Next]_(C!vars) => LoaderInv'
<1> SUFFICES ASSUME LoaderInv, [C!Next]_(C!vars) PROVE LoaderInv'
  OBVIOUS
<1> USE EcoflocAssumption DEF LoaderInv, LoaderAt, Placed, C!Live, C!Labels, C!Goto, C!system, C!errors
<1>1. CASE C!Create(Self)
  <2>1. CASE C!FindCgroup(Self)
    <3>1. orig' = [i \in {Self} |-> 0]
      BY <2>1 DEF C!FindCgroup
    <3> QED BY <2>1, <3>1 DEF C!FindCgroup
  <2>2. CASE C!MakeChild(Self)
    BY <2>2 DEF C!MakeChild, C!Child, C!Exists
  <2>3. CASE C!MakeChildFails(Self)
    BY <2>3 DEF C!MakeChildFails
  <2>4. CASE C!MoveTarget(Self)
    BY <2>4 DEF C!MoveTarget, C!Child
  <2>5. CASE C!MoveTargetFails(Self)
    BY <2>5 DEF C!MoveTargetFails
  <2> QED BY <1>1, <2>1, <2>2, <2>3, <2>4, <2>5 DEF C!Create
<1>2. CASE C!Attach(Self)
  <2>1. CASE C!AttachEgress(Self)
    BY <2>1 DEF C!AttachEgress
  <2>2. CASE C!AttachEgressFails(Self)
    BY <2>2 DEF C!AttachEgressFails
  <2>3. CASE C!AttachIngress(Self)
    BY <2>3 DEF C!AttachIngress
  <2>4. CASE C!AttachIngressFails(Self)
    BY <2>4 DEF C!AttachIngressFails
  <2> QED BY <1>2, <2>1, <2>2, <2>3, <2>4 DEF C!Attach
<1>3. CASE C!Close(Self)
  <2>1. CASE C!Detach(Self)
    BY <2>1 DEF C!Detach
  <2>2. CASE C!ListChild(Self)
    BY <2>2 DEF C!ListChild, C!Members, C!Child
  <2>3. CASE C!AllMovedBack(Self)
    BY <2>3 DEF C!AllMovedBack
  <2>4. CASE C!RemoveChild(Self)
    BY <2>4 DEF C!RemoveChild, C!Child, C!Members
  <2>5. ASSUME NEW p \in Procs, C!MoveBack(Self, p) PROVE LoaderInv'
    BY <2>5 DEF C!MoveBack, C!Home, C!Exists
  <2>6. CASE C!ListChildFails(Self)
    BY <2>6 DEF C!ListChildFails, C!Members, C!Child
  <2>7. ASSUME NEW p \in Procs, C!MoveBackFails(Self, p) PROVE LoaderInv'
    BY <2>7 DEF C!MoveBackFails
  <2>8. CASE C!RemoveChildFails(Self)
    BY <2>8 DEF C!RemoveChildFails
  <2> QED BY <1>3, <2>1, <2>2, <2>3, <2>4, <2>5, <2>6, <2>7, <2>8 DEF C!Close
<1>4. CASE C!Crash(Self)
  BY <1>4 DEF C!Crash
<1>5. ASSUME NEW p \in Procs, NEW q \in Procs, C!Fork(p, q) PROVE LoaderInv'
  BY <1>5 DEF C!Fork
<1>6. ASSUME NEW p \in Procs, C!ProcessExits(p) PROVE LoaderInv'
  BY <1>6 DEF C!ProcessExits
<1>7. CASE UNCHANGED C!vars
  BY <1>7 DEF C!vars
<1> QED BY <1>1, <1>2, <1>3, <1>4, <1>5, <1>6, <1>7 DEF C!Next

LEMMA LoaderInvariant == EcoSpec => []LoaderInv
BY EcoflocIsALoader, LoaderInit, LoaderInvStep, PTL DEF C!Spec

-------------------------------------------------------------------------------
(***************************************************************************)
(* The two together: what the engine has been told of the nic module is    *)
(* where its loader is, except while a call is under way.                  *)
(***************************************************************************)
NicState == mstate[Nic]
Stopping == pc = "stop" /\ NicIsNext /\ mi <= nStarted

PairInv ==
  /\ NicState = "idle" => LoaderAt({"off"}) \/ (pc = "start" /\ NicIsNext)
  /\ NicState = "started" =>
       LoaderAt({"running"}) \/ Stopping \/ (Done /\ result = "startError")
  /\ NicState = "failed" => LoaderAt({"off", "closed"})
  /\ NicState = "stopped" => LoaderAt({"closed"})
  /\ ~Done => ~LoaderAt({"crashed"})

LEMMA PairInit == EcoInit => PairInv
BY EcoflocAssumption DEF EcoInit, Init, C!Init, PairInv, NicState, LoaderAt, Done

\* A step of the loader in a call never ends the process.
LEMMA CallStep ==
  ASSUME LoaderInv, LoaderSteps
  PROVE  ~LoaderAt({"crashed"})'
BY DEF LoaderSteps, LoaderInv, LoaderAt, C!Labels, C!Goto,
   C!Create, C!FindCgroup, C!MakeChild, C!MakeChildFails, C!MoveTarget, C!MoveTargetFails,
   C!Attach, C!AttachEgress, C!AttachEgressFails, C!AttachIngress, C!AttachIngressFails,
   C!Close, C!Detach, C!ListChild, C!AllMovedBack, C!RemoveChild, C!MoveBack,
   C!ListChildFails, C!MoveBackFails, C!RemoveChildFails

\* The end of the process finds the loader at rest, unless a Start has failed.
LEMMA EndStep ==
  ASSUME TypeInv, ModInv, LoaderInv, PairInv, pc = "close", ProcessEnds,
         pc' \in {"exited", "killed"}, UNCHANGED <<mods, mstate, result>>
  PROVE  PairInv'
<1>1. CASE C!Active(Self)
  <2>1. lpc'[Self] = "crashed" /\ Done'
    BY <1>1 DEF ProcessEnds, C!Crash, C!Goto, LoaderInv, Done
  <2>2. lpc[Self] \notin {"off", "closed"}
    BY <1>1 DEF C!Active, C!Ended
  <2>3. NicState = "started"
    BY <2>2, EcoflocAssumption
       DEF PairInv, NicState, LoaderAt, TypeInv, TypeOK
  <2>4. result = "startError"
    BY <2>3 DEF ModInv, NicState, Wanted
  <2> QED BY <2>1, <2>3, <2>4 DEF PairInv, NicState
<1>2. CASE ~C!Active(Self)
  <2>1. UNCHANGED cgroups
    BY <1>2 DEF ProcessEnds
  <2> QED BY <2>1 DEF cgroups, PairInv, NicState, LoaderAt, Done, Stopping
<1> QED BY <1>1, <1>2

LEMMA PairStep ==
  TypeInv /\ ReleaseInv /\ ModInv /\ LoaderInv /\ PairInv /\ [EcoNext]_all => PairInv'
<1> SUFFICES ASSUME TypeInv, ReleaseInv, ModInv, LoaderInv, PairInv, [EcoNext]_all
             PROVE  PairInv'
  OBVIOUS
<1>0. /\ Len(mods) \in Nat /\ mi \in 1..(Len(mods) + 1) /\ Nic \in Modules
      /\ mstate \in [Modules -> {"idle", "started", "failed", "stopped"}]
      /\ \A k \in 1..Len(mods) : mods[k] \in Modules
      /\ nStarted \in 0..Len(mods)
  BY Lengths, EcoflocAssumption DEF TypeInv, TypeOK
<1> USE DEF NicState, Done, config, modVars
\* Steps that leave the loader alone, and the module too.
<1>a. ASSUME UNCHANGED <<mods, mstate, result, lpc>>, pc # "start" \/ ~NicIsNext,
             ~Stopping, ~Done
      PROVE  PairInv'
  BY <1>a DEF PairInv, LoaderAt
<1>1. CASE NicStartStep
  <2>1. pc = "start" /\ NicIsNext /\ LoaderSteps /\ UNCHANGED vars
    BY <1>1 DEF NicStartStep, LoaderSteps
  <2>2. NicState = "idle"
    BY <1>0, <2>1 DEF NicIsNext, ModInv
  <2> QED BY <2>1, <2>2, CallStep DEF PairInv, NicIsNext, vars
<1>2. CASE NicStopStep
  <2>1. Stopping /\ LoaderSteps /\ UNCHANGED vars
    BY <1>2 DEF NicStopStep, LoaderSteps, Stopping
  <2>2. NicState = "started"
    BY <1>0, <2>1 DEF NicIsNext, Stopping, ModInv
  <2> QED BY <2>1, <2>2, CallStep DEF PairInv, Stopping, NicIsNext, vars
<1>3. CASE StartModule /\ StartDone(NicStarted) /\ UNCHANGED cgroups
  <2>1. /\ pc = "start" /\ pc' = "start" /\ mods' = mods /\ mi \in 1..Len(mods)
        /\ mstate' = [mstate EXCEPT ![mods[mi]] = "started"]
        /\ result' = result /\ lpc' = lpc
    BY <1>0, <1>3 DEF StartModule, cgroups
  <2>2. CASE mods[mi] = Nic
    <3>1. lpc[Self] = "running" /\ mstate'[Nic] = "started"
      BY <1>0, <1>3, <2>1, <2>2 DEF StartDone, NicStarted, LoaderAt, NicIsNext
    <3> QED BY <2>1, <3>1 DEF PairInv, LoaderAt
  <2>3. CASE mods[mi] # Nic
    <3>1. mstate'[Nic] = mstate[Nic] /\ ~NicIsNext
      BY <1>0, <2>1, <2>3 DEF NicIsNext
    <3> QED BY <2>1, <3>1 DEF PairInv, LoaderAt, Stopping
  <2> QED BY <2>2, <2>3
<1>4. CASE StartModuleFails /\ StartDone(NicFailed) /\ UNCHANGED cgroups
  <2>1. /\ pc = "start" /\ pc' = "return" /\ mods' = mods /\ mi \in 1..Len(mods)
        /\ mstate' = [mstate EXCEPT ![mods[mi]] = "failed"] /\ lpc' = lpc
    BY <1>0, <1>4 DEF StartModuleFails, cgroups
  <2>2. CASE mods[mi] = Nic
    <3>1. lpc[Self] \in {"off", "closed"} /\ mstate'[Nic] = "failed"
      BY <1>0, <1>4, <2>1, <2>2 DEF StartDone, NicFailed, LoaderAt, NicIsNext
    <3> QED BY <2>1, <3>1 DEF PairInv, LoaderAt
  <2>3. CASE mods[mi] # Nic
    <3>1. mstate'[Nic] = mstate[Nic] /\ ~NicIsNext
      BY <1>0, <2>1, <2>3 DEF NicIsNext
    <3> QED BY <2>1, <3>1 DEF PairInv, LoaderAt, Stopping
  <2> QED BY <2>2, <2>3
<1>5. CASE EnterLoop /\ UNCHANGED cgroups
  <2>1. /\ pc = "start" /\ ~NicIsNext /\ pc' \in {"loop", "stop"}
        /\ UNCHANGED <<mods, mstate, lpc>>
    BY <1>0, <1>5 DEF EnterLoop, AfterPanic, NicIsNext, cgroups
  <2> QED BY <2>1 DEF PairInv, LoaderAt, Stopping
<1>6. CASE StopModule /\ StartDone(NicStopped) /\ UNCHANGED cgroups
  <2>1. /\ pc = "stop" /\ pc' = "stop" /\ mods' = mods /\ mi \in 1..Len(mods)
        /\ mstate' = [mstate EXCEPT ![mods[mi]] = "stopped"]
        /\ result' = result /\ lpc' = lpc
    BY <1>0, <1>6 DEF StopModule, ModInv, cgroups
  <2>2. CASE mods[mi] = Nic
    <3>1. lpc[Self] = "closed" /\ mstate'[Nic] = "stopped"
      BY <1>0, <1>6, <2>1, <2>2 DEF StartDone, NicStopped, LoaderAt, NicIsNext
    <3> QED BY <2>1, <3>1 DEF PairInv, LoaderAt
  <2>3. CASE mods[mi] # Nic
    <3>1. mstate'[Nic] = mstate[Nic] /\ ~NicIsNext
      BY <1>0, <2>1, <2>3 DEF NicIsNext
    <3> QED BY <2>1, <3>1 DEF PairInv, LoaderAt, Stopping
  <2> QED BY <2>2, <2>3
<1>7. CASE (RunReturns \/ UnhookSignals \/ \E ok \in BOOLEAN : CloseOutput(ok))
           /\ UNCHANGED cgroups
  <2>1. /\ (pc = "stop" /\ mi > nStarted) \/ pc \in {"return", "close"}
        /\ UNCHANGED <<mods, mstate, result, lpc>>
    BY <1>7 DEF RunReturns, UnhookSignals, CloseOutput, cgroups
  <2>2. ~Stopping
    BY <1>0, <2>1 DEF Stopping
  <2> QED BY <1>a, <2>1, <2>2
<1>8. CASE Exit /\ ProcessEnds
  BY <1>8, EndStep DEF Exit
<1>9. CASE EcoInterrupt
  <2>1. CASE pc' = "killed"
    <3>1. pc = "close" /\ ProcessEnds /\ UNCHANGED <<mods, mstate, result>>
      BY <1>9, <2>1 DEF EcoInterrupt, Interrupt, Hooked
    <3> QED BY <2>1, <3>1, EndStep
  <2>2. CASE pc' # "killed"
    <3>1. UNCHANGED <<pc, mods, mi, nStarted, mstate, result, lpc>>
      BY <1>9, <2>2 DEF EcoInterrupt, Interrupt, cgroups
    <3> QED BY <3>1 DEF PairInv, LoaderAt, Stopping, NicIsNext
  <2> QED BY <2>1, <2>2
<1>10. CASE Family
  <2>1. UNCHANGED vars /\ lpc' = lpc
    BY <1>10 DEF Family, C!Fork, C!ProcessExits
  <2> QED BY <2>1 DEF vars, PairInv, LoaderAt, Stopping, NicIsNext
<1>11. CASE Unaided(Selecting)
  <2>1. pc = "loop" /\ pc' \in {"stop", "measure"} /\ UNCHANGED <<mods, mstate, lpc>>
    BY <1>11 DEF Unaided, Selecting, SelectCancelled, SelectDeadline, SelectTick,
                 LeaveLoop, cgroups
  <2> QED BY <2>1 DEF PairInv, LoaderAt, Stopping
<1>12. CASE Unaided(Sampling)
  <2>1. /\ pc \in {"measure", "write"} /\ pc' \in {"loop", "measure", "write"}
        /\ UNCHANGED <<mods, mstate, result, lpc>>
    BY <1>12 DEF Unaided, Sampling, MeasureSamples, MeasureNothing, EndProcess, EndSample,
                 WriteOutput, cgroups
  <2> QED BY <2>1, <1>a DEF Stopping
<1>13. CASE Unaided(Timers)
  <2>1. UNCHANGED <<pc, mods, mi, nStarted, mstate, result, lpc>>
    BY <1>13 DEF Unaided, Timers, TickerFires, DeadlineFires, cgroups
  <2> QED BY <2>1 DEF PairInv, LoaderAt, Stopping, NicIsNext
<1>14. CASE UNCHANGED all
  BY <1>14 DEF all, vars, cgroups, PairInv, LoaderAt, Stopping, NicIsNext
<1> QED BY <1>1, <1>2, <1>3, <1>4, <1>5, <1>6, <1>7, <1>8, <1>9, <1>10, <1>11, <1>12,
           <1>13, <1>14
        DEF EcoNext, EcoStarting, EcoEnding

LEMMA EcoInvariants ==
  EcoSpec => [](TypeInv /\ ReleaseInv /\ ModInv /\ LoaderInv /\ PairInv)
BY EngineInvariants, LoaderInvariant, PairInit, PairStep, PTL DEF EcoSpec

\* The engine never samples a nic module whose programs are not both attached to
\* the cgroup the target is in.
THEOREM SamplesAreAttached == EcoSpec => []MeasuredWhileAttached
<1>1. TypeInv /\ ModInv /\ LoaderInv /\ PairInv => MeasuredWhileAttached
  <2> SUFFICES ASSUME TypeInv, ModInv, LoaderInv, PairInv,
                      pc \in {"loop", "measure", "write"},
                      NEW i \in DOMAIN mods, mods[i] = Nic
               PROVE  /\ attached[Self] = {"egress", "ingress"}
                      /\ C!Live(Target) => cg[Target] = orig[Self] + 1
    BY DEF MeasuredWhileAttached
  <2>1. i \in 1..Len(mods)
    BY DEF TypeInv, TypeOK
  <2>2. NicState = "started"
    BY <2>1 DEF ModInv, NicState
  <2>3. LoaderAt({"running"})
    BY <2>2 DEF PairInv, Stopping, Done
  <2> QED BY <2>3 DEF LoaderInv, LoaderAt, Placed
<1> QED BY <1>1, EcoInvariants, PTL

\* When the process has ended the target is in the cgroup where it was found,
\* unless the nic module was left running because another one failed to start, or
\* the clean-up dropped an error of moving the target back.
THEOREM TargetIsGivenBack == EcoSpec => []TargetGivenBack
<1>1. TypeInv /\ ModInv /\ LoaderInv /\ PairInv => TargetGivenBack
  <2> SUFFICES ASSUME TypeInv, ModInv, LoaderInv, PairInv,
                      Done, C!Live(Target), cg[Target] # 0, Target \notin refused
               PROVE  result = "startError" /\ mstate[Nic] = "started"
    BY DEF TargetGivenBack
  <2>1. ~LoaderAt({"off", "closed"})
    BY DEF LoaderInv, LoaderAt, Placed
  <2>2. NicState = "started"
    BY <2>1, EcoflocAssumption DEF PairInv, NicState, LoaderAt, Done, TypeInv, TypeOK
  <2>3. result = "startError"
    BY <2>2 DEF ModInv, NicState, Wanted, Done
  <2> QED BY <2>2, <2>3 DEF NicState
<1> QED BY <1>1, EcoInvariants, PTL
===============================================================================
