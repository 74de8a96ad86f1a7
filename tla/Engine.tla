-------------------------------- MODULE Engine --------------------------------
(***************************************************************************)
(* One run of the measurement engine: Engine.Run and Engine.sample         *)
(* (core/engine.go), the aggregator they feed (core/aggregator.go) and the *)
(* deferred calls of run() in main.go that end the program.                *)
(*                                                                         *)
(* A run has one goroutine, whose position is pc:                          *)
(*   "start"    the loop over e.modules that calls Start                   *)
(*   "loop"     the select on context, deadline and sampling ticker        *)
(*   "measure"  sample(): the loop over e.modules that calls Measure       *)
(*   "write"    Aggregator.Process: the loop over a.outputs                *)
(*   "stop"     the deferred loop that calls Stop                          *)
(*   "return"   Run has returned; the deferred stop() of main is next      *)
(*   "close"    Aggregator.Close: the loop over a.outputs                  *)
(*   "exited"   the process has ended; "killed": a signal ended it         *)
(* The timers and the signals are the environment and interleave with it.  *)
(***************************************************************************)
EXTENDS Naturals, Sequences, FiniteSets

CONSTANTS
  Modules,        \* the modules that can be enabled
  Outputs,        \* the outputs that can be enabled
  SamplingTimes,  \* the values of cfg.SamplingTime that Validate lets through
  Intervals,      \* the values of cfg.Interval that Validate lets through
  MaxTicks,       \* bound: ticker firings that are counted
  MaxRounds       \* bound: sampling rounds that are recorded

ASSUME EngineAssumption ==
  /\ IsFiniteSet(Modules) /\ Modules # {}
  /\ IsFiniteSet(Outputs)
  /\ SamplingTimes \subseteq Nat
  /\ Intervals \subseteq Nat
  /\ MaxTicks \in Nat
  /\ MaxRounds \in Nat

VARIABLES
  cfg,          \* SamplingTime and Interval, in a common unit of time
  mods,         \* e.modules: the enabled modules, in the order of a map range
  outs,         \* a.outputs: the enabled outputs, in the order of a map range
  pc,
  mi,           \* index in mods of the current loop over the modules
  oi,           \* index in outs of the current loop over the outputs
  nStarted,     \* Len(started); started holds the first nStarted of mods
  mstate,       \* mstate[m]: what the calls on m have left it in
  closed,       \* outputs whose Close was called
  tick,         \* the one-element channel of the sampling ticker
  ticks,        \* firings of the ticker since NewTicker, up to MaxTicks
  deadlineHit,  \* the deadline timer has fired
  cancelled,    \* ctx.Done() is closed
  rounds,       \* calls of sample(), up to MaxRounds
  sampledUpTo,  \* the value of ticks when the last sample() began
  emitted,      \* history: the batches passed to Process with samples in them
  offered,      \* history: offered[o], the batches o.Write was called with
  result        \* how Run ended

config  == <<cfg, mods, outs>>
modVars == <<nStarted, mstate>>
outVars == <<offered, closed>>
timers  == <<tick, ticks, deadlineHit>>
samples == <<rounds, sampledUpTo, emitted>>

vars == <<config, pc, mi, oi, modVars, outVars, timers, cancelled, samples, result>>

-------------------------------------------------------------------------------
\* InstantiateEnabledModules and InstantiateEnabledOutputs append to a slice
\* while they range over a map: each enabled name once, in any order.
Orders(S) ==
  UNION {{s \in [1..n -> S] : \A i, j \in 1..n : s[i] = s[j] => i = j} :
           n \in 0..Cardinality(S)}

Batches == Modules \X (0..MaxRounds)

\* How many firings of the ticker fall within the measurement duration.
DeadlineTicks == cfg.Interval \div cfg.SamplingTime

\* Both timers are stopped by deferred calls when Run returns.
TimersOn == pc \in {"loop", "measure", "write"}

Init ==
  /\ cfg \in [SamplingTime : SamplingTimes, Interval : Intervals]
  /\ mods \in Orders(Modules) \ {<<>>}
  /\ outs \in Orders(Outputs)
  /\ pc = "start" /\ mi = 1 /\ oi = 1
  /\ nStarted = 0
  /\ mstate = [m \in Modules |-> "idle"]
  /\ closed = {}
  /\ tick = FALSE /\ ticks = 0
  /\ deadlineHit = FALSE /\ cancelled = FALSE
  /\ rounds = 0 /\ sampledUpTo = 0
  /\ emitted = <<>>
  /\ offered = [o \in Outputs |-> <<>>]
  /\ result = "running"

-------------------------------------------------------------------------------
(***************************************************************************)
(* The environment.                                                        *)
(***************************************************************************)
\* A firing that finds the channel full is dropped. The deadline timer is made
\* right after the ticker: the firings within the duration come before it, the
\* next one after it.
TickerFires ==
  /\ TimersOn
  /\ cfg.Interval > 0 /\ ~deadlineHit => ticks < DeadlineTicks
  /\ ticks' = IF ticks < MaxTicks THEN ticks + 1 ELSE ticks
  /\ tick' = TRUE
  /\ UNCHANGED <<config, pc, mi, oi, modVars, outVars, deadlineHit,
                 cancelled, samples, result>>

DeadlineFires ==
  /\ TimersOn
  /\ cfg.Interval > 0 /\ ~deadlineHit
  /\ ticks >= DeadlineTicks
  /\ deadlineHit' = TRUE
  /\ UNCHANGED <<config, pc, mi, oi, modVars, outVars, tick, ticks,
                 cancelled, samples, result>>

\* SIGINT or SIGTERM. NotifyContext turns the first one into ctx.Done() and
\* swallows the others; after the deferred stop() the default action is back.
Hooked_UntilDone == ~cancelled
Hooked == pc \notin {"close", "exited", "killed"}

Interrupt ==
  /\ pc \notin {"exited", "killed"}
  /\ IF Hooked
       THEN cancelled' = TRUE /\ pc' = pc
       ELSE cancelled' = cancelled /\ pc' = "killed"
  /\ UNCHANGED <<config, mi, oi, modVars, outVars, timers, samples, result>>

-------------------------------------------------------------------------------
(***************************************************************************)
(* Engine.Run: starting the modules.                                       *)
(***************************************************************************)
StartModule ==
  /\ pc = "start" /\ mi <= Len(mods)
  /\ mstate' = [mstate EXCEPT ![mods[mi]] = "started"]
  /\ nStarted' = nStarted + 1
  /\ mi' = mi + 1
  /\ UNCHANGED <<config, pc, oi, outVars, timers, cancelled, samples, result>>

\* m.Start() returned an error: Run returns it. The deferred loop over started
\* is only registered after this loop, so it does not run.
StartModuleFails ==
  /\ pc = "start" /\ mi <= Len(mods)
  /\ mstate' = [mstate EXCEPT ![mods[mi]] = "failed"]
  /\ result' = "startError"
  /\ pc' = "return"
  /\ UNCHANGED <<config, mi, oi, nStarted, outVars, timers, cancelled,
                 samples>>

\* The deferred loop is registered, then time.NewTicker is called: it panics
\* when the cadence is not positive, and a panic runs the deferred calls.
AfterPanic == "stop"

EnterLoop ==
  /\ pc = "start" /\ mi > Len(mods)
  /\ IF cfg.SamplingTime > 0
       THEN pc' = "loop" /\ mi' = mi /\ result' = result
       ELSE pc' = AfterPanic /\ mi' = 1 /\ result' = "panic"
  /\ UNCHANGED <<config, oi, modVars, outVars, timers, cancelled, samples>>

-------------------------------------------------------------------------------
(***************************************************************************)
(* Engine.Run: the select. Several ready cases: any of them may be chosen. *)
(* They can be, even after a short sample(): pc = "loop" includes the time *)
(* before the goroutine gets to run again and looks at its channels.       *)
(***************************************************************************)
LeaveLoop(why) ==
  /\ pc = "loop"
  /\ pc' = "stop" /\ mi' = 1 /\ result' = why
  /\ UNCHANGED <<config, oi, modVars, outVars, timers, cancelled, samples>>

SelectCancelled_AfterTicks == cancelled /\ ~tick /\ LeaveLoop("cancelled")
SelectCancelled == cancelled /\ LeaveLoop("cancelled")

SelectDeadline_AfterTicks == deadlineHit /\ ~tick /\ LeaveLoop("deadline")
SelectDeadline == deadlineHit /\ LeaveLoop("deadline")

SelectTick ==
  /\ pc = "loop" /\ tick
  /\ tick' = FALSE
  /\ sampledUpTo' = ticks
  /\ pc' = "measure" /\ mi' = 1
  /\ UNCHANGED <<config, oi, modVars, outVars, ticks, deadlineHit,
                 cancelled, rounds, emitted, result>>

-------------------------------------------------------------------------------
(***************************************************************************)
(* Engine.sample and Aggregator.Process.                                   *)
(***************************************************************************)
\* Measure returned samples: Process takes the lock and begins its loop.
MeasureSamples ==
  /\ pc = "measure" /\ mi <= Len(mods)
  /\ rounds < MaxRounds
  /\ emitted' = Append(emitted, <<mods[mi], rounds>>)
  /\ pc' = "write" /\ oi' = 1
  /\ UNCHANGED <<config, mi, modVars, outVars, timers, cancelled, rounds,
                 sampledUpTo, result>>

\* Measure returned an error (logged), or no samples (Process returns at once).
MeasureNothing ==
  /\ pc = "measure" /\ mi <= Len(mods)
  /\ mi' = mi + 1
  /\ UNCHANGED <<config, pc, oi, modVars, outVars, timers, cancelled,
                 samples, result>>

\* Where the loop over a.outputs goes after a Write: an error is only logged.
AfterWrite_StopsOnError(ok) == IF ok THEN oi + 1 ELSE Len(outs) + 1
AfterWrite(ok) == oi + 1

WriteOutput(ok) ==
  /\ pc = "write" /\ oi <= Len(outs)
  /\ offered' = [offered EXCEPT ![outs[oi]] = Append(@, emitted[Len(emitted)])]
  /\ oi' = AfterWrite(ok)
  /\ UNCHANGED <<config, pc, mi, modVars, closed, timers, cancelled,
                 samples, result>>

\* Process returns; sample() goes on with the next module.
EndProcess ==
  /\ pc = "write" /\ oi > Len(outs)
  /\ pc' = "measure" /\ mi' = mi + 1
  /\ UNCHANGED <<config, oi, modVars, outVars, timers, cancelled, samples,
                 result>>

EndSample_DrainsTicker ==
  /\ pc = "measure" /\ mi > Len(mods)
  /\ pc' = "loop" /\ tick' = FALSE
  /\ rounds' = IF rounds < MaxRounds THEN rounds + 1 ELSE rounds
  /\ UNCHANGED <<config, mi, oi, modVars, outVars, ticks, deadlineHit,
                 cancelled, sampledUpTo, emitted, result>>

EndSample ==
  /\ pc = "measure" /\ mi > Len(mods)
  /\ pc' = "loop"
  /\ rounds' = IF rounds < MaxRounds THEN rounds + 1 ELSE rounds
  /\ UNCHANGED <<config, mi, oi, modVars, outVars, timers, cancelled,
                 sampledUpTo, emitted, result>>

-------------------------------------------------------------------------------
(***************************************************************************)
(* The deferred calls: stop the started modules, give the signals back     *)
(* (main.go), close the outputs (main.go).                                 *)
(***************************************************************************)
\* An error of Stop is only logged.
StopModule ==
  /\ pc = "stop" /\ mi <= nStarted
  /\ mstate' = [mstate EXCEPT ![mods[mi]] = "stopped"]
  /\ mi' = mi + 1
  /\ UNCHANGED <<config, pc, oi, nStarted, outVars, timers, cancelled,
                 samples, result>>

RunReturns ==
  /\ pc = "stop" /\ mi > nStarted
  /\ pc' = "return"
  /\ UNCHANGED <<config, mi, oi, modVars, outVars, timers, cancelled,
                 samples, result>>

UnhookSignals ==
  /\ pc = "return"
  /\ pc' = "close" /\ oi' = 1
  /\ UNCHANGED <<config, mi, modVars, outVars, timers, cancelled, samples,
                 result>>

\* Aggregator.Close remembers the first error and goes on; main drops it.
AfterClose_StopsOnError(ok) == IF ok THEN oi + 1 ELSE Len(outs) + 1
AfterClose(ok) == oi + 1

CloseOutput(ok) ==
  /\ pc = "close" /\ oi <= Len(outs)
  /\ closed' = closed \cup {outs[oi]}
  /\ oi' = AfterClose(ok)
  /\ UNCHANGED <<config, pc, mi, modVars, offered, timers, cancelled,
                 samples, result>>

Exit ==
  /\ pc = "close" /\ oi > Len(outs)
  /\ pc' = "exited"
  /\ UNCHANGED <<config, mi, oi, modVars, outVars, timers, cancelled,
                 samples, result>>

Starting == StartModule \/ StartModuleFails \/ EnterLoop
Sampling == \/ MeasureSamples \/ MeasureNothing \/ EndProcess \/ EndSample
            \/ \E ok \in BOOLEAN : WriteOutput(ok)
Ending   == \/ StopModule \/ RunReturns \/ UnhookSignals \/ Exit
            \/ \E ok \in BOOLEAN : CloseOutput(ok)
Selecting == SelectCancelled \/ SelectDeadline \/ SelectTick
Timers   == TickerFires \/ DeadlineFires

Next == Starting \/ Selecting \/ Sampling \/ Ending \/ Timers \/ Interrupt

Spec == Init /\ [][Next]_vars

(***************************************************************************)
(* Fairness. Every call the goroutine makes returns (Start, Measure, Write *)
(* and Stop do bounded I/O; an MQTT write gives up after its timeout), and *)
(* the timers fire. A select with several ready cases picks one uniformly  *)
(* at random, so a case that is ready again and again is chosen: strong    *)
(* fairness. Signals need not come.                                        *)
(***************************************************************************)
Fairness ==
  /\ WF_vars(Starting) /\ WF_vars(Sampling) /\ WF_vars(Ending)
  /\ SF_vars(SelectCancelled) /\ SF_vars(SelectDeadline) /\ SF_vars(SelectTick)
  /\ WF_vars(TickerFires) /\ WF_vars(DeadlineFires)

FairSpec == Spec /\ Fairness

-------------------------------------------------------------------------------
(***************************************************************************)
(* Properties.                                                             *)
(***************************************************************************)
Phases == {"start", "loop", "measure", "write", "stop", "return", "close",
           "exited", "killed"}

\* Every variable has its type; the loop indices stay within one past the end.
TypeOK ==
  /\ cfg \in [SamplingTime : SamplingTimes, Interval : Intervals]
  /\ mods \in Seq(Modules) /\ outs \in Seq(Outputs)
  /\ pc \in Phases
  /\ mi \in 1..(Len(mods) + 1) /\ oi \in 1..(Len(outs) + 1)
  /\ nStarted \in 0..Len(mods)
  /\ mstate \in [Modules -> {"idle", "started", "failed", "stopped"}]
  /\ closed \in SUBSET Outputs
  /\ tick \in BOOLEAN /\ deadlineHit \in BOOLEAN /\ cancelled \in BOOLEAN
  /\ ticks \in 0..MaxTicks /\ sampledUpTo \in 0..MaxTicks
  /\ rounds \in 0..MaxRounds
  /\ emitted \in Seq(Batches)
  /\ offered \in [Outputs -> Seq(Batches)]
  /\ result \in {"running", "startError", "panic", "cancelled", "deadline"}

Wired == {outs[i] : i \in 1..Len(outs)}
Done  == pc \in {"exited", "killed"}

\* Aggregator.Process: whatever the other outputs answered, an output has been
\* offered every batch measured so far, in the order of measurement and none
\* twice; within a Process call the outputs still to be visited lack the last.
FanOut ==
  \A i \in 1..Len(outs) :
    IF pc = "write" /\ i >= oi
      THEN Append(offered[outs[i]], emitted[Len(emitted)]) = emitted
      ELSE offered[outs[i]] = emitted

\* Engine.Run, deferred loop: once all the modules have started, no way out of
\* the run (duration over, signals however many and whenever they come, the
\* panic of NewTicker) leaves one started, and the outputs are only closed
\* after the modules have been stopped.
ModulesReleased ==
  /\ pc \in {"return", "close", "exited", "killed"}
  /\ result # "startError"
  => \A m \in Modules : mstate[m] # "started"

\* Aggregator.Close: a process that was not killed has closed all its outputs,
\* even if some of them failed to close and even if Run returned an error.
AllOutputsClosed == pc = "exited" => closed = Wired

\* Engine.Run, ticker: firings that find the channel full are dropped, yet none
\* is forgotten: each has been followed by a sample() or is about to be.
NoTickForgotten == TimersOn /\ ~tick => sampledUpTo = ticks

\* The engine implements the promise of Pipeline: the fan-out of a batch, spread
\* over one step per output, takes effect when Process returns.
Promise == INSTANCE Pipeline WITH
  wired <- Wired,
  log   <- [o \in Outputs |->
              IF pc = "write" /\ Len(offered[o]) = Len(emitted)
                THEN SubSeq(offered[o], 1, Len(emitted) - 1)
                ELSE offered[o]]

ImplementsPipeline == Promise!Spec

\* Engine.Run, select: a signal ends the run, even when sampling takes so long
\* that the ticker is always ready as well.
InterruptEndsRun == cancelled ~> Done

\* Engine.Run, select: a measurement duration ends the run.
DurationEndsRun == (pc = "loop" /\ cfg.Interval > 0) ~> Done

(***************************************************************************)
(* What comments and documents say of a run, and the code does not do.     *)
(***************************************************************************)
\* core/engine.go:36-38: when Run returns, all started modules are stopped.
StartedModulesStopped ==
  pc = "exited" => \A m \in Modules : mstate[m] # "started"
===============================================================================
