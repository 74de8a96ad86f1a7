------------------------------- MODULE CpuPower -------------------------------
(***************************************************************************)
(* What the "metrics" method of the cpu module prices: Start and Measure   *)
(* (ebpf_method/ebpf.go) keep the counters of CPU time together with the   *)
(* time at which they were read, and the power model (power.go, energy)    *)
(* turns the differences into energy, physical core by physical core.      *)
(*                                                                         *)
(* The energy of a core is linear in its run time, its capacitance, voltage *)
(* and frequency being factors; so the run time that is priced stands for  *)
(* it. A vcore whose voltage or frequency cannot be read at the time of    *)
(* the sample is left out of it.                                           *)
(*                                                                         *)
(* How the counters come about is CpuTime in detail. Here is what matters  *)
(* of it to the power model: a counter does not follow the clock. What a   *)
(* vcore runs is added at the next accounting, in one piece, to the        *)
(* counter of the vcore that raises the event (kernel_bpf.c:45, 66), or    *)
(* not at all if the filter or a full map refuses it. Names that the two   *)
(* modules would share are different here, so that one module can extend   *)
(* both.                                                                   *)
(***************************************************************************)
EXTENDS Integers, FiniteSets, Functions

CONSTANTS
  VCores,   \* logical CPUs
  Cores,    \* physical cores
  CoreOf,   \* pm.realCoreOf: CoreOf[v], or -1 if /proc/cpuinfo does not say
  MaxClock  \* bound: ticks of the clock

ASSUME PowerAssumption ==
  /\ IsFiniteSet(VCores)
  /\ -1 \notin Cores /\ CoreOf \in [VCores -> Cores \cup {-1}]
  /\ MaxClock \in Nat

VARIABLES
  clock,          \* time.Now()
  pending,        \* pending[v]: what v has run and is not accounted yet
  counter,        \* counter[v]: the counter of v in the eBPF map
  foreign,        \* history: what other vcores have run of counter[v]
  stage,          \* where the method is
  now,            \* now of Measure
  read,           \* the vcores whose counters Loader.Read has got
  actualReadMap,  \* their values
  mark,           \* history: the clock, pending and foreign when they were read
  lastReadMap,
  lastMark,       \* history: mark of lastReadMap
  lastReadTime,
  priced,         \* history: priced[k]: run time of core k turned into energy
  begun           \* history: the first value of lastReadTime

machine   == <<clock, pending, counter, foreign>>
reading   == <<now, read, actualReadMap, mark>>
ledger    == <<lastReadMap, lastMark, lastReadTime, priced, begun>>
powerVars == <<machine, stage, reading, ledger>>

NoTime == [v \in VCores |-> 0]
NoMark == [v \in VCores |-> [at |-> 0, pending |-> 0, foreign |-> 0]]

PowerInit ==
  /\ clock = 0 /\ pending = NoTime /\ counter = NoTime /\ foreign = NoTime
  /\ stage = "baseline"
  /\ now = 0 /\ read = {} /\ actualReadMap = NoTime /\ mark = NoMark
  /\ lastReadMap = NoTime /\ lastMark = NoMark /\ lastReadTime = 0
  /\ priced = [k \in Cores |-> 0] /\ begun = 0

-------------------------------------------------------------------------------
\* A unit of time, in which the workload runs on the vcores of busy.
Tick(busy) ==
  /\ clock < MaxClock
  /\ clock' = clock + 1
  /\ pending' = [v \in VCores |-> IF v \in busy THEN pending[v] + 1 ELSE pending[v]]
  /\ UNCHANGED <<counter, foreign, stage, reading, ledger>>

\* The run queue of v is accounted on e, which may be another vcore.
Accounted(v, e) ==
  /\ pending[v] > 0
  /\ pending' = [pending EXCEPT ![v] = 0]
  /\ counter' = [counter EXCEPT ![e] = @ + pending[v]]
  /\ foreign' = IF e = v THEN foreign ELSE [foreign EXCEPT ![e] = @ + pending[v]]
  /\ UNCHANGED <<clock, stage, reading, ledger>>

\* The event is filtered out, or finds no room in the map.
NotCounted(v) ==
  /\ pending[v] > 0
  /\ pending' = [pending EXCEPT ![v] = 0]
  /\ UNCHANGED <<clock, counter, foreign, stage, reading, ledger>>

ReadVCore(v) ==
  /\ stage \in {"baseline", "measuring"} /\ v \notin read
  /\ read' = read \cup {v}
  /\ actualReadMap' = [actualReadMap EXCEPT ![v] = counter[v]]
  /\ mark' = [mark EXCEPT ![v] = [at |-> clock, pending |-> pending[v],
                                  foreign |-> foreign[v]]]
  /\ UNCHANGED <<machine, stage, now, ledger>>

\* The locals of Start and Measure when they return.
Forget == read' = {} /\ actualReadMap' = NoTime /\ mark' = NoMark

\* Start takes the time after the baseline, Measure before its read.
PowerBaseline ==
  /\ stage = "baseline" /\ read = VCores
  /\ stage' = "started"
  /\ lastReadMap' = actualReadMap /\ lastMark' = mark /\ lastReadTime' = clock
  /\ begun' = clock
  /\ now' = clock
  /\ Forget
  /\ UNCHANGED <<machine, priced>>

\* The clock goes on from call to call, so that the fallback for an elapsed time
\* of zero is not taken.
BeginMeasure ==
  /\ stage = "started" /\ clock > now
  /\ stage' = "measuring"
  /\ now' = clock
  /\ UNCHANGED <<machine, read, actualReadMap, mark, ledger>>

PowerReadFails_MovesTime ==
  /\ stage \in {"baseline", "measuring"}
  /\ stage' = IF stage = "baseline" THEN "failed" ELSE "started"
  /\ lastReadTime' = now
  /\ Forget
  /\ UNCHANGED <<machine, now, lastReadMap, lastMark, priced, begun>>

\* Measure returns the error and leaves m as it was.
PowerReadFails ==
  /\ stage \in {"baseline", "measuring"}
  /\ stage' = IF stage = "baseline" THEN "failed" ELSE "started"
  /\ Forget
  /\ UNCHANGED <<machine, now, ledger>>

Elapsed  == now - lastReadTime

\* Counters that decrease are charged from 0.
DeltaPerCPU(v) ==
  IF actualReadMap[v] < lastReadMap[v] THEN actualReadMap[v]
                                       ELSE actualReadMap[v] - lastReadMap[v]

\* The vcores of a core are summed, and a core runs no longer than the interval.
RunTime_Unlimited(k, usable) ==
  SumFunctionOnSet([v \in VCores |-> DeltaPerCPU(v)],
                   {v \in usable : CoreOf[v] = k})

RunTime(k, usable) ==
  LET sum == SumFunctionOnSet([v \in VCores |-> DeltaPerCPU(v)],
                              {v \in usable : CoreOf[v] = k})
  IN  IF sum > Elapsed THEN Elapsed ELSE sum

PowerSample_TimeAfter(usable) ==
  /\ stage = "measuring" /\ read = VCores
  /\ stage' = "started"
  /\ priced' = [k \in Cores |-> priced[k] + RunTime(k, usable)]
  /\ lastReadMap' = actualReadMap /\ lastMark' = mark /\ lastReadTime' = clock
  /\ Forget
  /\ UNCHANGED <<machine, now, begun>>

\* usable: the vcores with a core, a voltage and a frequency at this moment.
PowerSample(usable) ==
  /\ stage = "measuring" /\ read = VCores
  /\ stage' = "started"
  /\ priced' = [k \in Cores |-> priced[k] + RunTime(k, usable)]
  /\ lastReadMap' = actualReadMap /\ lastMark' = mark /\ lastReadTime' = now
  /\ Forget
  /\ UNCHANGED <<machine, now, begun>>

PowerStop ==
  /\ stage = "started"
  /\ stage' = "stopped"
  /\ UNCHANGED <<machine, reading, ledger>>

OnCores == {v \in VCores : CoreOf[v] # -1}

PowerNext ==
  \/ \E busy \in SUBSET VCores : Tick(busy)
  \/ \E v, e \in VCores : Accounted(v, e)
  \/ \E v \in VCores : NotCounted(v) \/ ReadVCore(v)
  \/ PowerBaseline \/ BeginMeasure \/ PowerReadFails \/ PowerStop
  \/ \E usable \in SUBSET OnCores : PowerSample(usable)

PowerSpec == PowerInit /\ [][PowerNext]_powerVars

-------------------------------------------------------------------------------
(***************************************************************************)
(* Properties.                                                             *)
(***************************************************************************)
Marks == [at : Nat, pending : Nat, foreign : Nat]

\* Every variable has its type; no elapsed time is ever negative, and an interval
\* ends where Measure took the time (ebpf.go:76, 107).
PowerTypeOK ==
  /\ clock \in Nat
  /\ pending \in [VCores -> Nat] /\ counter \in [VCores -> Nat]
  /\ foreign \in [VCores -> Nat]
  /\ stage \in {"baseline", "started", "measuring", "failed", "stopped"}
  /\ now \in Nat /\ read \in SUBSET VCores
  /\ actualReadMap \in [VCores -> Nat] /\ mark \in [VCores -> Marks]
  /\ lastReadMap \in [VCores -> Nat] /\ lastMark \in [VCores -> Marks]
  /\ lastReadTime \in 0..now
  /\ priced \in [Cores -> Nat] /\ begun \in Nat

\* power.go:109-112: over the whole run a core is priced for no more time than
\* has passed, although two vcores run on it, counters hold the time of other
\* vcores and of earlier intervals, and a read comes after the time it is taken
\* for.
PricedWithinWall == \A k \in Cores : priced[k] <= lastReadTime - begun

\* What the difference between two readings of v may hold beyond what v has run
\* in the interval they are taken for: what it ran between the end of the interval
\* and the reading, or between the first reading and the time taken after it; what
\* was pending then, less what is pending now; what other vcores have run.
Early(v) == IF lastMark[v].at < begun THEN begun - lastMark[v].at ELSE 0

Beyond(v) == (mark[v].at - now) + Early(v)
               + (lastMark[v].pending - mark[v].pending)
               + (mark[v].foreign - lastMark[v].foreign)

\* ebpf.go:106-107, power.go:109-112: whichever vcores a sample prices, cutting
\* their core at the elapsed time takes nothing from any of them that it has run
\* itself in the interval, however many reads have failed since the last sample:
\* the readings and the time they are taken for move together.
CutIsBounded ==
  stage = "measuring" /\ read = VCores =>
    \A usable \in SUBSET OnCores : \A v \in usable :
      LET cut == DeltaPerCPU(v) - RunTime(CoreOf[v], usable)
      IN  cut > 0 => cut <= Beyond(v)
===============================================================================
