------------------------------- MODULE CpuTime -------------------------------
(***************************************************************************)
(* How the "metrics" method of the cpu module measures CPU time: the eBPF  *)
(* program on the sched_stat_runtime tracepoint (kernel_bpf.c) adds the    *)
(* runtime of each scheduler accounting to a counter, and the method       *)
(* (Loader.Read in loader.go; Start, Measure, Stop in ebpf.go) charges the *)
(* differences between reads. What the power model makes of the CPU time   *)
(* handed to it is not modelled here.                                      *)
(*                                                                         *)
(* A task runs on each CPU; the time it has run since its last accounting  *)
(* is due. The scheduler accounts it on a tick or a switch, on the CPU     *)
(* itself, or remotely: a wake-up, a migration or a reader of the task's   *)
(* times accounts it from another CPU, whose current task is not the one   *)
(* accounted. It does so under the lock of the run queue of that CPU and   *)
(* with preemption off: one program at a time per CPU and per run queue.   *)
(*                                                                         *)
(* All the entries of cpu_time_ns have the tgid target_tgid, so a key is a *)
(* CPU. An absent entry is written as zero: that is what the map lookup of *)
(* Measure gives.                                                          *)
(***************************************************************************)
EXTENDS Integers, FiniteSets, Functions

CONSTANTS
  CPUs,        \* logical CPUs
  Setups,      \* of a run and its machine: see Setting
  MaxDue,      \* bound: units of time due on a CPU before the method starts
  MaxTime      \* bound: units of time that tasks run

\* targeted: target_tgid # 0; remote: whether run queues are accounted from other
\* CPUs, too; maxEntries: of cpu_time_ns (1024 in the code).
Setting == [targeted : BOOLEAN, remote : BOOLEAN, maxEntries : Nat]

ASSUME CpuAssumption ==
  /\ IsFiniteSet(CPUs) /\ CPUs # {}
  /\ \A s \in Setups : s \in Setting
  /\ MaxDue \in Nat /\ MaxTime \in Nat

VARIABLES
  setup,     \* the one of Setups this behaviour is about
  runs,      \* runs[c]: the task on CPU c: of the target, of another, or idle
  due,       \* due[c]: its runtime not accounted yet
  used,      \* history: used[c]: runtime on c of what is monitored
  mistaken,  \* history: runtime of others, let through for the target's
  missed,    \* history: runtime of the target, filtered out for another's
  time,      \* units of time run since the method was made
  keys,      \* the CPUs that have an entry in cpu_time_ns
  ns,        \* their values
  prog,      \* prog[c]: the handler on CPU c, for run queue prog[c].rq
  skipped,   \* history: runtime that found no entry and no room for one
  counted,   \* history: runtime of the handlers that got past the filter
  mpc,       \* where the method is
  must,      \* keys the iteration in progress is bound to reach
  visited,   \* keys it has reached
  out,       \* the map Loader.Read is building
  lastRead,  \* m.lastReadMap
  base,      \* history: the baseline read of Start
  charged    \* history: the sum of deltaPerCPU over all samples

wrong  == <<mistaken, missed>>
sched  == <<setup, runs, due, used, time, wrong>>
kernel == <<keys, ns, prog, skipped, counted>>
reader == <<mpc, must, visited, out, lastRead, base, charged>>
vars   == <<sched, kernel, reader>>

Zero == [c \in CPUs |-> 0]
Quiet(c) == [at |-> "idle", rq |-> c, runtime |-> 0]

Monitored(c)  == runs[c] = "target" \/ (~setup.targeted /\ runs[c] = "other")
OfInterest(c) == IF Monitored(c) THEN due[c] ELSE 0

\* What is due when the tracepoint is attached will be accounted after it.
Init ==
  /\ setup \in Setups
  /\ runs \in [CPUs -> {"target", "other", "idle"}]
  /\ due \in [CPUs -> 0..MaxDue]
  /\ \A c \in CPUs : runs[c] = "idle" => due[c] = 0
  /\ used = [c \in CPUs |-> OfInterest(c)] /\ time = 0
  /\ mistaken = 0 /\ missed = 0
  /\ keys = {} /\ ns = Zero
  /\ prog = [c \in CPUs |-> Quiet(c)]
  /\ skipped = Zero /\ counted = Zero
  /\ mpc = "created"
  /\ must = {} /\ visited = {}
  /\ out = Zero /\ lastRead = Zero /\ base = Zero /\ charged = Zero

Add(f, c, n) == [f EXCEPT ![c] = @ + n]

-------------------------------------------------------------------------------
(***************************************************************************)
(* The scheduler, from the moment the tracepoint is attached.              *)
(***************************************************************************)
Attached == mpc \in {"attached", "baseline", "started", "measuring"}

Unlocked(c) == \A e \in CPUs : prog[e].at # "idle" => prog[e].rq # c

Run(c) ==
  /\ Attached /\ runs[c] # "idle" /\ prog[c].at = "idle"
  /\ time < MaxTime /\ time' = time + 1
  /\ due' = Add(due, c, 1)
  /\ used' = IF Monitored(c) THEN Add(used, c, 1) ELSE used
  /\ UNCHANGED <<setup, runs, wrong, kernel, reader>>

\* A context switch accounts the task that leaves first.
Switch(c, task) ==
  /\ Attached /\ due[c] = 0 /\ prog[c].at = "idle" /\ Unlocked(c)
  /\ runs' = [runs EXCEPT ![c] = task]
  /\ UNCHANGED <<setup, due, used, time, wrong, kernel, reader>>

-------------------------------------------------------------------------------
(***************************************************************************)
(* handle_sched_stat_runtime, one step per access to the map.              *)
(***************************************************************************)
Key_Tgid(e) == CHOOSE c \in CPUs : TRUE
Key(e) == e

\* The filter looks at the current task of the CPU the event is raised on. The
\* idle task has no runtime to account (ctx->pid # 0).
Filter_None(e) == TRUE
Filter_SkipsIdle(e) == runs[e] # "idle" /\ (setup.targeted => runs[e] = "target")
Filter(e) == setup.targeted => runs[e] = "target"

\* What the task that is accounted and the task that the filter looks at are.
TargetForOther(e, c) == setup.targeted /\ runs[e] = "target" /\ runs[c] # "target"
OtherForTarget(e, c) == setup.targeted /\ runs[e] # "target" /\ runs[c] = "target"

\* The event for run queue c on CPU e; the filter; the first lookup.
Event(e, c) ==
  /\ Attached
  /\ e = c \/ setup.remote
  /\ prog[e].at = "idle" /\ Unlocked(c)
  /\ runs[c] # "idle" /\ due[c] > 0
  /\ due' = [due EXCEPT ![c] = 0]
  /\ prog' = IF Filter(e)
               THEN [prog EXCEPT ![e] =
                       [at |-> IF Key(e) \in keys THEN "add" ELSE "insert",
                        rq |-> c, runtime |-> due[c]]]
               ELSE prog
  /\ mistaken' = IF TargetForOther(e, c) THEN mistaken + due[c] ELSE mistaken
  /\ missed' = IF OtherForTarget(e, c) THEN missed + due[c] ELSE missed
  /\ UNCHANGED <<setup, runs, used, time, keys, ns, skipped, counted, reader>>

\* bpf_map_update_elem(.., BPF_ANY): replaces an entry that is there.
Insert(e) ==
  /\ prog[e].at = "insert"
  /\ IF Key(e) \in keys \/ Cardinality(keys) < setup.maxEntries
       THEN keys' = keys \cup {Key(e)} /\ ns' = [ns EXCEPT ![Key(e)] = 0]
       ELSE UNCHANGED <<keys, ns>>
  /\ prog' = [prog EXCEPT ![e].at = "relookup"]
  /\ UNCHANGED <<sched, skipped, counted, reader>>

Return(e) ==
  /\ prog' = [prog EXCEPT ![e] = Quiet(e)]
  /\ counted' = Add(counted, Key(e), prog[e].runtime)

Relookup(e) ==
  /\ prog[e].at = "relookup"
  /\ IF Key(e) \in keys
       THEN /\ prog' = [prog EXCEPT ![e].at = "add"]
            /\ UNCHANGED <<skipped, counted>>
       ELSE /\ Return(e)
            /\ skipped' = Add(skipped, Key(e), prog[e].runtime)
  /\ UNCHANGED <<sched, keys, ns, reader>>

FetchAndAdd(e) ==
  /\ prog[e].at = "add"
  /\ ns' = Add(ns, Key(e), prog[e].runtime)
  /\ Return(e)
  /\ UNCHANGED <<sched, keys, skipped, reader>>

-------------------------------------------------------------------------------
(***************************************************************************)
(* Start, Measure and Stop, with Loader.Read as an iteration over the map  *)
(* while the handlers run: it reaches every key present when it began and  *)
(* may reach newer ones.                                                   *)
(***************************************************************************)
\* newPowerModel and NewLoader: either may fail.
NewLoader(ok) ==
  /\ mpc = "created"
  /\ mpc' = IF ok THEN "attached" ELSE "failed"
  /\ UNCHANGED <<sched, kernel, must, visited, out, lastRead, base, charged>>

BeginRead ==
  /\ \/ mpc = "attached" /\ mpc' = "baseline"
     \/ mpc = "started" /\ mpc' = "measuring"
  /\ must' = keys /\ visited' = {} /\ out' = Zero
  /\ UNCHANGED <<sched, kernel, lastRead, base, charged>>

ReadKey(c) ==
  /\ mpc \in {"baseline", "measuring"}
  /\ c \in keys \ visited
  /\ visited' = visited \cup {c}
  /\ out' = [out EXCEPT ![c] = ns[c]]
  /\ UNCHANGED <<sched, kernel, mpc, must, lastRead, base, charged>>

BaselineRead ==
  /\ mpc = "baseline" /\ must \subseteq visited
  /\ mpc' = "started"
  /\ lastRead' = out /\ base' = out
  /\ UNCHANGED <<sched, kernel, must, visited, out, charged>>

\* An error of the iteration. At the baseline it closes the loader; later
\* Measure returns it and leaves m as it was.
ReadFails_KeepsPartial ==
  /\ mpc \in {"baseline", "measuring"}
  /\ mpc' = IF mpc = "baseline" THEN "failed" ELSE "started"
  /\ lastRead' = out
  /\ UNCHANGED <<sched, kernel, must, visited, out, base, charged>>

ReadFails ==
  /\ mpc \in {"baseline", "measuring"}
  /\ mpc' = IF mpc = "baseline" THEN "failed" ELSE "started"
  /\ UNCHANGED <<sched, kernel, must, visited, out, lastRead, base, charged>>

\* Counters that decrease are charged from 0.
Delta(c) == IF out[c] < lastRead[c] THEN out[c] ELSE out[c] - lastRead[c]

Sample ==
  /\ mpc = "measuring" /\ must \subseteq visited
  /\ mpc' = "started"
  /\ charged' = [c \in CPUs |-> charged[c] + Delta(c)]
  /\ lastRead' = out
  /\ UNCHANGED <<sched, kernel, must, visited, out, base>>

Stop ==
  /\ mpc = "started"
  /\ mpc' = "stopped"
  /\ UNCHANGED <<sched, kernel, must, visited, out, lastRead, base, charged>>

Schedule ==
  \E c \in CPUs :
    \/ Run(c)
    \/ \E task \in {"target", "other", "idle"} : Switch(c, task)

Handle ==
  \E e \in CPUs :
    \/ \E c \in CPUs : Event(e, c)
    \/ Insert(e) \/ Relookup(e) \/ FetchAndAdd(e)

Method ==
  \/ \E ok \in BOOLEAN : NewLoader(ok)
  \/ BeginRead \/ BaselineRead \/ ReadFails \/ Sample \/ Stop
  \/ \E c \in CPUs : ReadKey(c)

Next == Schedule \/ Handle \/ Method

Spec == Init /\ [][Next]_vars

-------------------------------------------------------------------------------
(***************************************************************************)
(* Properties.                                                             *)
(***************************************************************************)
Times == [CPUs -> Nat]
Programs == [at : {"idle", "insert", "relookup", "add"},
             rq : CPUs, runtime : Nat]

\* Every variable has its type; in particular no charge is ever negative.
TypeOK ==
  /\ setup \in Setups
  /\ runs \in [CPUs -> {"target", "other", "idle"}]
  /\ due \in Times /\ used \in Times /\ time \in 0..MaxTime
  /\ mistaken \in Nat /\ missed \in Nat
  /\ keys \in SUBSET CPUs /\ ns \in Times
  /\ prog \in [CPUs -> Programs]
  /\ skipped \in Times /\ counted \in Times
  /\ mpc \in {"created", "attached", "baseline", "started", "measuring",
              "failed", "stopped"}
  /\ must \in SUBSET CPUs /\ visited \in SUBSET CPUs
  /\ out \in Times /\ lastRead \in Times /\ base \in Times /\ charged \in Times

\* kernel_bpf.c: an insert with BPF_ANY would replace the entry of another
\* handler; since the key names the CPU it never does, and each counter holds
\* the runtime of every event counted for it.
KernelExact == \A c \in CPUs : ns[c] + skipped[c] = counted[c]

\* kernel_bpf.c: of the time the monitored tasks have run, all is in the counters,
\* due, in a handler under way, or refused by a full map; but for what the filter
\* mistakes, in either direction, by looking at the current task instead of the one
\* accounted (kernel_bpf.c:49). It mistakes nothing if all tasks are monitored or
\* run queues are accounted on their own CPU.
InFlight == [c \in CPUs |-> prog[c].runtime]
RightTaskIsCurrent == ~setup.targeted \/ ~setup.remote

TimeConserved ==
  /\ SumFunction(used) + mistaken =
       SumFunction(ns) + SumFunction(skipped) + SumFunction(InFlight) +
       SumFunction([c \in CPUs |-> OfInterest(c)]) + missed
  /\ RightTaskIsCurrent => mistaken = 0 /\ missed = 0

\* The method is a meter of the time in the counters since its baseline.
BaselineKnown == mpc \in {"started", "measuring", "stopped"}

Promise == INSTANCE Meter WITH
  Channels <- CPUs,
  consumed <- [c \in CPUs |-> IF BaselineKnown THEN ns[c] - base[c] ELSE 0]

ImplementsMeter == Promise!Spec

\* loader.go:55-58, of a targeted run: "it is the time consumed by the target
\* TGID". Never more where run queues are accounted on their own CPU; elsewhere
\* never more but for what other tasks had run when they were accounted from a CPU
\* where a thread of the target was current.
OnlyTargetTime ==
  SumFunction(charged) <=
    SumFunction(used) + IF RightTaskIsCurrent THEN 0 ELSE mistaken
===============================================================================
