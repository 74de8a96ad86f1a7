------------------------------- MODULE Ecofloc -------------------------------
(***************************************************************************)
(* A run of ecofloc that measures a process with the nic module: Engine    *)
(* composed with the loader of NicCgroup.                                  *)
(*                                                                         *)
(* For the engine Start and Stop of a module are one call each. Those of   *)
(* the nic module (ebpf_method/ebpf.go) take the steps of the loader, one  *)
(* after the other, while signals come and the target forks and exits; the *)
(* engine goes on when the loader is through. The end of the process takes *)
(* the attached programs with it.                                          *)
(***************************************************************************)
EXTENDS Engine

CONSTANTS
  Nic,      \* the nic module
  Procs,    \* the target and the processes its family may fork
  Target

ASSUME EcoflocAssumption ==
  /\ Nic \in Modules
  /\ IsFiniteSet(Procs) /\ Target \in Procs

VARIABLES
  depth, life, cg, late, joined,  \* cgroups and processes, as in NicCgroup
  refused, dropped, unremoved,    \* errors of the clean-up, as in NicCgroup
  lpc, orig, attached, todo       \* the loader of this run

Self == "run"
C == INSTANCE NicCgroup WITH Instances <- {Self}, pc <- lpc

cgroups == <<depth, life, cg, late, refused, dropped, unremoved, joined,
             lpc, orig, attached, todo>>
all     == <<vars, cgroups>>

EcoInit == Init /\ C!Init

-------------------------------------------------------------------------------
NicIsNext == pc \in {"start", "stop"} /\ mi <= Len(mods) /\ mods[mi] = Nic

LoaderAt(labels) == lpc[Self] \in labels

\* NewLoader and the baseline read of ebpfMethod.Start; when that fails, Close.
NicStartStep ==
  /\ pc = "start" /\ NicIsNext
  /\ C!Create(Self) \/ C!Attach(Self) \/ C!Close(Self)
  /\ UNCHANGED vars

\* ebpfMethod.Stop.
NicStopStep ==
  /\ pc = "stop" /\ NicIsNext /\ mi <= nStarted
  /\ C!Close(Self)
  /\ UNCHANGED vars

\* Start returns: with the baseline read, or after nothing is left of a set-up
\* that failed. The target may not have been found at all.
StartDone(labels) == NicIsNext => LoaderAt(labels)

NicStarted_Anyhow == {"running", "closed"}
NicStarted == {"running"}

NicFailed_KeepsLoader == {"off", "closed", "running"}
NicFailed == {"off", "closed"}

NicStopped == {"closed"}

EcoStarting ==
  \/ NicStartStep
  \/ /\ \/ StartModule /\ StartDone(NicStarted)
        \/ StartModuleFails /\ StartDone(NicFailed)
        \/ EnterLoop
     /\ UNCHANGED cgroups

\* The links of a process that ends go with it.
ProcessEnds == IF C!Active(Self) THEN C!Crash(Self) ELSE UNCHANGED cgroups

EcoEnding ==
  \/ NicStopStep
  \/ /\ \/ StopModule /\ StartDone(NicStopped)
        \/ RunReturns \/ UnhookSignals
        \/ \E ok \in BOOLEAN : CloseOutput(ok)
     /\ UNCHANGED cgroups
  \/ Exit /\ ProcessEnds

EcoInterrupt ==
  /\ Interrupt
  /\ IF pc' = "killed" THEN ProcessEnds ELSE UNCHANGED cgroups

Family == /\ \/ \E p, q \in Procs : C!Fork(p, q)
             \/ \E p \in Procs : C!ProcessExits(p)
          /\ UNCHANGED vars

Unaided(A) == A /\ UNCHANGED cgroups

EcoNext ==
  \/ EcoStarting \/ EcoEnding \/ EcoInterrupt \/ Family
  \/ Unaided(Selecting) \/ Unaided(Sampling) \/ Unaided(Timers)

EcoSpec == EcoInit /\ [][EcoNext]_all

\* As Engine!Fairness: the steps of the loader are bounded input and output.
EcoFairness ==
  /\ WF_all(EcoStarting) /\ WF_all(Unaided(Sampling)) /\ WF_all(EcoEnding)
  /\ SF_all(Unaided(SelectCancelled)) /\ SF_all(Unaided(SelectDeadline))
  /\ SF_all(Unaided(SelectTick))
  /\ WF_all(Unaided(TickerFires)) /\ WF_all(Unaided(DeadlineFires))

FairEcoSpec == EcoSpec /\ EcoFairness

-------------------------------------------------------------------------------
(***************************************************************************)
(* Properties; InterruptEndsRun and DurationEndsRun of Engine, too.        *)
(***************************************************************************)
\* engine.go:37-44, loader.go:188-212: when the process has ended, however the
\* set-up, the other modules and the outputs fared, the target is where it was
\* found; except that Run does not stop a module that was started before
\* another one failed to start, and that Close drops the errors of its clean-up.
TargetGivenBack ==
  Done /\ C!Live(Target) /\ cg[Target] # 0 =>
    \/ result = "startError" /\ mstate[Nic] = "started"
    \/ Target \in refused

\* engine.go:28-34, loader.go:83-100: the engine never samples a nic module whose
\* programs are not both attached to the cgroup the target is in.
MeasuredWhileAttached ==
  pc \in {"loop", "measure", "write"} /\ (\E i \in DOMAIN mods : mods[i] = Nic) =>
    /\ attached[Self] = {"egress", "ingress"}
    /\ C!Live(Target) => cg[Target] = orig[Self] + 1
===============================================================================
