------------------------------- MODULE NicCgroup -------------------------------
(***************************************************************************)
(* How the nic module borrows its target (modules/nic/bpf/loader.go): to    *)
(* count the traffic of one process, NewLoader makes a child of the cgroup  *)
(* the process is in, moves the process there and attaches the two eBPF     *)
(* programs; Close detaches them, moves back whatever the child holds and   *)
(* removes it, dropping every error of these last steps. Processes fork and *)
(* exit meanwhile, ecofloc may be killed at any point, and ecofloc may be   *)
(* run on the same target more than once.                                   *)
(*                                                                         *)
(* The child is named after the pid, below the cgroup the pid is found in:  *)
(* the cgroups of interest form a chain and a cgroup is its depth in it, 0  *)
(* being the one the target began in. Monitoring the whole system attaches  *)
(* to the root and moves nothing.                                           *)
(***************************************************************************)
EXTENDS Integers, FiniteSets

CONSTANTS
  Instances,  \* runs of ecofloc with the nic module on the target
  Procs,      \* the target and the processes its family may fork
  Target

ASSUME CgroupAssumption ==
  /\ IsFiniteSet(Instances) /\ IsFiniteSet(Procs)
  /\ Target \in Procs

VARIABLES
  depth,     \* the cgroups 0..depth exist
  life,      \* life[p]: "unborn", "live" or "dead"
  cg,        \* cg[p]: the cgroup of a live process
  late,      \* history: forked (or descending from one forked) in a clean-up
  joined,    \* history: instances that began while another was active
  refused,   \* history: processes an error of the clean-up left in a child, and
             \* those they have forked since
  dropped,   \* history: instances that dropped an error and left the target
  unremoved, \* history: instances that dropped an error and left their child
  pc,        \* pc[i]: where instance i is
  orig,      \* l.origCgroup
  attached,  \* the programs of l.objs that see packets
  todo       \* what is left of the pids read from the child

errors == <<refused, dropped, unremoved>>
system == <<depth, life, cg, late, errors>>
vars   == <<system, joined, pc, orig, attached, todo>>

Child(i) == orig[i] + 1

Live(p)     == life[p] = "live"
Members(k)  == {p \in Procs : Live(p) /\ cg[p] = k}
Exists(k)   == k <= depth

Init ==
  /\ depth = 0
  /\ life = [p \in Procs |-> IF p = Target THEN "live" ELSE "unborn"]
  /\ cg = [p \in Procs |-> 0]
  /\ late = {} /\ joined = {}
  /\ refused = {} /\ dropped = {} /\ unremoved = {}
  /\ pc = [i \in Instances |-> "off"]
  /\ orig = [i \in Instances |-> 0]
  /\ attached = [i \in Instances |-> {}]
  /\ todo = [i \in Instances |-> {}]

Goto(i, label) == pc' = [pc EXCEPT ![i] = label]

Ended(i)  == pc[i] \in {"closed", "crashed"}
Active(i) == pc[i] # "off" /\ ~Ended(i)

-------------------------------------------------------------------------------
(***************************************************************************)
(* createCgroupChild. An instance that fails to start ends.                *)
(***************************************************************************)
\* getProcessCgroupPath.
FindCgroup(i) ==
  /\ pc[i] = "off"
  /\ Live(Target)
  /\ joined' = IF \E j \in Instances : Active(j) THEN joined \cup {i} ELSE joined
  /\ orig' = [orig EXCEPT ![i] = cg[Target]]
  /\ Goto(i, "mkdir")
  /\ UNCHANGED <<system, attached, todo>>

\* os.MkdirAll makes missing parents too, and is content with what exists.
MakeChild(i) ==
  /\ pc[i] = "mkdir"
  /\ depth' = IF Exists(Child(i)) THEN depth ELSE Child(i)
  /\ Goto(i, "move")
  /\ UNCHANGED <<life, cg, late, errors, joined, orig, attached, todo>>

MakeChildFails(i) ==
  /\ pc[i] = "mkdir"
  /\ Goto(i, "closed")
  /\ UNCHANGED <<system, joined, orig, attached, todo>>

MoveTarget(i) ==
  /\ pc[i] = "move"
  /\ Live(Target) /\ Exists(Child(i))
  /\ cg' = [cg EXCEPT ![Target] = Child(i)]
  /\ Goto(i, "egress")
  /\ UNCHANGED <<depth, life, late, errors, joined, orig, attached, todo>>

\* The target is gone, or the kernel refuses: the child is removed.
MoveTargetFails(i) ==
  /\ pc[i] = "move"
  /\ Goto(i, "remove")
  /\ UNCHANGED <<system, joined, orig, attached, todo>>

-------------------------------------------------------------------------------
(***************************************************************************)
(* attachCgroup; NewLoader cleans up when it fails.                        *)
(***************************************************************************)
AttachEgress(i) ==
  /\ pc[i] = "egress" /\ Exists(Child(i))
  /\ attached' = [attached EXCEPT ![i] = {"egress"}]
  /\ Goto(i, "ingress")
  /\ UNCHANGED <<system, joined, orig, todo>>

AttachEgressFails(i) ==
  /\ pc[i] = "egress"
  /\ Goto(i, "read")
  /\ UNCHANGED <<system, joined, orig, attached, todo>>

AttachIngress(i) ==
  /\ pc[i] = "ingress" /\ Exists(Child(i))
  /\ attached' = [attached EXCEPT ![i] = @ \cup {"ingress"}]
  /\ Goto(i, "running")
  /\ UNCHANGED <<system, joined, orig, todo>>

AttachIngressFails_NoCleanup(i) ==
  /\ pc[i] = "ingress"
  /\ attached' = [attached EXCEPT ![i] = {}]
  /\ Goto(i, "closed")
  /\ UNCHANGED <<system, joined, orig, todo>>

AttachIngressFails_Ignored(i) ==
  /\ pc[i] = "ingress"
  /\ Goto(i, "running")
  /\ UNCHANGED <<system, joined, orig, attached, todo>>

AttachIngressFails(i) ==
  /\ pc[i] = "ingress"
  /\ attached' = [attached EXCEPT ![i] = {}]
  /\ Goto(i, "read")
  /\ UNCHANGED <<system, joined, orig, todo>>

-------------------------------------------------------------------------------
(***************************************************************************)
(* Loader.Close and cleanupChildCgroup.                                    *)
(***************************************************************************)
\* Close, from Stop or because the baseline read failed.
Detach(i) ==
  /\ pc[i] = "running"
  /\ attached' = [attached EXCEPT ![i] = {}]
  /\ Goto(i, "read")
  /\ UNCHANGED <<system, joined, orig, todo>>

\* os.ReadFile of the child's cgroup.procs; of a child that is gone, no pids.
ListChild_TargetOnly(i) ==
  /\ pc[i] = "read"
  /\ todo' = [todo EXCEPT ![i] = Members(Child(i)) \cap {Target}]
  /\ Goto(i, "moveback")
  /\ UNCHANGED <<system, joined, orig, attached>>

ListChild(i) ==
  /\ pc[i] = "read"
  /\ todo' = [todo EXCEPT ![i] = Members(Child(i))]
  /\ Goto(i, "moveback")
  /\ UNCHANGED <<system, joined, orig, attached>>

\* Any other error of the read: nobody is moved, the removal is tried.
ListChildFails(i) ==
  /\ pc[i] = "read" /\ Exists(Child(i))
  /\ refused' = refused \cup Members(Child(i))
  /\ dropped' = IF Target \in Members(Child(i)) THEN dropped \cup {i} ELSE dropped
  /\ Goto(i, "remove")
  /\ UNCHANGED <<depth, life, cg, late, unremoved, joined, orig, attached, todo>>

Home(i) == orig[i]

\* One write to cgroup.procs. A process or a cgroup that is gone is an error,
\* which is dropped.
MoveBack(i, p) ==
  /\ pc[i] = "moveback" /\ p \in todo[i]
  /\ cg' = IF Live(p) /\ Exists(Home(i)) THEN [cg EXCEPT ![p] = Home(i)] ELSE cg
  /\ todo' = [todo EXCEPT ![i] = @ \ {p}]
  /\ UNCHANGED <<depth, life, late, errors, joined, pc, orig, attached>>

\* Any other error of the write is dropped as well: the process stays.
MoveBackFails(i, p) ==
  /\ pc[i] = "moveback" /\ p \in todo[i]
  /\ Live(p) /\ Exists(Home(i))
  /\ refused' = refused \cup {p}
  /\ dropped' = IF p = Target THEN dropped \cup {i} ELSE dropped
  /\ todo' = [todo EXCEPT ![i] = @ \ {p}]
  /\ UNCHANGED <<depth, life, cg, late, unremoved, joined, pc, orig, attached>>

AllMovedBack(i) ==
  /\ pc[i] = "moveback" /\ todo[i] = {}
  /\ Goto(i, "remove")
  /\ UNCHANGED <<system, joined, orig, attached, todo>>

\* os.Remove, error ignored: the kernel removes a cgroup only if it has neither
\* processes nor children, and detaches the programs of anybody from it.
RemoveChild(i) ==
  /\ pc[i] = "remove"
  /\ IF Child(i) = depth /\ Members(depth) = {}
       THEN /\ depth' = depth - 1
            /\ attached' = [j \in Instances |->
                              IF Child(j) = depth THEN {} ELSE attached[j]]
       ELSE UNCHANGED <<depth, attached>>
  /\ Goto(i, "closed")
  /\ UNCHANGED <<life, cg, late, errors, joined, orig, todo>>

\* Any other error of os.Remove.
RemoveChildFails(i) ==
  /\ pc[i] = "remove"
  /\ Child(i) = depth /\ Members(depth) = {}
  /\ unremoved' = unremoved \cup {i}
  /\ Goto(i, "closed")
  /\ UNCHANGED <<depth, life, cg, late, refused, dropped, joined, orig, attached, todo>>

-------------------------------------------------------------------------------
(***************************************************************************)
(* The rest of the machine.                                                *)
(***************************************************************************)
\* ecofloc is killed, or its run ends without Stop (Engine!StartModuleFails):
\* the links of a dead process are gone, cgroups and processes stay.
Crash(i) ==
  /\ Active(i)
  /\ Goto(i, "crashed")
  /\ attached' = [attached EXCEPT ![i] = {}]
  /\ UNCHANGED <<system, joined, orig, todo>>

CleaningUp == \E i \in Instances : pc[i] \in {"moveback", "remove"}

\* A new process begins in the cgroup of its parent.
Fork(p, q) ==
  /\ Live(p) /\ life[q] = "unborn"
  /\ life' = [life EXCEPT ![q] = "live"]
  /\ cg' = [cg EXCEPT ![q] = cg[p]]
  /\ late' = IF CleaningUp \/ p \in late THEN late \cup {q} ELSE late
  /\ refused' = IF p \in refused THEN refused \cup {q} ELSE refused
  /\ UNCHANGED <<depth, dropped, unremoved, joined, pc, orig, attached, todo>>

ProcessExits(p) ==
  /\ Live(p)
  /\ life' = [life EXCEPT ![p] = "dead"]
  /\ UNCHANGED <<depth, cg, late, errors, joined, pc, orig, attached, todo>>

Create(i) == \/ FindCgroup(i) \/ MakeChild(i) \/ MakeChildFails(i)
             \/ MoveTarget(i) \/ MoveTargetFails(i)
Attach(i) == \/ AttachEgress(i) \/ AttachEgressFails(i)
             \/ AttachIngress(i) \/ AttachIngressFails(i)
Close(i)  == \/ Detach(i) \/ ListChild(i) \/ ListChildFails(i) \/ AllMovedBack(i)
             \/ RemoveChild(i) \/ RemoveChildFails(i)
             \/ \E p \in Procs : MoveBack(i, p) \/ MoveBackFails(i, p)

Next ==
  \/ \E i \in Instances : Create(i) \/ Attach(i) \/ Close(i) \/ Crash(i)
  \/ \E p, q \in Procs : Fork(p, q)
  \/ \E p \in Procs : ProcessExits(p)

Spec == Init /\ [][Next]_vars

-------------------------------------------------------------------------------
(***************************************************************************)
(* Properties.                                                             *)
(***************************************************************************)
Labels == {"off", "mkdir", "move", "egress", "ingress", "running", "read",
           "moveback", "remove", "closed", "crashed"}

\* Every variable has its type, and live processes are in cgroups that exist.
TypeOK ==
  /\ joined \in SUBSET Instances
  /\ refused \in SUBSET Procs
  /\ dropped \in SUBSET Instances /\ unremoved \in SUBSET Instances
  /\ depth \in Nat
  /\ life \in [Procs -> {"unborn", "live", "dead"}]
  /\ cg \in [Procs -> Nat]
  /\ \A p \in Procs : Live(p) => Exists(cg[p])
  /\ late \in SUBSET Procs
  /\ pc \in [Instances -> Labels]
  /\ orig \in [Instances -> Nat]
  /\ attached \in [Instances -> SUBSET {"egress", "ingress"}]
  /\ todo \in [Instances -> SUBSET Procs]

Crashed == {i \in Instances : pc[i] = "crashed"}
Quiet   == \A i \in Instances : ~Active(i)

\* Close and the failure paths of NewLoader: the target is put back where it was
\* found, whichever step of the set-up failed. It is displaced by a level for
\* each run that was killed, or whose clean-up met an error in listing the child
\* or moving the target, and one for each that found it borrowed already.
TargetReturned ==
  Quiet /\ Live(Target) =>
    cg[Target] <= Cardinality(Crashed \cup dropped) + Cardinality(joined)

\* cleanupChildCgroup: a process that a run leaves behind, or an ancestor of it,
\* was forked while a run was cleaning up or met an error of the clean-up; a
\* cgroup is left behind with such a process or by an error of its removal;
\* unless a run was killed or joined another.
OnlyLateForksLeak ==
  Quiet /\ Crashed = {} /\ joined = {} =>
    /\ \A p \in Procs : Live(p) /\ cg[p] > 0 => p \in late \cup refused
    /\ depth > 0 => late \cup refused # {} \/ unremoved # {}

\* NewLoader: a run that measures has both programs on a cgroup that holds the
\* target, however the target and other runs before it have come and gone.
TargetMeasured ==
  joined = {} =>
    \A i \in Instances :
      pc[i] = "running" =>
        /\ attached[i] = {"egress", "ingress"}
        /\ Live(Target) => cg[Target] >= Child(i)

\* attachCgroup and Close: no step of the clean-up moves a process while a
\* program of the same run would still count it.
DetachedFirst ==
  \A i \in Instances : pc[i] \in {"read", "moveback", "remove"} => attached[i] = {}
===============================================================================
