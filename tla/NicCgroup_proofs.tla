--------------------------- MODULE NicCgroup_proofs ---------------------------
(***************************************************************************)
(* Proofs about NicCgroup, for any finite sets of runs and processes.      *)
(***************************************************************************)
EXTENDS NicCgroup, FiniteSetTheorems, TLAPS

-------------------------------------------------------------------------------
(***************************************************************************)
(* Types.                                                                  *)
(***************************************************************************)
LEMMA TypeStep == TypeOK /\ [Next]_vars => TypeOK'
<1> SUFFICES ASSUME TypeOK, [Next]_vars PROVE TypeOK'
  OBVIOUS
<1> USE CgroupAssumption DEF TypeOK, Labels, Live, Exists, Child, Goto, system, errors
<1>1. ASSUME NEW i \in Instances, Create(i) PROVE TypeOK'
  <2>1. CASE FindCgroup(i)
    BY <2>1 DEF FindCgroup
  <2>2. CASE MakeChild(i)
    BY <2>2 DEF MakeChild
  <2>3. CASE MakeChildFails(i)
    BY <2>3 DEF MakeChildFails
  <2>4. CASE MoveTarget(i)
    BY <2>4 DEF MoveTarget
  <2>5. CASE MoveTargetFails(i)
    BY <2>5 DEF MoveTargetFails
  <2> QED BY <1>1, <2>1, <2>2, <2>3, <2>4, <2>5 DEF Create
<1>2. ASSUME NEW i \in Instances, Attach(i) PROVE TypeOK'
  <2>1. CASE AttachEgress(i)
    BY <2>1 DEF AttachEgress
  <2>2. CASE AttachEgressFails(i)
    BY <2>2 DEF AttachEgressFails
  <2>3. CASE AttachIngress(i)
    BY <2>3 DEF AttachIngress
  <2>4. CASE AttachIngressFails(i)
    BY <2>4 DEF AttachIngressFails
  <2> QED BY <1>2, <2>1, <2>2, <2>3, <2>4 DEF Attach
<1>3. ASSUME NEW i \in Instances, Close(i) PROVE TypeOK'
  <2>1. CASE Detach(i)
    BY <2>1 DEF Detach
  <2>2. CASE ListChild(i)
    BY <2>2 DEF ListChild, Members
  <2>3. ASSUME NEW p \in Procs, MoveBack(i, p) PROVE TypeOK'
    BY <2>3 DEF MoveBack, Home
  <2>4. CASE AllMovedBack(i)
    BY <2>4 DEF AllMovedBack
  <2>6. CASE ListChildFails(i)
    BY <2>6 DEF ListChildFails, Members
  <2>7. ASSUME NEW p \in Procs, MoveBackFails(i, p) PROVE TypeOK'
    BY <2>7 DEF MoveBackFails
  <2>8. CASE RemoveChildFails(i)
    BY <2>8 DEF RemoveChildFails
  <2>5. CASE RemoveChild(i)
    <3>1. /\ depth' \in Nat
          /\ \A p \in Procs : Live(p) => cg[p] <= depth'
      BY <2>5 DEF RemoveChild, Members
    <3>2. attached' \in [Instances -> SUBSET {"egress", "ingress"}]
      BY <2>5 DEF RemoveChild
    <3> QED BY <2>5, <3>1, <3>2 DEF RemoveChild
  <2> QED BY <1>3, <2>1, <2>2, <2>3, <2>4, <2>5, <2>6, <2>7, <2>8 DEF Close
<1>4. ASSUME NEW i \in Instances, Crash(i) PROVE TypeOK'
  BY <1>4 DEF Crash
<1>5. ASSUME NEW p \in Procs, NEW q \in Procs, Fork(p, q) PROVE TypeOK'
  BY <1>5 DEF Fork
<1>6. ASSUME NEW p \in Procs, ProcessExits(p) PROVE TypeOK'
  BY <1>6 DEF ProcessExits
<1>7. CASE UNCHANGED vars
  BY <1>7 DEF vars
<1> QED BY <1>1, <1>2, <1>3, <1>4, <1>5, <1>6, <1>7 DEF Next

\* Every variable of the cgroups and of the runs keeps its type: a live process
\* is always in a cgroup that exists, whoever moves it and removes cgroups.
THEOREM TypeCorrect == Spec => []TypeOK
<1>1. Init => TypeOK
  BY CgroupAssumption DEF Init, TypeOK, Labels, Live, Exists
<1> QED BY <1>1, TypeStep, PTL DEF Spec

-------------------------------------------------------------------------------
(***************************************************************************)
(* The programs, and the target while it is measured.                      *)
(***************************************************************************)
\* Of runs that follow each other one is active at a time.
Alone == joined = {} => \A i, j \in Instances : Active(i) /\ Active(j) => i = j

\* What a run has reached between the move of the target and the clean-up.
Borrowed(i) ==
  /\ pc[i] \in {"egress", "ingress", "running"} /\ Live(Target) => cg[Target] = Child(i)
  /\ pc[i] = "ingress" => attached[i] = {"egress"}
  /\ pc[i] = "running" => attached[i] = {"egress", "ingress"}

\* Nobody but the runs moves the target: it was there before they began.
TargetBorn == life[Target] # "unborn" /\ Target \notin late

Detached == \A i \in Instances : pc[i] \notin {"ingress", "running"} => attached[i] = {}

BorrowInv ==
  /\ Alone /\ TargetBorn /\ Detached
  /\ joined = {} => \A i \in Instances : Borrowed(i)

LEMMA BorrowInit == Init => BorrowInv
BY CgroupAssumption
   DEF Init, BorrowInv, Alone, TargetBorn, Detached, Borrowed, Active

LEMMA BorrowStep == TypeOK /\ BorrowInv /\ [Next]_vars => BorrowInv'
<1> SUFFICES ASSUME TypeOK, BorrowInv, [Next]_vars PROVE BorrowInv'
  OBVIOUS
<1> USE CgroupAssumption DEF TypeOK, Labels, Live, Exists, Child, Goto, system, errors,
        BorrowInv, Alone, TargetBorn, Detached, Borrowed, Active, Ended
<1>1. ASSUME NEW i \in Instances, Create(i) PROVE BorrowInv'
  <2>1. CASE FindCgroup(i)
    BY <2>1 DEF FindCgroup
  <2>2. CASE MakeChild(i)
    BY <2>2 DEF MakeChild
  <2>3. CASE MakeChildFails(i)
    BY <2>3 DEF MakeChildFails
  <2>4. CASE MoveTarget(i)
    BY <2>4 DEF MoveTarget
  <2>5. CASE MoveTargetFails(i)
    BY <2>5 DEF MoveTargetFails
  <2> QED BY <1>1, <2>1, <2>2, <2>3, <2>4, <2>5 DEF Create
<1>2. ASSUME NEW i \in Instances, Attach(i) PROVE BorrowInv'
  <2>1. CASE AttachEgress(i)
    BY <2>1 DEF AttachEgress
  <2>2. CASE AttachEgressFails(i)
    BY <2>2 DEF AttachEgressFails
  <2>3. CASE AttachIngress(i)
    BY <2>3 DEF AttachIngress
  <2>4. CASE AttachIngressFails(i)
    BY <2>4 DEF AttachIngressFails
  <2> QED BY <1>2, <2>1, <2>2, <2>3, <2>4 DEF Attach
<1>3. ASSUME NEW i \in Instances, Close(i) PROVE BorrowInv'
  <2>1. CASE Detach(i)
    BY <2>1 DEF Detach
  <2>2. CASE ListChild(i)
    BY <2>2 DEF ListChild
  <2>3. ASSUME NEW p \in Procs, MoveBack(i, p) PROVE BorrowInv'
    BY <2>3 DEF MoveBack
  <2>4. CASE AllMovedBack(i)
    BY <2>4 DEF AllMovedBack
  <2>5. CASE RemoveChild(i)
    BY <2>5 DEF RemoveChild
  <2>6. CASE ListChildFails(i)
    BY <2>6 DEF ListChildFails
  <2>7. ASSUME NEW p \in Procs, MoveBackFails(i, p) PROVE BorrowInv'
    BY <2>7 DEF MoveBackFails
  <2>8. CASE RemoveChildFails(i)
    BY <2>8 DEF RemoveChildFails
  <2> QED BY <1>3, <2>1, <2>2, <2>3, <2>4, <2>5, <2>6, <2>7, <2>8 DEF Close
<1>4. ASSUME NEW i \in Instances, Crash(i) PROVE BorrowInv'
  BY <1>4 DEF Crash
<1>5. ASSUME NEW p \in Procs, NEW q \in Procs, Fork(p, q) PROVE BorrowInv'
  BY <1>5 DEF Fork
<1>6. ASSUME NEW p \in Procs, ProcessExits(p) PROVE BorrowInv'
  BY <1>6 DEF ProcessExits
<1>7. CASE UNCHANGED vars
  BY <1>7 DEF vars
<1> QED BY <1>1, <1>2, <1>3, <1>4, <1>5, <1>6, <1>7 DEF Next

LEMMA BorrowInvariant == Spec => []BorrowInv
BY BorrowInit, BorrowStep, TypeCorrect, PTL DEF Spec

\* attachCgroup and Close: no program counts what the clean-up moves, whichever
\* step of the set-up failed.
THEOREM ProgramsDetachFirst == Spec => []DetachedFirst
<1>1. BorrowInv => DetachedFirst
  BY DEF BorrowInv, Detached, DetachedFirst
<1> QED BY <1>1, BorrowInvariant, PTL

\* NewLoader: a run that measures has both programs on the cgroup its target is
\* in, as long as no run joins another.
THEOREM TargetIsMeasured == Spec => []TargetMeasured
<1>1. TypeOK /\ BorrowInv => TargetMeasured
  BY CgroupAssumption DEF TypeOK, BorrowInv, Borrowed, TargetMeasured, Child
<1> QED BY <1>1, BorrowInvariant, TypeCorrect, PTL

-------------------------------------------------------------------------------
(***************************************************************************)
(* What a run leaves behind.                                               *)
(***************************************************************************)
\* What a run has to bring home: who is in a child and has not been given up.
Strays == {p \in Procs : Live(p) /\ cg[p] > 0 /\ p \notin late \cup refused}

\* Of runs that follow each other and are not killed each finds the target where
\* it began and uses the same child, until an error leaves the target in it:
\* nobody but those it forks then is ever in a child again.
LeakInv ==
  Crashed = {} /\ joined = {} =>
    /\ Target \in refused \/ depth <= 1
    /\ \A i \in Instances :
         Active(i) => orig[i] = 0 \/ (Target \in refused /\ Strays = {})
    /\ \/ Strays = {}
       \/ \E i \in Instances :
            \/ /\ pc[i] \in {"egress", "ingress", "running", "read"}
               /\ Target \notin refused
            \/ pc[i] = "moveback" /\ Strays \subseteq todo[i]
    /\ \A i \in Instances : pc[i] = "moveback" =>
         \A p \in todo[i] : life[p] # "unborn" /\ (Live(p) => cg[p] > 0)
    /\ \/ depth = 0 \/ late \cup refused # {} \/ unremoved # {}
       \/ \E i \in Instances : Active(i) /\ pc[i] # "mkdir"

LEMMA LeakInit == Init => LeakInv
BY CgroupAssumption DEF Init, LeakInv, Strays, Active

LEMMA LeakStep == TypeOK /\ BorrowInv /\ LeakInv /\ [Next]_vars => LeakInv'
<1> SUFFICES ASSUME TypeOK, BorrowInv, LeakInv, [Next]_vars,
                    Crashed' = {}, joined' = {}
             PROVE  LeakInv'
  BY DEF LeakInv
<1> USE CgroupAssumption DEF TypeOK, Labels, Live, Exists, Child, Goto, system, errors,
        Active, Ended
<1>a. Alone /\ TargetBorn
  BY DEF BorrowInv
<1>1. ASSUME NEW i \in Instances, Create(i) PROVE LeakInv'
  <2>1. CASE FindCgroup(i)
    BY <1>a, <2>1 DEF FindCgroup, LeakInv, Strays, TargetBorn, Crashed
  <2>2. CASE MakeChild(i)
    BY <1>a, <2>2 DEF MakeChild, LeakInv, Strays, Alone, Crashed
  <2>3. CASE MakeChildFails(i)
    BY <1>a, <2>3 DEF MakeChildFails, LeakInv, Strays, Alone, Crashed
  <2>4. CASE MoveTarget(i)
    BY <1>a, <2>4 DEF MoveTarget, LeakInv, Strays, Alone, Crashed
  <2>5. CASE MoveTargetFails(i)
    BY <1>a, <2>5 DEF MoveTargetFails, LeakInv, Strays, Alone, Crashed
  <2> QED BY <1>1, <2>1, <2>2, <2>3, <2>4, <2>5 DEF Create
<1>2. ASSUME NEW i \in Instances, Attach(i) PROVE LeakInv'
  <2>1. CASE AttachEgress(i)
    BY <1>a, <2>1 DEF AttachEgress, LeakInv, Strays, Alone, Crashed
  <2>2. CASE AttachEgressFails(i)
    BY <1>a, <2>2 DEF AttachEgressFails, LeakInv, Strays, Alone, Crashed
  <2>3. CASE AttachIngress(i)
    BY <1>a, <2>3 DEF AttachIngress, LeakInv, Strays, Alone, Crashed
  <2>4. CASE AttachIngressFails(i)
    BY <1>a, <2>4 DEF AttachIngressFails, LeakInv, Strays, Alone, Crashed
  <2> QED BY <1>2, <2>1, <2>2, <2>3, <2>4 DEF Attach
<1>3. ASSUME NEW i \in Instances, Close(i) PROVE LeakInv'
  <2>1. CASE Detach(i)
    BY <1>a, <2>1 DEF Detach, LeakInv, Strays, Alone, Crashed
  <2>2. CASE ListChild(i)
    BY <1>a, <2>2 DEF ListChild, Members, LeakInv, Strays, Alone, Crashed
  <2>3. ASSUME NEW p \in Procs, MoveBack(i, p) PROVE LeakInv'
    <3>1. LeakInv /\ Crashed = {} /\ joined = {}
      BY <2>3 DEF MoveBack, Crashed
    <3>2. \A j \in Instances : Active(j) => j = i
      BY <1>a, <2>3, <3>1 DEF MoveBack, Alone
    <3>3. CASE Target \in refused /\ Strays = {}
      <4>1. Strays' = {}
        BY <2>3, <3>1, <3>3 DEF MoveBack, Home, Strays, LeakInv
      <4>2. \A r \in todo'[i] : life'[r] # "unborn" /\ (Live(r)' => cg'[r] > 0)
        BY <2>3, <3>1 DEF MoveBack, LeakInv
      <4> QED BY <2>3, <3>1, <3>2, <3>3, <4>1, <4>2 DEF MoveBack, LeakInv
    <3>4. CASE ~(Target \in refused /\ Strays = {})
      <4>1. orig[i] = 0
        BY <2>3, <3>1, <3>4 DEF MoveBack, LeakInv
      <4>2. Strays \subseteq todo[i]
        BY <2>3, <3>1, <3>2 DEF MoveBack, LeakInv
      <4>3. Strays' \subseteq todo'[i]
        BY <2>3, <4>1, <4>2 DEF MoveBack, Home, Strays
      <4> QED BY <2>3, <3>1, <3>2, <4>1, <4>3 DEF MoveBack, LeakInv
    <3> QED BY <3>3, <3>4
  <2>4. CASE AllMovedBack(i)
    BY <1>a, <2>4 DEF AllMovedBack, LeakInv, Strays, Alone, Crashed
  <2>5. CASE RemoveChild(i)
    BY <1>a, <2>5 DEF RemoveChild, Members, LeakInv, Strays, Alone, Crashed
  <2>6. CASE ListChildFails(i)
    BY <1>a, <2>6 DEF ListChildFails, Members, LeakInv, Strays, Alone, Crashed
  <2>7. ASSUME NEW p \in Procs, MoveBackFails(i, p) PROVE LeakInv'
    BY <1>a, <2>7 DEF MoveBackFails, Home, LeakInv, Strays, Alone, Crashed
  <2>8. CASE RemoveChildFails(i)
    BY <1>a, <2>8 DEF RemoveChildFails, Members, LeakInv, Strays, Alone, Crashed
  <2> QED BY <1>3, <2>1, <2>2, <2>3, <2>4, <2>5, <2>6, <2>7, <2>8 DEF Close
<1>4. ASSUME NEW i \in Instances, Crash(i) PROVE LeakInv'
  BY <1>4 DEF Crash, Crashed
<1>5. ASSUME NEW p \in Procs, NEW q \in Procs, Fork(p, q) PROVE LeakInv'
  <2>1. LeakInv /\ Crashed = {} /\ joined = {}
    BY <1>5 DEF Fork, Crashed
  <2>2. Strays' \subseteq Strays \cup {q}
    BY <1>5 DEF Fork, Strays
  <2>3. q \in Strays' => p \in Strays /\ ~CleaningUp
    BY <1>5 DEF Fork, Strays
  <2>4. \/ Strays' = {}
        \/ \E i \in Instances : /\ pc[i] \in {"egress", "ingress", "running", "read"}
                               /\ Target \notin refused
        \/ \E i \in Instances : pc[i] = "moveback" /\ Strays' \subseteq todo[i]
    BY <2>1, <2>2, <2>3 DEF LeakInv, CleaningUp
  <2>5. Target \in refused' => Target \in refused
    BY <1>a, <1>5 DEF Fork, TargetBorn
  <2>6. Strays = {} => Strays' = {}
    BY <2>2, <2>3
  <2> QED BY <1>5, <2>1, <2>4, <2>5, <2>6 DEF Fork, LeakInv
<1>6. ASSUME NEW p \in Procs, ProcessExits(p) PROVE LeakInv'
  BY <1>a, <1>6 DEF ProcessExits, LeakInv, Strays, Alone, Crashed
<1>7. CASE UNCHANGED vars
  BY <1>7 DEF vars, LeakInv, Strays, Crashed
<1> QED BY <1>1, <1>2, <1>3, <1>4, <1>5, <1>6, <1>7 DEF Next

\* cleanupChildCgroup: only processes forked while the family is moved back, and
\* those an error was dropped for, stay behind; the child cgroup only with them or
\* by an error of its own removal, if runs neither join nor die.
THEOREM LeaksAreLateForks == Spec => []OnlyLateForksLeak
<1>1. TypeOK /\ LeakInv => OnlyLateForksLeak
  BY DEF TypeOK, LeakInv, Strays, OnlyLateForksLeak, Quiet, Active, Ended
<1> QED BY <1>1, LeakInit, LeakStep, BorrowInvariant, TypeCorrect, PTL DEF Spec

-------------------------------------------------------------------------------
(***************************************************************************)
(* Where the target ends, with kills and runs that join others.            *)
(***************************************************************************)
\* Runs that did not put the target back.
Untidy    == Crashed \cup dropped
Displaced == Cardinality(Untidy) + Cardinality(joined)

\* An active run that is bound to try to put the target back from its child.
Holds(i) ==
  \/ pc[i] \in {"egress", "ingress", "running", "read"}
  \/ pc[i] = "moveback" /\ Target \in todo[i]

ReturnInv ==
  /\ \A i \in joined : pc[i] # "off"
  /\ \A i \in dropped : /\ pc[i] \in {"moveback", "remove", "closed", "crashed"}
                        /\ pc[i] = "moveback" => Target \notin todo[i]
  /\ \A i \in Instances : Active(i) => orig[i] <= Displaced
  /\ Live(Target) =>
       \/ cg[Target] <= Displaced
       \/ /\ cg[Target] = Displaced + 1
          /\ \E i \in Instances : Holds(i) /\ orig[i] = Displaced

LEMMA DisplacedNat == TypeOK => Displaced \in Nat
<1> SUFFICES ASSUME TypeOK PROVE Displaced \in Nat
  OBVIOUS
<1>1. Untidy \in SUBSET Instances /\ joined \in SUBSET Instances
  BY DEF TypeOK, Untidy, Crashed
<1>2. Cardinality(Untidy) \in Nat /\ Cardinality(joined) \in Nat
  BY <1>1, CgroupAssumption, FS_Subset, FS_CardinalityType
<1> QED BY <1>2 DEF Displaced

\* A kill or an error, and a run that joins another, displace the target by one
\* more.
LEMMA DisplacedMore ==
  ASSUME TypeOK, NEW i \in Instances,
         \/ Untidy' = Untidy \cup {i} /\ i \notin Untidy /\ joined' = joined
         \/ joined' = joined \cup {i} /\ i \notin joined /\ Untidy' = Untidy
  PROVE  Displaced' = Displaced + 1
<1>1. Untidy \in SUBSET Instances /\ joined \in SUBSET Instances
  BY DEF TypeOK, Untidy, Crashed
<1>2. /\ IsFiniteSet(Untidy) /\ IsFiniteSet(joined)
      /\ Cardinality(Untidy) \in Nat /\ Cardinality(joined) \in Nat
  BY <1>1, CgroupAssumption, FS_Subset, FS_CardinalityType
<1>3. /\ i \notin Untidy => Cardinality(Untidy \cup {i}) = Cardinality(Untidy) + 1
      /\ i \notin joined => Cardinality(joined \cup {i}) = Cardinality(joined) + 1
  BY <1>2, FS_AddElement
<1>4. Displaced' = Cardinality(Untidy') + Cardinality(joined')
  BY DEF Displaced
<1>5. CASE Untidy' = Untidy \cup {i} /\ i \notin Untidy /\ joined' = joined
  BY <1>2, <1>3, <1>4, <1>5 DEF Displaced
<1>6. CASE joined' = joined \cup {i} /\ i \notin joined /\ Untidy' = Untidy
  BY <1>2, <1>3, <1>4, <1>6 DEF Displaced
<1> QED BY <1>5, <1>6

LEMMA ReturnInit == Init => ReturnInv
<1> SUFFICES ASSUME Init PROVE ReturnInv
  OBVIOUS
<1>1. Untidy = {} /\ joined = {}
  BY DEF Init, Untidy, Crashed
<1>2. Displaced = 0
  BY <1>1, FS_EmptySet DEF Displaced
<1> QED BY <1>2, CgroupAssumption DEF Init, ReturnInv, Active, Live

LEMMA ReturnStep == TypeOK /\ BorrowInv /\ ReturnInv /\ [Next]_vars => ReturnInv'
<1> SUFFICES ASSUME TypeOK, BorrowInv, ReturnInv, [Next]_vars PROVE ReturnInv'
  OBVIOUS
<1> USE CgroupAssumption DEF TypeOK, Labels, Live, Exists, Child, Goto, system, errors,
        Active, Ended, Holds
<1>a. Displaced \in Nat /\ TargetBorn
  BY DisplacedNat DEF BorrowInv
<1>1. ASSUME NEW i \in Instances, Create(i) PROVE ReturnInv'
  <2>1. CASE FindCgroup(i)
    <3>1. Untidy' = Untidy
      BY <2>1 DEF FindCgroup, Untidy, Crashed
    <3>2. CASE \E j \in Instances : Active(j)
      <4>1. joined' = joined \cup {i} /\ i \notin joined
        BY <2>1, <3>2 DEF FindCgroup, ReturnInv
      <4>2. Displaced' = Displaced + 1
        BY <3>1, <4>1, DisplacedMore
      <4> QED BY <1>a, <2>1, <4>1, <4>2 DEF FindCgroup, ReturnInv
    <3>3. CASE ~ \E j \in Instances : Active(j)
      <4>1. joined' = joined
        BY <2>1, <3>3 DEF FindCgroup
      <4>2. Displaced' = Displaced
        BY <3>1, <4>1 DEF Displaced
      <4> QED BY <1>a, <2>1, <3>3, <4>1, <4>2 DEF FindCgroup, ReturnInv
    <3> QED BY <3>2, <3>3
  <2>2. CASE MakeChild(i)
    <3>1. Displaced' = Displaced
      BY <2>2 DEF MakeChild, Displaced, Untidy, Crashed
    <3> QED BY <1>a, <2>2, <3>1 DEF MakeChild, ReturnInv
  <2>3. CASE MakeChildFails(i)
    <3>1. Displaced' = Displaced
      BY <2>3 DEF MakeChildFails, Displaced, Untidy, Crashed
    <3> QED BY <1>a, <2>3, <3>1 DEF MakeChildFails, ReturnInv
  <2>4. CASE MoveTarget(i)
    <3>1. Displaced' = Displaced
      BY <2>4 DEF MoveTarget, Displaced, Untidy, Crashed
    <3> QED BY <1>a, <2>4, <3>1 DEF MoveTarget, ReturnInv
  <2>5. CASE MoveTargetFails(i)
    <3>1. Displaced' = Displaced
      BY <2>5 DEF MoveTargetFails, Displaced, Untidy, Crashed
    <3> QED BY <1>a, <2>5, <3>1 DEF MoveTargetFails, ReturnInv
  <2> QED BY <1>1, <2>1, <2>2, <2>3, <2>4, <2>5 DEF Create
<1>2. ASSUME NEW i \in Instances, Attach(i) PROVE ReturnInv'
  <2>1. CASE AttachEgress(i)
    <3>1. Displaced' = Displaced
      BY <2>1 DEF AttachEgress, Displaced, Untidy, Crashed
    <3> QED BY <1>a, <2>1, <3>1 DEF AttachEgress, ReturnInv
  <2>2. CASE AttachEgressFails(i)
    <3>1. Displaced' = Displaced
      BY <2>2 DEF AttachEgressFails, Displaced, Untidy, Crashed
    <3> QED BY <1>a, <2>2, <3>1 DEF AttachEgressFails, ReturnInv
  <2>3. CASE AttachIngress(i)
    <3>1. Displaced' = Displaced
      BY <2>3 DEF AttachIngress, Displaced, Untidy, Crashed
    <3> QED BY <1>a, <2>3, <3>1 DEF AttachIngress, ReturnInv
  <2>4. CASE AttachIngressFails(i)
    <3>1. Displaced' = Displaced
      BY <2>4 DEF AttachIngressFails, Displaced, Untidy, Crashed
    <3> QED BY <1>a, <2>4, <3>1 DEF AttachIngressFails, ReturnInv
  <2> QED BY <1>2, <2>1, <2>2, <2>3, <2>4 DEF Attach
<1>3. ASSUME NEW i \in Instances, Close(i) PROVE ReturnInv'
  <2>1. CASE Detach(i)
    <3>1. Displaced' = Displaced
      BY <2>1 DEF Detach, Displaced, Untidy, Crashed
    <3> QED BY <1>a, <2>1, <3>1 DEF Detach, ReturnInv
  <2>2. CASE ListChild(i)
    <3>1. Displaced' = Displaced
      BY <2>2 DEF ListChild, Displaced, Untidy, Crashed
    <3> QED BY <1>a, <2>2, <3>1 DEF ListChild, Members, ReturnInv
  <2>3. ASSUME NEW p \in Procs, MoveBack(i, p) PROVE ReturnInv'
    <3>1. Displaced' = Displaced
      BY <2>3 DEF MoveBack, Displaced, Untidy, Crashed
    <3> QED BY <1>a, <2>3, <3>1 DEF MoveBack, Home, ReturnInv
  <2>4. CASE AllMovedBack(i)
    <3>1. Displaced' = Displaced
      BY <2>4 DEF AllMovedBack, Displaced, Untidy, Crashed
    <3> QED BY <1>a, <2>4, <3>1 DEF AllMovedBack, ReturnInv
  <2>5. CASE RemoveChild(i)
    <3>1. Displaced' = Displaced
      BY <2>5 DEF RemoveChild, Displaced, Untidy, Crashed
    <3> QED BY <1>a, <2>5, <3>1 DEF RemoveChild, ReturnInv
  <2>6. CASE ListChildFails(i)
    <3>1. CASE Target \in Members(Child(i))
      <4>1. Untidy' = Untidy \cup {i} /\ i \notin Untidy /\ joined' = joined
        BY <2>6, <3>1 DEF ListChildFails, ReturnInv, Untidy, Crashed
      <4>2. Displaced' = Displaced + 1
        BY <4>1, DisplacedMore
      <4> QED BY <1>a, <2>6, <3>1, <4>2 DEF ListChildFails, ReturnInv
    <3>2. CASE Target \notin Members(Child(i))
      <4>1. Displaced' = Displaced
        BY <2>6, <3>2 DEF ListChildFails, Displaced, Untidy, Crashed
      <4> QED BY <1>a, <2>6, <3>2, <4>1 DEF ListChildFails, Members, ReturnInv
    <3> QED BY <3>1, <3>2
  <2>7. ASSUME NEW p \in Procs, MoveBackFails(i, p) PROVE ReturnInv'
    <3>1. CASE p = Target
      <4>1. Untidy' = Untidy \cup {i} /\ i \notin Untidy /\ joined' = joined
        BY <2>7, <3>1 DEF MoveBackFails, ReturnInv, Untidy, Crashed
      <4>2. Displaced' = Displaced + 1
        BY <4>1, DisplacedMore
      <4> QED BY <1>a, <2>7, <3>1, <4>2 DEF MoveBackFails, ReturnInv
    <3>2. CASE p # Target
      <4>1. Displaced' = Displaced
        BY <2>7, <3>2 DEF MoveBackFails, Displaced, Untidy, Crashed
      <4> QED BY <1>a, <2>7, <3>2, <4>1 DEF MoveBackFails, ReturnInv
    <3> QED BY <3>1, <3>2
  <2>8. CASE RemoveChildFails(i)
    <3>1. Displaced' = Displaced
      BY <2>8 DEF RemoveChildFails, Displaced, Untidy, Crashed
    <3> QED BY <1>a, <2>8, <3>1 DEF RemoveChildFails, ReturnInv
  <2> QED BY <1>3, <2>1, <2>2, <2>3, <2>4, <2>5, <2>6, <2>7, <2>8 DEF Close
<1>4. ASSUME NEW i \in Instances, Crash(i) PROVE ReturnInv'
  <2>1. CASE i \in dropped
    <3>1. Displaced' = Displaced
      BY <1>4, <2>1 DEF Crash, Displaced, Untidy, Crashed
    <3> QED BY <1>a, <1>4, <2>1, <3>1 DEF Crash, ReturnInv
  <2>2. CASE i \notin dropped
    <3>1. Untidy' = Untidy \cup {i} /\ i \notin Untidy /\ joined' = joined
      BY <1>4, <2>2 DEF Crash, Untidy, Crashed
    <3>2. Displaced' = Displaced + 1
      BY <3>1, DisplacedMore
    <3> QED BY <1>a, <1>4, <3>2 DEF Crash, ReturnInv
  <2> QED BY <2>1, <2>2
<1>5. ASSUME NEW p \in Procs, NEW q \in Procs, Fork(p, q) PROVE ReturnInv'
  <2>1. Displaced' = Displaced
    BY <1>5 DEF Fork, Displaced, Untidy, Crashed
  <2> QED BY <1>a, <1>5, <2>1 DEF Fork, ReturnInv, TargetBorn
<1>6. ASSUME NEW p \in Procs, ProcessExits(p) PROVE ReturnInv'
  <2>1. Displaced' = Displaced
    BY <1>6 DEF ProcessExits, Displaced, Untidy, Crashed
  <2> QED BY <1>a, <1>6, <2>1 DEF ProcessExits, ReturnInv
<1>7. CASE UNCHANGED vars
  <2>1. Displaced' = Displaced
    BY <1>7 DEF vars, Displaced, Untidy, Crashed
  <2> QED BY <1>a, <1>7, <2>1 DEF vars, ReturnInv
<1> QED BY <1>1, <1>2, <1>3, <1>4, <1>5, <1>6, <1>7 DEF Next

\* Close and NewLoader: when no run is active the target is displaced by at most
\* one level for each run that was killed or dropped an error that left it where
\* it was, and one for each that joined another.
THEOREM TargetIsReturned == Spec => []TargetReturned
<1>1. TypeOK /\ ReturnInv => TargetReturned
  <2> SUFFICES ASSUME TypeOK, ReturnInv, Quiet, Live(Target)
               PROVE  cg[Target] <= Displaced
    BY DEF TargetReturned, Displaced, Untidy
  <2>1. ~ \E i \in Instances : Holds(i)
    BY DEF Quiet, Holds, Active, Ended
  <2> QED BY <2>1 DEF ReturnInv
<1> QED BY <1>1, ReturnInit, ReturnStep, BorrowInvariant, TypeCorrect, PTL DEF Spec
===============================================================================
