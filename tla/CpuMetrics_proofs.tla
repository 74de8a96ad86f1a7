--------------------------- MODULE CpuMetrics_proofs ---------------------------
(***************************************************************************)
(* Proofs about CpuTime and CpuPower, for any CPUs, any assignment of them *)
(* to cores, any setups and any bounds.                                    *)
(***************************************************************************)
EXTENDS CpuTime, CpuPower, FiniteSetTheorems, WellFoundedInduction, TLAPS

-------------------------------------------------------------------------------
(***************************************************************************)
(* Types.                                                                  *)
(***************************************************************************)
LEMMA AddTo ==
  ASSUME NEW f \in Times, NEW c \in CPUs, NEW n \in Nat
  PROVE  /\ Add(f, c, n) \in Times
         /\ \A x \in CPUs : Add(f, c, n)[x] = IF x = c THEN f[x] + n ELSE f[x]
BY DEF Add, Times

LEMMA ZeroType == Zero \in Times /\ \A c \in CPUs : Zero[c] = 0
BY DEF Zero, Times

LEMMA TypeInit == Init => TypeOK
<1> SUFFICES ASSUME Init PROVE TypeOK
  OBVIOUS
<1>1. due \in Times /\ used \in Times
  BY CpuAssumption DEF Init, Times, OfInterest
<1>2. prog \in [CPUs -> Programs]
  BY DEF Init, Quiet, Programs
<1>3. time \in 0..MaxTime
  BY CpuAssumption DEF Init
<1> HIDE DEF Zero, Times
<1> QED BY <1>1, <1>2, <1>3, ZeroType DEF Init, TypeOK

LEMMA TypeStep == TypeOK /\ [Next]_vars => TypeOK'
<1> SUFFICES ASSUME TypeOK, [Next]_vars PROVE TypeOK'
  OBVIOUS
<1> USE CpuAssumption DEF sched, kernel, reader, wrong
<1>1. ASSUME NEW c \in CPUs, Run(c)
      PROVE  TypeOK'
  <2>1. due' \in Times /\ used' \in Times
    BY <1>1, AddTo DEF Run, TypeOK
  <2> QED BY <1>1, <2>1 DEF Run, TypeOK
<1>2. ASSUME NEW c \in CPUs, NEW task \in {"target", "other", "idle"},
             Switch(c, task)
      PROVE  TypeOK'
  BY <1>2 DEF Switch, TypeOK
<1>3. ASSUME NEW e \in CPUs, NEW c \in CPUs, Event(e, c)
      PROVE  TypeOK'
  <2> DEFINE p == [at |-> IF Key(e) \in keys THEN "add" ELSE "insert",
                   rq |-> c, runtime |-> due[c]]
  <2>1. due' \in Times /\ due[c] \in Nat
    BY <1>3 DEF Event, TypeOK, Times
  <2>2. p \in Programs
    BY <2>1 DEF Programs
  <2>3. prog' = [prog EXCEPT ![e] = p] \/ prog' = prog
    BY <1>3 DEF Event
  <2> HIDE DEF p
  <2>4. prog' \in [CPUs -> Programs]
    BY <2>2, <2>3 DEF TypeOK
  <2>5. mistaken' \in Nat /\ missed' \in Nat
    BY <1>3, <2>1 DEF Event, TypeOK
  <2> QED BY <1>3, <2>1, <2>4, <2>5 DEF Event, TypeOK
<1>4. ASSUME NEW e \in CPUs, Insert(e)
      PROVE  TypeOK'
  <2>1. prog' \in [CPUs -> Programs]
    BY <1>4 DEF Insert, TypeOK, Programs
  <2>2. keys' \in SUBSET CPUs /\ ns' \in Times
    BY <1>4 DEF Insert, Key, TypeOK, Times
  <2> QED BY <1>4, <2>1, <2>2 DEF Insert, TypeOK
<1>5. ASSUME NEW e \in CPUs, Relookup(e)
      PROVE  TypeOK'
  <2>1. prog' \in [CPUs -> Programs]
    BY <1>5 DEF Relookup, Return, Quiet, TypeOK, Programs
  <2>2. prog[e].runtime \in Nat
    BY DEF TypeOK, Programs
  <2>3. counted \in Times /\ skipped \in Times
    BY DEF TypeOK
  <2>4. counted' = counted \/ counted' = Add(counted, e, prog[e].runtime)
    BY <1>5 DEF Relookup, Return, Key
  <2>5. skipped' = skipped \/ skipped' = Add(skipped, e, prog[e].runtime)
    BY <1>5 DEF Relookup, Return, Key
  <2>6. counted' \in Times /\ skipped' \in Times
    BY <2>2, <2>3, <2>4, <2>5, AddTo
  <2> QED BY <1>5, <2>1, <2>6 DEF Relookup, TypeOK
<1>6. ASSUME NEW e \in CPUs, FetchAndAdd(e)
      PROVE  TypeOK'
  <2>1. prog' \in [CPUs -> Programs]
    BY <1>6 DEF FetchAndAdd, Return, Quiet, TypeOK, Programs
  <2>2. prog[e].runtime \in Nat
    BY DEF TypeOK, Programs
  <2>3. /\ counted \in Times /\ ns \in Times
        /\ counted' = Add(counted, e, prog[e].runtime)
        /\ ns' = Add(ns, e, prog[e].runtime)
    BY <1>6 DEF FetchAndAdd, Return, Key, TypeOK
  <2>4. counted' \in Times /\ ns' \in Times
    BY <2>2, <2>3, AddTo
  <2> QED BY <1>6, <2>1, <2>4 DEF FetchAndAdd, TypeOK
<1>7. CASE (\E ok \in BOOLEAN : NewLoader(ok)) \/ BaselineRead \/ ReadFails \/ Stop
  BY <1>7 DEF NewLoader, BaselineRead, ReadFails, Stop, TypeOK
<1>8. CASE BeginRead
  BY <1>8, ZeroType DEF BeginRead, TypeOK
<1>9. ASSUME NEW c \in CPUs, ReadKey(c)
      PROVE  TypeOK'
  <2>1. out' \in Times
    BY <1>9 DEF ReadKey, TypeOK, Times
  <2> QED BY <1>9, <2>1 DEF ReadKey, TypeOK
<1>10. CASE Sample
  <2>1. \A c \in CPUs : charged[c] + Delta(c) \in Nat
    BY DEF Delta, TypeOK, Times
  <2>2. charged' \in Times
    BY <1>10, <2>1 DEF Sample, Times
  <2> QED BY <1>10, <2>2 DEF Sample, TypeOK
<1>11. CASE UNCHANGED vars
  BY <1>11 DEF vars, TypeOK
<1> QED
  BY <1>1, <1>2, <1>3, <1>4, <1>5, <1>6, <1>7, <1>8, <1>9, <1>10, <1>11
  DEF Next, Schedule, Handle, Method

\* The scheduler, the handlers and the method: types, always.
THEOREM TypeCorrect == Spec => []TypeOK
BY TypeInit, TypeStep, PTL DEF Spec

-------------------------------------------------------------------------------
(***************************************************************************)
(* The handlers. A handler that inserts is alone with its key, because the *)
(* key names its CPU: so the zero it writes replaces nothing.              *)
(***************************************************************************)
Absent(f, S) == \A c \in CPUs : c \notin S => f[c] = 0

KernelInv ==
  /\ KernelExact
  /\ Absent(ns, keys)
  /\ \A e \in CPUs : prog[e].at = "insert" => e \notin keys
  /\ \A e \in CPUs : prog[e].at = "add" => e \in keys

LEMMA Naturals ==
  ASSUME TypeOK
  PROVE  /\ DOMAIN prog = CPUs
         /\ \A c \in CPUs :
              /\ ns[c] \in Nat /\ skipped[c] \in Nat /\ counted[c] \in Nat
              /\ out[c] \in Nat /\ lastRead[c] \in Nat
              /\ base[c] \in Nat /\ charged[c] \in Nat
              /\ prog[c] \in Programs /\ prog[c].runtime \in Nat
BY DEF TypeOK, Times, Programs

LEMMA AddedTo ==
  ASSUME TypeOK, NEW e \in CPUs, NEW n \in Nat, NEW x \in CPUs
  PROVE  /\ Add(ns, e, n)[x] = IF x = e THEN ns[x] + n ELSE ns[x]
         /\ Add(skipped, e, n)[x] = IF x = e THEN skipped[x] + n ELSE skipped[x]
         /\ Add(counted, e, n)[x] = IF x = e THEN counted[x] + n ELSE counted[x]
BY AddTo DEF TypeOK

LEMMA KernelInit == Init => KernelInv
BY ZeroType DEF Init, KernelInv, KernelExact, Absent, Quiet

LEMMA KernelStep == TypeOK /\ KernelInv /\ [Next]_vars => KernelInv'
<1> SUFFICES ASSUME TypeOK, KernelInv, [Next]_vars PROVE KernelInv'
  OBVIOUS
<1> USE Naturals DEF KernelInv, KernelExact, Absent, Key
<1>1. ASSUME NEW e \in CPUs, NEW c \in CPUs, Event(e, c)
      PROVE  KernelInv'
  <2>1. /\ \A x \in CPUs : x # e => prog'[x] = prog[x]
        /\ prog'[e].at = "insert" => e \notin keys
        /\ prog'[e].at = "add" => e \in keys
    BY <1>1 DEF Event
  <2> QED BY <1>1, <2>1 DEF Event
<1>2. ASSUME NEW e \in CPUs, Insert(e)
      PROVE  KernelInv'
  <2>1. /\ \A x \in CPUs : x # e => prog'[x] = prog[x]
        /\ prog'[e].at = "relookup"
    BY <1>2 DEF Insert, Programs
  <2>2. /\ \A x \in CPUs : ns'[x] = ns[x]
        /\ keys' = keys \/ keys' = keys \cup {e}
    BY <1>2 DEF Insert, TypeOK, Times
  <2> QED BY <1>2, <2>1, <2>2 DEF Insert
<1>3. ASSUME NEW e \in CPUs, Relookup(e)
      PROVE  KernelInv'
  <2>1. /\ \A x \in CPUs : x # e => prog'[x] = prog[x]
        /\ prog'[e].at # "insert"
        /\ prog'[e].at = "add" => e \in keys
    BY <1>3 DEF Relookup, Return, Quiet, Programs
  <2>2. CASE e \in keys
    BY <1>3, <2>1, <2>2 DEF Relookup
  <2>3. CASE e \notin keys
    <3>1. PICK n \in Nat : /\ skipped' = Add(skipped, e, n)
                          /\ counted' = Add(counted, e, n)
      BY <1>3, <2>3 DEF Relookup, Return
    <3>2. \A x \in CPUs :
            /\ skipped'[x] = IF x = e THEN skipped[x] + n ELSE skipped[x]
            /\ counted'[x] = IF x = e THEN counted[x] + n ELSE counted[x]
      BY <3>1, AddedTo
    <3> QED BY <1>3, <2>1, <3>2 DEF Relookup
  <2> QED BY <2>2, <2>3
<1>4. ASSUME NEW e \in CPUs, FetchAndAdd(e)
      PROVE  KernelInv'
  <2>1. /\ \A x \in CPUs : x # e => prog'[x] = prog[x]
        /\ prog'[e].at = "idle" /\ e \in keys
    BY <1>4 DEF FetchAndAdd, Return, Quiet
  <2>2. PICK n \in Nat : ns' = Add(ns, e, n) /\ counted' = Add(counted, e, n)
    BY <1>4 DEF FetchAndAdd, Return
  <2>3. \A x \in CPUs :
          /\ ns'[x] = IF x = e THEN ns[x] + n ELSE ns[x]
          /\ counted'[x] = IF x = e THEN counted[x] + n ELSE counted[x]
    BY <2>2, AddedTo
  <2> QED BY <1>4, <2>1, <2>3 DEF FetchAndAdd
<1>5. CASE Schedule \/ Method \/ UNCHANGED vars
  BY <1>5
  DEF Schedule, Run, Switch, Method, NewLoader, BeginRead, BaselineRead,
      ReadFails, Sample, Stop, ReadKey, kernel, vars
<1> QED BY <1>1, <1>2, <1>3, <1>4, <1>5 DEF Next, Handle

LEMMA KernelInvariant == Spec => [](TypeOK /\ KernelInv)
BY TypeInit, TypeStep, KernelInit, KernelStep, PTL DEF Spec

\* kernel_bpf.c: no interleaving of the handlers loses or repeats runtime, and
\* no insert with BPF_ANY takes back what another has counted.
THEOREM KernelIsExact == Spec => []KernelExact
<1>1. KernelInv => KernelExact
  BY DEF KernelInv
<1> QED BY <1>1, KernelInvariant, PTL

-------------------------------------------------------------------------------
(***************************************************************************)
(* The method. Counters only grow, so a value read is a lower bound of its *)
(* counter; a read that reached every key it had to has at least what the  *)
(* read before it returned, and the charges add up to the last one.        *)
(***************************************************************************)
Below(f, g) == \A c \in CPUs : f[c] <= g[c]

MeterInv ==
  /\ \A c \in CPUs : base[c] + charged[c] = lastRead[c]
  /\ must \subseteq keys /\ visited \subseteq keys
  /\ Absent(out, visited) /\ Below(out, ns)
  /\ Absent(lastRead, keys) /\ Below(lastRead, ns)
  /\ mpc \in {"created", "attached", "baseline", "failed"} =>
       base = Zero /\ charged = Zero /\ lastRead = Zero
  /\ mpc = "measuring" =>
       Absent(lastRead, must) /\ \A c \in visited : out[c] >= lastRead[c]

LEMMA MeterInit == Init => MeterInv
BY ZeroType DEF Init, MeterInv, Absent, Below

LEMMA DeltaIsDifference ==
  ASSUME TypeOK, MeterInv, mpc = "measuring", must \subseteq visited,
         NEW c \in CPUs
  PROVE  out[c] >= lastRead[c] /\ Delta(c) = out[c] - lastRead[c]
<1>1. CASE c \in visited
  BY <1>1, Naturals DEF MeterInv, Delta
<1>2. CASE c \notin visited
  <2>1. lastRead[c] = 0
    BY <1>2 DEF MeterInv, Absent
  <2> QED BY <2>1, Naturals DEF Delta
<1> QED BY <1>1, <1>2

\* The handlers only raise the counters, and take no entry away.
LEMMA CountersGrow ==
  ASSUME TypeOK, KernelInv, NEW e \in CPUs, Insert(e) \/ FetchAndAdd(e)
  PROVE  /\ UNCHANGED reader
         /\ keys \subseteq keys'
         /\ \A c \in CPUs : ns'[c] \in Nat /\ ns'[c] >= ns[c]
<1>1. CASE Insert(e)
  <2>1. \A c \in CPUs : ns'[c] = ns[c]
    BY <1>1 DEF Insert, Key, KernelInv, Absent, TypeOK, Times
  <2> QED BY <1>1, <2>1, Naturals DEF Insert, Key
<1>2. CASE FetchAndAdd(e)
  <2>1. PICK n \in Nat : ns' = Add(ns, e, n)
    BY <1>2, Naturals DEF FetchAndAdd, Key
  <2>2. \A c \in CPUs : ns'[c] = IF c = e THEN ns[c] + n ELSE ns[c]
    BY <2>1, AddedTo
  <2> QED BY <1>2, <2>2, Naturals DEF FetchAndAdd
<1> QED BY <1>1, <1>2

LEMMA MeterStep == TypeOK /\ KernelInv /\ MeterInv /\ [Next]_vars => MeterInv'
<1> SUFFICES ASSUME TypeOK, KernelInv, MeterInv, [Next]_vars PROVE MeterInv'
  OBVIOUS
<1>0. keys \subseteq CPUs
  BY DEF TypeOK
<1> USE Naturals DEF MeterInv, Absent, Below
<1>1. ASSUME NEW e \in CPUs, Insert(e) \/ FetchAndAdd(e)
      PROVE  MeterInv'
  <2>1. /\ UNCHANGED reader
        /\ keys \subseteq keys'
        /\ \A c \in CPUs : ns'[c] \in Nat /\ ns'[c] >= ns[c]
    BY <1>1, CountersGrow
  <2> QED BY <2>1 DEF reader
<1>2. CASE \E e \in CPUs : Relookup(e) \/ \E c \in CPUs : Event(e, c)
  BY <1>2 DEF Relookup, Event, reader
<1>3. CASE BeginRead
  BY <1>0, <1>3, ZeroType DEF BeginRead, kernel
<1>4. ASSUME NEW c \in CPUs, ReadKey(c)
      PROVE  MeterInv'
  <2>1. \A x \in CPUs : out'[x] = IF x = c THEN ns[x] ELSE out[x]
    BY <1>4 DEF ReadKey, TypeOK, Times
  <2> QED BY <1>0, <1>4, <2>1 DEF ReadKey, kernel
<1>5. CASE BaselineRead
  BY <1>5, ZeroType DEF BaselineRead, kernel
<1>6. CASE Sample
  <2>1. \A c \in CPUs : /\ charged'[c] = charged[c] + (out[c] - lastRead[c])
                        /\ out[c] >= lastRead[c]
    BY <1>6, DeltaIsDifference DEF Sample
  <2>2. \A c \in CPUs : base'[c] + charged'[c] = lastRead'[c]
    BY <1>6, <2>1 DEF Sample
  <2> QED BY <1>6, <2>1, <2>2 DEF Sample, kernel
<1>7. CASE \/ Schedule \/ ReadFails \/ Stop \/ UNCHANGED vars
           \/ \E ok \in BOOLEAN : NewLoader(ok)
  BY <1>7
  DEF Schedule, Run, Switch, ReadFails, Stop, NewLoader, kernel, reader, vars
<1> QED
  BY <1>1, <1>2, <1>3, <1>4, <1>5, <1>6, <1>7 DEF Next, Handle, Method

LEMMA MeterInvariant == Spec => [](TypeOK /\ KernelInv /\ MeterInv)
BY TypeInit, TypeStep, KernelInit, KernelStep, MeterInit, MeterStep, PTL DEF Spec

-------------------------------------------------------------------------------
(***************************************************************************)
(* Refinement.                                                             *)
(***************************************************************************)
ConsumedOn(c) == IF BaselineKnown THEN ns[c] - base[c] ELSE 0

LEMMA RefineInit == Init => Promise!Init
BY ZeroType DEF Init, Promise!Init, BaselineKnown, Zero

\* Anything but a sample charges nothing, and takes nothing consumed back.
LEMMA OnlyConsumes ==
  ASSUME TypeOK, KernelInv, MeterInv, [Next]_vars, ~Sample
  PROVE  /\ charged' = charged
         /\ \A c \in CPUs : ConsumedOn(c)' >= ConsumedOn(c)
<1> USE Naturals DEF ConsumedOn, BaselineKnown
<1>1. ASSUME NEW e \in CPUs, Insert(e) \/ FetchAndAdd(e)
      PROVE  /\ charged' = charged
             /\ \A c \in CPUs : ConsumedOn(c)' >= ConsumedOn(c)
  <2>1. /\ UNCHANGED reader
        /\ \A c \in CPUs : ns'[c] \in Nat /\ ns'[c] >= ns[c]
    BY <1>1, CountersGrow
  <2> QED BY <2>1 DEF reader
<1>2. CASE \E e \in CPUs : Relookup(e) \/ \E c \in CPUs : Event(e, c)
  BY <1>2 DEF Relookup, Event, reader
<1>3. CASE BaselineRead
  <2>1. \A c \in CPUs : out[c] <= ns[c]
    BY DEF MeterInv, Below
  <2> QED BY <1>3, <2>1 DEF BaselineRead, kernel
<1>4. CASE \/ Schedule \/ ReadFails \/ Stop \/ BeginRead \/ UNCHANGED vars
           \/ (\E ok \in BOOLEAN : NewLoader(ok)) \/ \E c \in CPUs : ReadKey(c)
  BY <1>4
  DEF Schedule, Run, Switch, ReadFails, Stop, BeginRead, NewLoader, ReadKey,
      kernel, reader, vars
<1> QED BY <1>1, <1>2, <1>3, <1>4 DEF Next, Handle, Method

LEMMA RefineStep ==
  TypeOK /\ KernelInv /\ MeterInv /\ [Next]_vars => Promise!Next
<1> SUFFICES ASSUME TypeOK, KernelInv, MeterInv, [Next]_vars PROVE Promise!Next
  OBVIOUS
<1>1. CASE Sample
  <2>1. ASSUME NEW c \in CPUs
        PROVE  charged'[c] \in charged[c]..(ns[c] - base[c])
    <3>1. /\ charged'[c] = charged[c] + (out[c] - lastRead[c])
          /\ out[c] >= lastRead[c]
      BY <1>1, DeltaIsDifference DEF Sample
    <3>2. base[c] + charged[c] = lastRead[c] /\ out[c] <= ns[c]
      BY DEF MeterInv, Below
    <3> QED BY <3>1, <3>2, Naturals
  <2>2. /\ mpc = "measuring" /\ mpc' = "started"
        /\ ns' = ns /\ base' = base
    BY <1>1 DEF Sample, kernel
  <2>3. Promise!Charge
    BY <2>1, <2>2 DEF Promise!Charge, BaselineKnown
  <2> QED BY <2>3 DEF Promise!Next
<1>2. CASE ~Sample
  <2>1. /\ charged' = charged
        /\ \A c \in CPUs : ConsumedOn(c)' >= ConsumedOn(c)
    BY <1>2, OnlyConsumes
  <2>2. Promise!Consume
    BY <2>1 DEF Promise!Consume, ConsumedOn
  <2> QED BY <2>2 DEF Promise!Next
<1> QED BY <1>1, <1>2

\* The metrics method of the cpu module is a meter: what it hands to the power
\* model was counted after its baseline, and is charged once, whatever reads
\* fail and however they interleave with the handlers.
THEOREM CpuImplementsMeter == Spec => ImplementsMeter
BY MeterInvariant, RefineInit, RefineStep, PTL
DEF Spec, ImplementsMeter, Promise!Spec

-------------------------------------------------------------------------------
(***************************************************************************)
(* Sums. SumFunctionOnSet takes the elements of its set in an order that   *)
(* depends on the set only, so sums over one set are compared step by      *)
(* step. A fold is a CHOOSE of a recursive function; that there is one,    *)
(* and what holds of all subsets of a finite set, is shown with a least    *)
(* subset of which it fails.                                               *)
(***************************************************************************)
Pick(T) == CHOOSE x \in T : TRUE

\* g gives the sums of f over the members of D, as SumFunctionOnSet makes them.
Sums(f, D, g) ==
  g = [T \in D |-> IF T = {} THEN 0 ELSE f[Pick(T)] + g[T \ {Pick(T)}]]

Iter(f, S) == CHOOSE g : Sums(f, SUBSET S, g)

\* The sum as the library defines it.
LEMMA SumIsIter ==
  ASSUME NEW f, NEW S
  PROVE  SumFunctionOnSet(f, S) = Iter(f, S)[S]
BY DEF SumFunctionOnSet, FoldFunctionOnSet, MapThenFoldSet, Iter, Sums, Pick

LEMMA PickIn ==
  ASSUME NEW T, T # {}
  PROVE  Pick(T) \in T
BY DEF Pick

\* There is a least bad subset, if any: induction over the subsets of a finite set.
LEMMA MinimalSubset ==
  ASSUME NEW S, IsFiniteSet(S), NEW B \in SUBSET SUBSET S, B # {}
  PROVE  \E T \in B : \A U \in B : U \subseteq T => U = T
<1>1. B \subseteq FiniteSubsetsOf(S)
  BY FS_FiniteSubsetsOfFinite
<1>2. \E T \in B : \A U \in B : ~ (<<U, T>> \in StrictSubsetOrdering(S))
  BY <1>1, FS_StrictSubsetOrderingWellFounded, WFMin
<1> QED BY <1>2 DEF StrictSubsetOrdering

\* The sums exist: a largest downward closed family that has them has every subset.
LEMMA SumsExist ==
  ASSUME NEW S, IsFiniteSet(S), NEW f
  PROVE  Sums(f, SUBSET S, Iter(f, S))
<1> DEFINE Good(D) == /\ \A T \in D : SUBSET T \subseteq D
                      /\ \E g : Sums(f, D, g)
           Left == {(SUBSET S) \ D : D \in {D \in SUBSET SUBSET S : Good(D)}}
<1>1. Good({})
  <2>1. Sums(f, {}, [T \in {} |-> 0])
    BY DEF Sums
  <2> QED BY <2>1
<1>2. PICK D \in SUBSET SUBSET S :
        Good(D) /\ \A E \in SUBSET SUBSET S : Good(E) /\ D \subseteq E => E = D
  <2>1. IsFiniteSet(SUBSET S)
    BY FS_SUBSET
  <2>2. Left \in SUBSET SUBSET SUBSET S /\ Left # {}
    BY <1>1
  <2> HIDE DEF Left
  <2>3. PICK X \in Left : \A Y \in Left : Y \subseteq X => Y = X
    BY <2>1, <2>2, MinimalSubset
  <2> USE DEF Left
  <2> HIDE DEF Good
  <2>4. PICK D \in SUBSET SUBSET S : Good(D) /\ X = (SUBSET S) \ D
    BY <2>3
  <2>5. ASSUME NEW E \in SUBSET SUBSET S, Good(E), D \subseteq E
        PROVE  E = D
    <3>1. (SUBSET S) \ E \in Left /\ (SUBSET S) \ E \subseteq X
      BY <2>4, <2>5
    <3>2. (SUBSET S) \ E = X
      BY <3>1, <2>3
    <3> QED BY <3>2, <2>4
  <2> QED BY <2>4, <2>5
<1>3. D = SUBSET S
  <2> SUFFICES ASSUME D # SUBSET S PROVE FALSE
    OBVIOUS
  <2>1. PICK U \in (SUBSET S) \ D : \A V \in (SUBSET S) \ D : V \subseteq U => V = U
    <3> HIDE DEF Good
    <3> DEFINE B == (SUBSET S) \ D
    <3>1. B \in SUBSET SUBSET S /\ B # {}
      BY <1>2
    <3> HIDE DEF B
    <3>2. \E T \in B : \A U \in B : U \subseteq T => U = T
      BY <3>1, MinimalSubset
    <3> QED BY <3>2 DEF B
  <2>2. PICK g : Sums(f, D, g)
    BY <1>2
  <2> DEFINE h == [T \in D \cup {U} |->
                     IF T = U THEN IF U = {} THEN 0 ELSE f[Pick(U)] + g[U \ {Pick(U)}]
                              ELSE g[T]]
  <2>3. \A V \in SUBSET U : V # U => V \in D
    BY <2>1
  <2>4. ASSUME NEW T \in D \cup {U}
        PROVE  h[T] = IF T = {} THEN 0 ELSE f[Pick(T)] + h[T \ {Pick(T)}]
    <3>1. T # {} => T \ {Pick(T)} \in D /\ T \ {Pick(T)} # U
      <4>1. T # {} => T \ {Pick(T)} \in D
        BY <2>3, <1>2, PickIn
      <4> QED BY <4>1, <2>1
    <3>2. T # {} => h[T \ {Pick(T)}] = g[T \ {Pick(T)}]
      BY <3>1
    <3>3. CASE T = U
      BY <3>2, <3>3
    <3>4. CASE T # U
      BY <3>2, <3>4, <2>2 DEF Sums
    <3> QED BY <3>3, <3>4
  <2>5. Sums(f, D \cup {U}, h)
    <3> DEFINE k == [T \in D \cup {U} |->
                       IF T = {} THEN 0 ELSE f[Pick(T)] + h[T \ {Pick(T)}]]
    <3>1. DOMAIN h = DOMAIN k /\ \A T \in D \cup {U} : h[T] = k[T]
      BY <2>4
    <3> QED BY <3>1 DEF Sums
  <2>6. Good(D \cup {U})
    <3>1. \A T \in D \cup {U} : SUBSET T \subseteq D \cup {U}
      BY <2>3, <1>2
    <3> QED BY <3>1, <2>5
  <2> HIDE DEF Good
  <2> QED BY <2>6, <1>2, <2>1
<1> QED BY <1>2, <1>3 DEF Iter

\* The sum over a set, from the sum over the set less one element.
LEMMA SumUnfolds ==
  ASSUME NEW S, IsFiniteSet(S), NEW f, NEW T \in SUBSET S
  PROVE  Iter(f, S)[T] = IF T = {} THEN 0
                         ELSE f[Pick(T)] + Iter(f, S)[T \ {Pick(T)}]
<1>1. Sums(f, SUBSET S, Iter(f, S))
  BY SumsExist
<1> QED BY <1>1 DEF Sums

LEMMA SumOfNone ==
  ASSUME NEW S, IsFiniteSet(S), NEW f
  PROVE  Iter(f, S)[{}] = 0
<1>1. {} \in SUBSET S
  OBVIOUS
<1> QED BY <1>1, SumUnfolds

\* Induction over the subsets of a finite set, for claims given as the set of
\* the subsets they hold of.
LEMMA SubsetInduction ==
  ASSUME NEW S, IsFiniteSet(S), NEW C, {} \in C,
         \A T \in SUBSET S : T # {} /\ T \ {Pick(T)} \in C => T \in C
  PROVE  SUBSET S \subseteq C
<1> DEFINE B == (SUBSET S) \ C
<1> SUFFICES ASSUME B # {} PROVE FALSE
  OBVIOUS
<1>1. B \in SUBSET SUBSET S
  OBVIOUS
<1> HIDE DEF B
<1>2. PICK T \in B : \A U \in B : U \subseteq T => U = T
  BY <1>1, MinimalSubset
<1> USE DEF B
<1>3. T # {} /\ Pick(T) \in T
  BY PickIn
<1>4. T \ {Pick(T)} \in C
  BY <1>2, <1>3
<1> QED BY <1>2, <1>3, <1>4

\* Integers add up to an integer.
LEMMA SumIsInteger ==
  ASSUME NEW S, IsFiniteSet(S), NEW f, \A x \in S : f[x] \in Int
  PROVE  SumFunctionOnSet(f, S) \in Int
<1> DEFINE C == {T \in SUBSET S : Iter(f, S)[T] \in Int}
<1>1. {} \in C
  BY SumOfNone
<1>2. ASSUME NEW T \in SUBSET S, T # {}, T \ {Pick(T)} \in C
      PROVE  T \in C
  <2>1. Iter(f, S)[T] = f[Pick(T)] + Iter(f, S)[T \ {Pick(T)}]
    BY <1>2, SumUnfolds
  <2>2. Pick(T) \in S
    BY <1>2, PickIn
  <2> QED BY <1>2, <2>1, <2>2
<1> HIDE DEF C
<1>3. SUBSET S \subseteq C
  BY <1>1, <1>2, SubsetInduction
<1> QED BY <1>3, SumIsIter DEF C

\* The sum of h = f + g, element by element, is the sum of the sums.
LEMMA SumAdds ==
  ASSUME NEW S, IsFiniteSet(S), NEW f, NEW g, NEW h,
         \A x \in S : f[x] \in Int /\ g[x] \in Int /\ h[x] = f[x] + g[x]
  PROVE  SumFunctionOnSet(h, S) = SumFunctionOnSet(f, S) + SumFunctionOnSet(g, S)
<1> DEFINE C == {T \in SUBSET S :
                   /\ Iter(f, S)[T] \in Int /\ Iter(g, S)[T] \in Int
                   /\ Iter(h, S)[T] = Iter(f, S)[T] + Iter(g, S)[T]}
<1>1. {} \in C
  BY SumOfNone
<1>2. ASSUME NEW T \in SUBSET S, T # {}, T \ {Pick(T)} \in C
      PROVE  T \in C
  <2>1. /\ Iter(f, S)[T] = f[Pick(T)] + Iter(f, S)[T \ {Pick(T)}]
        /\ Iter(g, S)[T] = g[Pick(T)] + Iter(g, S)[T \ {Pick(T)}]
        /\ Iter(h, S)[T] = h[Pick(T)] + Iter(h, S)[T \ {Pick(T)}]
    <3>1. T \in SUBSET S /\ T # {}
      BY <1>2
    <3> HIDE DEF C
    <3>2. Iter(f, S)[T] = f[Pick(T)] + Iter(f, S)[T \ {Pick(T)}]
      BY <3>1, SumUnfolds
    <3>3. Iter(g, S)[T] = g[Pick(T)] + Iter(g, S)[T \ {Pick(T)}]
      BY <3>1, SumUnfolds
    <3>4. Iter(h, S)[T] = h[Pick(T)] + Iter(h, S)[T \ {Pick(T)}]
      BY <3>1, SumUnfolds
    <3> QED BY <3>2, <3>3, <3>4
  <2>2. Pick(T) \in S
    BY <1>2, PickIn
  <2> QED BY <1>2, <2>1, <2>2
<1> HIDE DEF C
<1>3. SUBSET S \subseteq C
  BY <1>1, <1>2, SubsetInduction
<1> QED BY <1>3, SumIsIter DEF C

\* Larger summands, no smaller sum.
LEMMA SumIsMonotone ==
  ASSUME NEW S, IsFiniteSet(S), NEW f, NEW g,
         \A x \in S : f[x] \in Int /\ g[x] \in Int /\ f[x] <= g[x]
  PROVE  SumFunctionOnSet(f, S) <= SumFunctionOnSet(g, S)
<1> DEFINE C == {T \in SUBSET S :
                   /\ Iter(f, S)[T] \in Int /\ Iter(g, S)[T] \in Int
                   /\ Iter(f, S)[T] <= Iter(g, S)[T]}
<1>1. {} \in C
  BY SumOfNone
<1>2. ASSUME NEW T \in SUBSET S, T # {}, T \ {Pick(T)} \in C
      PROVE  T \in C
  <2>1. /\ Iter(f, S)[T] = f[Pick(T)] + Iter(f, S)[T \ {Pick(T)}]
        /\ Iter(g, S)[T] = g[Pick(T)] + Iter(g, S)[T \ {Pick(T)}]
    BY <1>2, SumUnfolds
  <2>2. Pick(T) \in S
    BY <1>2, PickIn
  <2> QED BY <1>2, <2>1, <2>2
<1> HIDE DEF C
<1>3. SUBSET S \subseteq C
  BY <1>1, <1>2, SubsetInduction
<1> QED BY <1>3, SumIsIter DEF C

\* All summands but one are zero.
LEMMA SumOfOne ==
  ASSUME NEW S, IsFiniteSet(S), NEW c \in S, NEW v \in Int, NEW f,
         \A x \in S : f[x] = IF x = c THEN v ELSE 0
  PROVE  SumFunctionOnSet(f, S) = v
<1> DEFINE C == {T \in SUBSET S : Iter(f, S)[T] = IF c \in T THEN v ELSE 0}
<1>1. {} \in C
  BY SumOfNone
<1>2. ASSUME NEW T \in SUBSET S, T # {}, T \ {Pick(T)} \in C
      PROVE  T \in C
  <2>1. Iter(f, S)[T] = f[Pick(T)] + Iter(f, S)[T \ {Pick(T)}]
    BY <1>2, SumUnfolds
  <2>2. Pick(T) \in S /\ Pick(T) \in T
    BY <1>2, PickIn
  <2>3. f[Pick(T)] = IF Pick(T) = c THEN v ELSE 0
    BY <2>2
  <2>4. Iter(f, S)[T \ {Pick(T)}] = IF c \in T \ {Pick(T)} THEN v ELSE 0
    BY <1>2
  <2> HIDE DEF C
  <2>5. Iter(f, S)[T] = IF c \in T THEN v ELSE 0
    BY <2>1, <2>2, <2>3, <2>4
  <2> QED BY <2>5 DEF C
<1> HIDE DEF C
<1>3. SUBSET S \subseteq C
  BY <1>1, <1>2, SubsetInduction
<1> QED BY <1>3, SumIsIter DEF C

\* A summand that changes by v changes the sum by v.
LEMMA SumChangesAt ==
  ASSUME NEW S, IsFiniteSet(S), NEW c \in S, NEW v \in Int, NEW f, NEW g,
         \A x \in S : f[x] \in Int,
         \A x \in S : g[x] = IF x = c THEN f[x] + v ELSE f[x]
  PROVE  SumFunctionOnSet(g, S) = SumFunctionOnSet(f, S) + v
<1> DEFINE d == [x \in S |-> IF x = c THEN v ELSE 0]
<1>1. SumFunctionOnSet(d, S) = v
  <2>1. \A x \in S : d[x] = IF x = c THEN v ELSE 0
    OBVIOUS
  <2> HIDE DEF d
  <2> QED BY <2>1, SumOfOne
<1>2. \A x \in S : f[x] \in Int /\ d[x] \in Int /\ g[x] = f[x] + d[x]
  OBVIOUS
<1> HIDE DEF d
<1>3. SumFunctionOnSet(g, S) = SumFunctionOnSet(f, S) + SumFunctionOnSet(d, S)
  BY <1>2, SumAdds
<1> QED BY <1>1, <1>3

\* Natural numbers add up to one that none of them exceeds.
LEMMA SumIsNatural ==
  ASSUME NEW S, IsFiniteSet(S), NEW f, \A x \in S : f[x] \in Nat
  PROVE  /\ SumFunctionOnSet(f, S) \in Nat
         /\ \A x \in S : f[x] <= SumFunctionOnSet(f, S)
<1>1. SumFunctionOnSet(f, S) \in Int
  BY SumIsInteger
<1>2. ASSUME NEW c \in S
      PROVE  f[c] <= SumFunctionOnSet(f, S) /\ 0 <= SumFunctionOnSet(f, S)
  <2> DEFINE g == [x \in S |-> IF x = c THEN f[c] ELSE 0]
  <2>1. f[c] \in Int /\ \A x \in S : g[x] = IF x = c THEN f[c] ELSE 0
    OBVIOUS
  <2>2. \A x \in S : g[x] \in Int /\ f[x] \in Int /\ g[x] <= f[x]
    OBVIOUS
  <2> HIDE DEF g
  <2>3. SumFunctionOnSet(g, S) = f[c]
    BY <2>1, SumOfOne
  <2>4. SumFunctionOnSet(g, S) <= SumFunctionOnSet(f, S)
    BY <2>2, SumIsMonotone
  <2> QED BY <1>1, <2>3, <2>4
<1>3. CASE S = {}
  <2>1. SumFunctionOnSet(f, S) = 0
    BY <1>3, SumUnfolds, SumIsIter
  <2> QED BY <1>3, <2>1
<1> QED BY <1>1, <1>2, <1>3

-------------------------------------------------------------------------------
(***************************************************************************)
(* Conservation. An idle handler carries no runtime; one that has passed   *)
(* the filter carries runtime of a monitored task, or runtime that is      *)
(* mistaken for it; what the filter drops of a monitored task is missed.   *)
(* Nothing is mistaken or missed where the task that the filter looks at   *)
(* is the one accounted, or all tasks are monitored.                       *)
(***************************************************************************)
IdleIsEmpty == \A e \in CPUs : prog[e].at = "idle" => prog[e].runtime = 0

Interest == [c \in CPUs |-> OfInterest(c)]

Account == SumFunctionOnSet(ns, CPUs) + SumFunctionOnSet(skipped, CPUs)
           + SumFunctionOnSet(InFlight, CPUs) + SumFunctionOnSet(Interest, CPUs)

Balanced == SumFunctionOnSet(used, CPUs) + mistaken = Account + missed

NothingMistaken == RightTaskIsCurrent => mistaken = 0 /\ missed = 0

LEMMA BalancedIsConserved ==
  TypeOK => (Balanced /\ NothingMistaken <=> TimeConserved)
<1> SUFFICES ASSUME TypeOK PROVE Balanced /\ NothingMistaken <=> TimeConserved
  OBVIOUS
<1>1. /\ DOMAIN used = CPUs /\ DOMAIN ns = CPUs /\ DOMAIN skipped = CPUs
      /\ DOMAIN InFlight = CPUs /\ DOMAIN [c \in CPUs |-> OfInterest(c)] = CPUs
  BY DEF TypeOK, Times, InFlight
<1>2. /\ SumFunction(used) = SumFunctionOnSet(used, CPUs)
      /\ SumFunction(ns) = SumFunctionOnSet(ns, CPUs)
      /\ SumFunction(skipped) = SumFunctionOnSet(skipped, CPUs)
      /\ SumFunction(InFlight) = SumFunctionOnSet(InFlight, CPUs)
      /\ SumFunction([c \in CPUs |-> OfInterest(c)]) = SumFunctionOnSet(Interest, CPUs)
  BY <1>1 DEF Interest, SumFunction
<1> QED BY <1>2 DEF Balanced, NothingMistaken, TimeConserved, Account

\* What the sums are of: natural numbers.
LEMMA Summands ==
  ASSUME TypeOK
  PROVE  \A c \in CPUs :
           /\ used[c] \in Int /\ ns[c] \in Int /\ skipped[c] \in Int
           /\ InFlight[c] = prog[c].runtime /\ InFlight[c] \in Int
           /\ Interest[c] = OfInterest(c) /\ Interest[c] \in Int
           /\ due[c] \in Nat
BY DEF TypeOK, Times, Programs, InFlight, Interest, OfInterest

LEMMA SumsAreIntegers ==
  ASSUME TypeOK
  PROVE  /\ SumFunctionOnSet(used, CPUs) \in Int
         /\ SumFunctionOnSet(ns, CPUs) \in Int
         /\ SumFunctionOnSet(skipped, CPUs) \in Int
         /\ SumFunctionOnSet(InFlight, CPUs) \in Int
         /\ SumFunctionOnSet(Interest, CPUs) \in Int
         /\ mistaken \in Nat /\ missed \in Nat
<1>1. mistaken \in Nat /\ missed \in Nat
  BY DEF TypeOK
<1> QED BY <1>1, CpuAssumption, Summands, SumIsInteger

\* A step by which two of the sums change, at one CPU each.
Moves(f, g, c, n) ==
  \A x \in CPUs : g[x] = IF x = c THEN f[x] + n ELSE f[x]

Stays(f, g) == \A x \in CPUs : g[x] = f[x]

LEMMA SumMoves ==
  ASSUME NEW f, NEW g, NEW c \in CPUs, NEW n \in Int,
         \A x \in CPUs : f[x] \in Int, Moves(f, g, c, n)
  PROVE  SumFunctionOnSet(g, CPUs) = SumFunctionOnSet(f, CPUs) + n
BY CpuAssumption, SumChangesAt DEF Moves

LEMMA SumStays ==
  ASSUME NEW f, NEW g, \A x \in CPUs : f[x] \in Int, Stays(f, g)
  PROVE  SumFunctionOnSet(g, CPUs) = SumFunctionOnSet(f, CPUs)
<1>1. PICK c \in CPUs : TRUE
  BY CpuAssumption
<1>2. Moves(f, g, c, 0)
  BY DEF Moves, Stays
<1>3. SumFunctionOnSet(g, CPUs) = SumFunctionOnSet(f, CPUs) + 0
  BY <1>2, SumMoves
<1>4. SumFunctionOnSet(f, CPUs) \in Int
  BY CpuAssumption, SumIsInteger
<1> QED BY <1>3, <1>4

LEMMA BalancedInit == Init => IdleIsEmpty /\ Balanced /\ NothingMistaken
<1> SUFFICES ASSUME Init PROVE IdleIsEmpty /\ Balanced /\ NothingMistaken
  OBVIOUS
<1>1. TypeOK
  BY TypeInit
<1>2. IdleIsEmpty
  BY DEF Init, IdleIsEmpty, Quiet
<1>3. /\ Stays(Zero, ns) /\ Stays(Zero, skipped) /\ Stays(Zero, InFlight)
      /\ Stays(used, Interest)
  BY <1>1, Summands DEF Init, Quiet, Zero, Stays
<1>4. SumFunctionOnSet(Interest, CPUs) = SumFunctionOnSet(used, CPUs)
  BY <1>1, <1>3, Summands, SumStays
<1>5. PICK c \in CPUs : TRUE
  BY CpuAssumption
<1>6. SumFunctionOnSet(Zero, CPUs) = 0
  BY <1>5, CpuAssumption, ZeroType, SumOfOne
<1>7. \A x \in CPUs : Zero[x] \in Int
  BY ZeroType
<1>8. /\ SumFunctionOnSet(ns, CPUs) = 0 /\ SumFunctionOnSet(skipped, CPUs) = 0
      /\ SumFunctionOnSet(InFlight, CPUs) = 0
  BY <1>3, <1>6, <1>7, SumStays
<1>9. mistaken = 0 /\ missed = 0
  BY DEF Init
<1> QED BY <1>1, <1>2, <1>4, <1>8, <1>9, SumsAreIntegers
    DEF Balanced, NothingMistaken, Account

\* The filter looks at the task accounted if both are on the same CPU, and lets
\* every task through if all are monitored.
LEMMA NothingMistakenStep ==
  TypeOK /\ NothingMistaken /\ [Next]_vars => NothingMistaken'
<1> SUFFICES ASSUME TypeOK, NothingMistaken, [Next]_vars PROVE NothingMistaken'
  OBVIOUS
<1> USE DEF NothingMistaken, RightTaskIsCurrent
<1>1. ASSUME NEW e \in CPUs, NEW c \in CPUs, Event(e, c)
      PROVE  NothingMistaken'
  <2>1. setup' = setup /\ (e = c \/ setup.remote)
    BY <1>1 DEF Event
  <2>2. RightTaskIsCurrent => ~TargetForOther(e, c) /\ ~OtherForTarget(e, c)
    BY <2>1 DEF TargetForOther, OtherForTarget
  <2> QED BY <1>1, <2>1, <2>2 DEF Event
<1>2. ASSUME NEW e \in CPUs, Insert(e) \/ Relookup(e) \/ FetchAndAdd(e)
      PROVE  NothingMistaken'
  BY <1>2 DEF Insert, Relookup, FetchAndAdd, sched, wrong
<1>3. CASE Schedule \/ Method \/ UNCHANGED vars
  BY <1>3
  DEF Schedule, Run, Switch, Method, NewLoader, BeginRead, BaselineRead,
      ReadFails, Sample, Stop, ReadKey, sched, wrong, vars
<1> QED BY <1>1, <1>2, <1>3 DEF Next, Handle

LEMMA IdleIsEmptyStep == TypeOK /\ IdleIsEmpty /\ [Next]_vars => IdleIsEmpty'
<1> SUFFICES ASSUME TypeOK, IdleIsEmpty, [Next]_vars PROVE IdleIsEmpty'
  OBVIOUS
<1> USE Naturals DEF IdleIsEmpty
<1>1. ASSUME NEW e \in CPUs, NEW c \in CPUs, Event(e, c)
      PROVE  IdleIsEmpty'
  BY <1>1 DEF Event
<1>2. ASSUME NEW e \in CPUs, Insert(e) \/ Relookup(e) \/ FetchAndAdd(e)
      PROVE  IdleIsEmpty'
  BY <1>2 DEF Insert, Relookup, FetchAndAdd, Return, Quiet, Programs
<1>3. CASE Schedule \/ Method \/ UNCHANGED vars
  BY <1>3
  DEF Schedule, Run, Switch, Method, NewLoader, BeginRead, BaselineRead,
      ReadFails, Sample, Stop, ReadKey, kernel, vars
<1> QED BY <1>1, <1>2, <1>3 DEF Next, Handle

\* Time that is run becomes due.
LEMMA RunBalances ==
  ASSUME TypeOK, TypeOK', Balanced, NEW c \in CPUs, Run(c)
  PROVE  Balanced'
<1>1. ns' = ns /\ skipped' = skipped /\ InFlight' = InFlight
  BY DEF Run, kernel, InFlight
<1>2. used \in Times /\ due \in Times /\ due' = Add(due, c, 1)
  BY DEF Run, TypeOK
<1>3. \A x \in CPUs : due'[x] = IF x = c THEN due[x] + 1 ELSE due[x]
  BY <1>2, AddTo
<1>4. mistaken' = mistaken /\ missed' = missed
  BY DEF Run, wrong
<1>5. CASE Monitored(c)
  <2>1. used' = Add(used, c, 1)
    BY <1>5 DEF Run
  <2>2. Moves(used, used', c, 1)
    BY <1>2, <2>1, AddTo DEF Moves
  <2>3. Moves(Interest, Interest', c, 1)
    BY <1>3, <1>5 DEF Run, Moves, Interest, OfInterest, Monitored
  <2>4. /\ SumFunctionOnSet(used', CPUs) = SumFunctionOnSet(used, CPUs) + 1
        /\ SumFunctionOnSet(Interest', CPUs) = SumFunctionOnSet(Interest, CPUs) + 1
    BY <2>2, <2>3, Summands, SumMoves
  <2> QED BY <1>1, <1>4, <2>4, SumsAreIntegers DEF Balanced, Account
<1>6. CASE ~Monitored(c)
  <2>1. used' = used
    BY <1>6 DEF Run
  <2>2. Interest' = Interest
    BY <1>3, <1>6 DEF Run, Interest, OfInterest, Monitored
  <2> QED BY <1>1, <1>4, <2>1, <2>2 DEF Balanced, Account
<1> QED BY <1>5, <1>6

\* A switch is accounted before: nothing is due on its CPU.
LEMMA SwitchBalances ==
  ASSUME TypeOK, Balanced, NEW c \in CPUs, NEW task, Switch(c, task)
  PROVE  Balanced'
<1>1. /\ used' = used /\ ns' = ns /\ skipped' = skipped /\ InFlight' = InFlight
      /\ mistaken' = mistaken /\ missed' = missed
  BY DEF Switch, kernel, InFlight, wrong
<1>2. \A x \in CPUs : x # c => runs'[x] = runs[x]
  BY DEF Switch, TypeOK
<1>3. Interest' = Interest
  BY <1>2 DEF Switch, Interest, OfInterest, Monitored
<1> QED BY <1>1, <1>3 DEF Balanced, Account

\* What was due on c is in the handler on e, or dropped.
LEMMA EventBalances ==
  ASSUME TypeOK, IdleIsEmpty, Balanced, NEW e \in CPUs, NEW c \in CPUs, Event(e, c)
  PROVE  Balanced'
<1>1. used' = used /\ ns' = ns /\ skipped' = skipped
  BY DEF Event
<1>2. /\ due[c] \in Nat
      /\ \A x \in CPUs : due'[x] = IF x = c THEN 0 ELSE due[x]
  BY DEF Event, TypeOK, Times
<1>3. prog[e].runtime = 0
  BY DEF Event, IdleIsEmpty
\* Whether it is of interest, and whether it is let through.
<1>4. SumFunctionOnSet(Interest', CPUs) =
        SumFunctionOnSet(Interest, CPUs) + IF Monitored(c) THEN -due[c] ELSE 0
  <2>1. CASE Monitored(c)
    <3>1. Moves(Interest, Interest', c, -due[c])
      BY <1>2, <2>1 DEF Event, Moves, Interest, OfInterest, Monitored
    <3> QED BY <1>2, <2>1, <3>1, Summands, SumMoves
  <2>2. CASE ~Monitored(c)
    <3>1. Interest' = Interest
      BY <1>2, <2>2 DEF Event, Interest, OfInterest, Monitored
    <3> QED BY <2>2, <3>1, SumsAreIntegers
  <2> QED BY <2>1, <2>2
<1>5. SumFunctionOnSet(InFlight', CPUs) =
        SumFunctionOnSet(InFlight, CPUs) + IF Filter(e) THEN due[c] ELSE 0
  <2>1. CASE Filter(e)
    <3>1. /\ prog'[e].runtime = due[c]
          /\ \A x \in CPUs : x # e => prog'[x] = prog[x]
      BY <2>1, Naturals DEF Event
    <3>2. Moves(InFlight, InFlight', e, due[c])
      BY <1>2, <1>3, <3>1 DEF Moves, InFlight
    <3> QED BY <1>2, <2>1, <3>2, Summands, SumMoves
  <2>2. CASE ~Filter(e)
    <3>1. InFlight' = InFlight
      BY <2>2 DEF Event, InFlight
    <3> QED BY <2>2, <3>1, SumsAreIntegers
  <2> QED BY <2>1, <2>2
\* The two agree but for what is mistaken and missed.
<1>6. /\ mistaken' = mistaken + IF Filter(e) /\ ~Monitored(c) THEN due[c] ELSE 0
      /\ missed' = missed + IF ~Filter(e) /\ Monitored(c) THEN due[c] ELSE 0
  <2>1. runs[c] \in {"target", "other"}
    BY DEF Event, TypeOK
  <2>2. TargetForOther(e, c) <=> Filter(e) /\ ~Monitored(c)
    BY <2>1 DEF TargetForOther, Filter, Monitored
  <2>3. OtherForTarget(e, c) <=> ~Filter(e) /\ Monitored(c)
    BY <2>1 DEF OtherForTarget, Filter, Monitored
  <2>4. /\ mistaken' = IF TargetForOther(e, c) THEN mistaken + due[c] ELSE mistaken
        /\ missed' = IF OtherForTarget(e, c) THEN missed + due[c] ELSE missed
    BY DEF Event
  <2> QED BY <1>2, <2>2, <2>3, <2>4, SumsAreIntegers
<1> QED BY <1>1, <1>2, <1>4, <1>5, <1>6, SumsAreIntegers DEF Balanced, Account

\* A handler that is done: its runtime is in its counter, or was refused.
LEMMA ReturnBalances ==
  ASSUME TypeOK, Balanced, NEW e \in CPUs, Return(e), UNCHANGED sched,
         \/ ns' = Add(ns, e, prog[e].runtime) /\ skipped' = skipped
         \/ skipped' = Add(skipped, e, prog[e].runtime) /\ ns' = ns
  PROVE  Balanced'
<1> DEFINE n == prog[e].runtime
<1>1. /\ used' = used /\ Interest' = Interest
      /\ mistaken' = mistaken /\ missed' = missed
  BY DEF sched, wrong, Interest, OfInterest, Monitored
<1>2. n \in Nat
  BY Naturals
<1>3. /\ prog'[e].runtime = 0
      /\ \A x \in CPUs : x # e => prog'[x] = prog[x]
  BY Naturals DEF Return, Quiet
<1>4. Moves(InFlight, InFlight', e, -n)
  BY <1>2, <1>3 DEF Moves, InFlight
<1> HIDE DEF n
<1>5. SumFunctionOnSet(InFlight', CPUs) = SumFunctionOnSet(InFlight, CPUs) + (-n)
  BY <1>2, <1>4, Summands, SumMoves
<1>6. CASE ns' = Add(ns, e, n) /\ skipped' = skipped
  <2>1. Moves(ns, ns', e, n)
    BY <1>2, <1>6, AddedTo DEF Moves
  <2>2. SumFunctionOnSet(ns', CPUs) = SumFunctionOnSet(ns, CPUs) + n
    BY <1>2, <2>1, Summands, SumMoves
  <2> QED BY <1>1, <1>2, <1>5, <1>6, <2>2, SumsAreIntegers DEF Balanced, Account
<1>7. CASE skipped' = Add(skipped, e, n) /\ ns' = ns
  <2>1. Moves(skipped, skipped', e, n)
    BY <1>2, <1>7, AddedTo DEF Moves
  <2>2. SumFunctionOnSet(skipped', CPUs) = SumFunctionOnSet(skipped, CPUs) + n
    BY <1>2, <2>1, Summands, SumMoves
  <2> QED BY <1>1, <1>2, <1>5, <1>7, <2>2, SumsAreIntegers DEF Balanced, Account
<1> QED BY <1>6, <1>7 DEF n

LEMMA BalancedStep ==
  TypeOK /\ KernelInv /\ IdleIsEmpty /\ Balanced /\ [Next]_vars => Balanced'
<1> SUFFICES ASSUME TypeOK, KernelInv, IdleIsEmpty, Balanced, [Next]_vars
             PROVE  Balanced'
  OBVIOUS
<1>0. TypeOK'
  BY TypeStep
<1>1. ASSUME NEW c \in CPUs, Run(c)
      PROVE  Balanced'
  BY <1>0, <1>1, RunBalances
<1>2. ASSUME NEW c \in CPUs, NEW task \in {"target", "other", "idle"},
             Switch(c, task)
      PROVE  Balanced'
  BY <1>2, SwitchBalances
<1>3. ASSUME NEW e \in CPUs, NEW c \in CPUs, Event(e, c)
      PROVE  Balanced'
  BY <1>3, EventBalances
<1>4. ASSUME UNCHANGED <<sched, ns, skipped>>, InFlight' = InFlight
      PROVE  Balanced'
  BY <1>4
  DEF sched, wrong, Balanced, Account, Interest, OfInterest, Monitored
<1>5. ASSUME NEW e \in CPUs, Insert(e)
      PROVE  Balanced'
  <2>1. ns' = ns
    <3>1. Key(e) \in keys \/ ns[e] = 0
      BY DEF KernelInv, Absent, Key
    <3>2. Key(e) \notin keys
      BY <1>5 DEF Insert, KernelInv, Key
    <3> QED BY <1>5, <3>1, <3>2 DEF Insert, Key, TypeOK, Times
  <2>2. \A x \in CPUs : prog'[x].runtime = prog[x].runtime
    BY <1>5, Naturals DEF Insert, Programs
  <2>3. InFlight' = InFlight
    BY <2>2 DEF InFlight
  <2> QED BY <1>4, <1>5, <2>1, <2>3 DEF Insert
<1>6. ASSUME NEW e \in CPUs, Relookup(e)
      PROVE  Balanced'
  <2>1. CASE Key(e) \in keys
    <3>1. \A x \in CPUs : prog'[x].runtime = prog[x].runtime
      BY <1>6, <2>1, Naturals DEF Relookup, Programs
    <3>2. InFlight' = InFlight
      BY <3>1 DEF InFlight
    <3> QED BY <1>4, <1>6, <2>1, <3>2 DEF Relookup
  <2>2. CASE Key(e) \notin keys
    BY <1>6, <2>2, ReturnBalances DEF Relookup, Key
  <2> QED BY <2>1, <2>2
<1>7. ASSUME NEW e \in CPUs, FetchAndAdd(e)
      PROVE  Balanced'
  BY <1>7, ReturnBalances DEF FetchAndAdd, Key
<1>8. CASE Method \/ UNCHANGED vars
  BY <1>4, <1>8
  DEF Method, NewLoader, BeginRead, BaselineRead, ReadFails, Sample, Stop, ReadKey,
      kernel, vars, InFlight
<1> QED
  BY <1>1, <1>2, <1>3, <1>5, <1>6, <1>7, <1>8 DEF Next, Schedule, Handle

LEMMA BalanceInvariant ==
  Spec => [](/\ TypeOK /\ KernelInv /\ MeterInv
             /\ IdleIsEmpty /\ Balanced /\ NothingMistaken)
BY TypeInit, TypeStep, KernelInit, KernelStep, MeterInit, MeterStep,
   BalancedInit, IdleIsEmptyStep, BalancedStep, NothingMistakenStep, PTL DEF Spec

\* kernel_bpf.c: no unit of monitored time is lost or counted twice on its way
\* from the scheduler into the counters, for any number of CPUs, but for what the
\* filter mistakes; and that is nothing unless a target is accounted remotely.
THEOREM TimeIsConserved == Spec => []TimeConserved
BY BalanceInvariant, BalancedIsConserved, PTL

\* What is charged was read from the counters after the baseline.
LEMMA ChargedIsCounted ==
  ASSUME TypeOK, MeterInv
  PROVE  SumFunctionOnSet(charged, CPUs) <= SumFunctionOnSet(ns, CPUs)
<1>1. \A c \in CPUs : charged[c] \in Int /\ ns[c] \in Int /\ charged[c] <= ns[c]
  BY Naturals DEF MeterInv, Below
<1> QED BY <1>1, CpuAssumption, SumIsMonotone

LEMMA CountedIsUsed ==
  ASSUME TypeOK, Balanced
  PROVE  SumFunctionOnSet(ns, CPUs) <= SumFunctionOnSet(used, CPUs) + mistaken
<1>1. \A c \in CPUs : skipped[c] \in Nat /\ InFlight[c] \in Nat /\ Interest[c] \in Nat
  BY Naturals, Summands DEF OfInterest
<1>2. /\ SumFunctionOnSet(skipped, CPUs) \in Nat
      /\ SumFunctionOnSet(InFlight, CPUs) \in Nat
      /\ SumFunctionOnSet(Interest, CPUs) \in Nat
  BY <1>1, CpuAssumption, SumIsNatural
<1> QED BY <1>2, SumsAreIntegers DEF Balanced, Account

\* loader.go:55-58: a run is charged no time but that of its target, or of its
\* system, however reads, failures and handlers interleave; with one exception,
\* the time of others that is accounted from where the target is current.
THEOREM NoOtherTime == Spec => []OnlyTargetTime
<1>1. TypeOK /\ MeterInv /\ Balanced /\ NothingMistaken => OnlyTargetTime
  <2> SUFFICES ASSUME TypeOK, MeterInv, Balanced, NothingMistaken
               PROVE  OnlyTargetTime
    OBVIOUS
  <2>1. DOMAIN charged = CPUs /\ DOMAIN used = CPUs
    BY DEF TypeOK, Times
  <2>2. SumFunctionOnSet(charged, CPUs) \in Int
    BY Naturals, CpuAssumption, SumIsInteger
  <2>3. SumFunctionOnSet(charged, CPUs) <= SumFunctionOnSet(used, CPUs) + mistaken
    BY <2>2, ChargedIsCounted, CountedIsUsed, SumsAreIntegers
  <2>4. RightTaskIsCurrent => mistaken = 0
    BY DEF NothingMistaken
  <2> QED BY <2>1, <2>3, <2>4 DEF SumFunction, OnlyTargetTime
<1> QED BY <1>1, BalanceInvariant, PTL

-------------------------------------------------------------------------------
(***************************************************************************)
(* CpuPower. Since a reading, a counter has grown by no more than what the *)
(* clock allows the vcore to run, what was pending at the reading and what *)
(* other vcores have added. So the difference of two readings is bounded   *)
(* by the times at which they were made; Beyond is what is left of that    *)
(* when the interval is taken off.                                         *)
(***************************************************************************)
\* The counter of v has grown no faster since it held value, at the mark m.
GrewSince(v, value, m) ==
  /\ m.at <= clock /\ value <= counter[v]
  /\ counter[v] + pending[v] - foreign[v] - value <=
       (clock - m.at) + m.pending - m.foreign

\* The same between the last reading and the one under way.
GrewBetween(v) ==
  actualReadMap[v] + mark[v].pending - mark[v].foreign - lastReadMap[v] <=
    (mark[v].at - lastMark[v].at) + lastMark[v].pending - lastMark[v].foreign

Reading == stage \in {"baseline", "measuring"}

ReadThisTime(v) ==
  Reading /\ v \in read =>
    /\ GrewSince(v, actualReadMap[v], mark[v])
    /\ GrewBetween(v) /\ lastReadMap[v] <= actualReadMap[v]
    /\ now <= mark[v].at

LastReadInTime(v) ==
  /\ GrewSince(v, lastReadMap[v], lastMark[v])
  /\ lastReadTime <= lastMark[v].at \/ lastReadTime = begun

PowerInv ==
  /\ now <= clock /\ begun <= lastReadTime
  /\ stage = "baseline" => now = 0 /\ begun = 0 /\ lastReadTime = 0
  /\ stage = "started" => read = {}
  /\ PricedWithinWall
  /\ \A v \in VCores : ReadThisTime(v) /\ LastReadInTime(v)

LEMMA PowerNumbers ==
  ASSUME PowerTypeOK
  PROVE  /\ clock \in Nat /\ now \in Nat /\ begun \in Nat
         /\ lastReadTime \in Nat /\ lastReadTime <= now
         /\ Elapsed \in Nat
         /\ \A v \in VCores :
              /\ pending[v] \in Nat /\ counter[v] \in Nat /\ foreign[v] \in Nat
              /\ actualReadMap[v] \in Nat /\ lastReadMap[v] \in Nat
              /\ mark[v] \in Marks /\ lastMark[v] \in Marks
              /\ DeltaPerCPU(v) \in Nat
         /\ \A k \in Cores : priced[k] \in Nat
BY DEF PowerTypeOK, Elapsed, DeltaPerCPU

LEMMA MarkNumbers ==
  ASSUME NEW m \in Marks
  PROVE  m.at \in Nat /\ m.pending \in Nat /\ m.foreign \in Nat
BY DEF Marks

\* A core is charged at most the elapsed time, and less than that only if it is
\* charged all that each of its usable vcores has run.
LEMMA RunTimeBounds ==
  ASSUME PowerTypeOK, NEW k \in Cores, NEW usable \in SUBSET VCores
  PROVE  /\ RunTime(k, usable) \in Nat
         /\ RunTime(k, usable) <= Elapsed
         /\ \A v \in usable : CoreOf[v] = k =>
              RunTime(k, usable) = Elapsed \/ DeltaPerCPU(v) <= RunTime(k, usable)
<1> DEFINE f == [v \in VCores |-> DeltaPerCPU(v)]
           V == {v \in usable : CoreOf[v] = k}
           sum == SumFunctionOnSet(f, V)
<1>1. IsFiniteSet(V)
  BY PowerAssumption, FS_Subset
<1>2. \A v \in V : f[v] = DeltaPerCPU(v) /\ f[v] \in Nat
  BY PowerNumbers
<1>3. RunTime(k, usable) = IF sum > Elapsed THEN Elapsed ELSE sum
  BY DEF RunTime
<1> HIDE DEF f
<1>4. sum \in Nat /\ \A v \in V : f[v] <= sum
  <2> HIDE DEF V
  <2> QED BY <1>1, <1>2, SumIsNatural
<1> HIDE DEF sum
<1>5. Elapsed \in Nat
  BY PowerNumbers
<1> QED BY <1>2, <1>3, <1>4, <1>5

\* What a sample cuts: the core is charged the elapsed time, and the difference of
\* the readings is bounded by the times at which they were made.
LEMMA InvBoundsCut == PowerTypeOK /\ PowerInv => CutIsBounded
<1> SUFFICES ASSUME PowerTypeOK, PowerInv, stage = "measuring", read = VCores,
                    NEW usable \in SUBSET OnCores, NEW v \in usable,
                    DeltaPerCPU(v) - RunTime(CoreOf[v], usable) > 0
             PROVE  DeltaPerCPU(v) - RunTime(CoreOf[v], usable) <= Beyond(v)
  BY DEF CutIsBounded
<1>1. v \in VCores /\ CoreOf[v] \in Cores /\ usable \in SUBSET VCores
  BY PowerAssumption DEF OnCores
<1>2. RunTime(CoreOf[v], usable) = now - lastReadTime
  <2>1. RunTime(CoreOf[v], usable) = Elapsed
        \/ DeltaPerCPU(v) <= RunTime(CoreOf[v], usable)
    BY <1>1, RunTimeBounds
  <2>2. RunTime(CoreOf[v], usable) \in Nat /\ DeltaPerCPU(v) \in Nat
    BY <1>1, RunTimeBounds, PowerNumbers
  <2> QED BY <2>1, <2>2 DEF Elapsed
<1>3. GrewBetween(v) /\ lastReadMap[v] <= actualReadMap[v]
  BY <1>1 DEF PowerInv, ReadThisTime, Reading
<1>4. lastReadTime - lastMark[v].at <= Early(v)
  <2>1. lastReadTime <= lastMark[v].at \/ lastReadTime = begun
    BY <1>1 DEF PowerInv, LastReadInTime
  <2> QED BY <1>1, <2>1, PowerNumbers, MarkNumbers DEF Early
<1>5. DeltaPerCPU(v) = actualReadMap[v] - lastReadMap[v]
  BY <1>1, <1>3, PowerNumbers DEF DeltaPerCPU
<1>6. Early(v) \in Int
  BY <1>1, PowerNumbers, MarkNumbers DEF Early
<1> QED BY <1>1, <1>2, <1>3, <1>4, <1>5, <1>6, PowerNumbers, MarkNumbers
    DEF GrewBetween, Beyond

LEMMA NoTimeNoMark ==
  /\ NoTime \in [VCores -> Nat] /\ NoMark \in [VCores -> Marks]
  /\ \A v \in VCores : /\ NoTime[v] = 0
                       /\ NoMark[v].at = 0 /\ NoMark[v].pending = 0
                       /\ NoMark[v].foreign = 0
BY DEF NoTime, NoMark, Marks

LEMMA PowerInitial == PowerInit => PowerTypeOK /\ PowerInv
<1> SUFFICES ASSUME PowerInit PROVE PowerTypeOK /\ PowerInv
  OBVIOUS
<1>1. PowerTypeOK
  BY NoTimeNoMark DEF PowerInit, PowerTypeOK
<1>2. PricedWithinWall
  BY DEF PowerInit, PricedWithinWall
<1>3. ASSUME NEW v \in VCores PROVE ReadThisTime(v) /\ LastReadInTime(v)
  BY NoTimeNoMark DEF PowerInit, ReadThisTime, LastReadInTime, GrewSince
<1> QED BY <1>1, <1>2, <1>3 DEF PowerInit, PowerInv

LEMMA PowerTypeStep ==
  PowerTypeOK /\ PowerInv /\ [PowerNext]_powerVars => PowerTypeOK'
<1> SUFFICES ASSUME PowerTypeOK, PowerInv, [PowerNext]_powerVars PROVE PowerTypeOK'
  OBVIOUS
<1> USE DEF machine, reading, ledger
<1>1. ASSUME NEW busy \in SUBSET VCores, Tick(busy)
      PROVE  PowerTypeOK'
  <2>1. pending' \in [VCores -> Nat]
    BY <1>1, PowerNumbers DEF Tick
  <2> QED BY <1>1, <2>1 DEF Tick, PowerTypeOK
<1>2. ASSUME NEW v \in VCores, NEW e \in VCores, Accounted(v, e)
      PROVE  PowerTypeOK'
  <2>1. /\ pending' \in [VCores -> Nat] /\ counter' \in [VCores -> Nat]
        /\ foreign' \in [VCores -> Nat]
    BY <1>2, PowerNumbers DEF Accounted, PowerTypeOK
  <2> QED BY <1>2, <2>1 DEF Accounted, PowerTypeOK
<1>3. ASSUME NEW v \in VCores, NotCounted(v)
      PROVE  PowerTypeOK'
  BY <1>3 DEF NotCounted, PowerTypeOK
<1>4. ASSUME NEW v \in VCores, ReadVCore(v)
      PROVE  PowerTypeOK'
  <2>1. actualReadMap' \in [VCores -> Nat]
    BY <1>4, PowerNumbers DEF ReadVCore, PowerTypeOK
  <2>2. mark' \in [VCores -> Marks]
    <3>1. [at |-> clock, pending |-> pending[v], foreign |-> foreign[v]] \in Marks
      BY PowerNumbers DEF Marks
    <3> QED BY <1>4, <3>1 DEF ReadVCore, PowerTypeOK
  <2> QED BY <1>4, <2>1, <2>2 DEF ReadVCore, PowerTypeOK
<1>5. CASE PowerBaseline
  BY <1>5, NoTimeNoMark DEF PowerBaseline, PowerTypeOK, Forget
<1>6. CASE BeginMeasure
  <2>1. lastReadTime' \in 0..now'
    BY <1>6, PowerNumbers DEF BeginMeasure
  <2> QED BY <1>6, <2>1 DEF BeginMeasure, PowerTypeOK
<1>7. CASE PowerReadFails
  BY <1>7, NoTimeNoMark DEF PowerReadFails, PowerTypeOK, Forget
<1>8. CASE PowerStop \/ UNCHANGED powerVars
  BY <1>8 DEF PowerStop, powerVars, PowerTypeOK
<1>9. ASSUME NEW usable \in SUBSET OnCores, PowerSample(usable)
      PROVE  PowerTypeOK'
  <2>1. priced' \in [Cores -> Nat]
    <3>1. \A k \in Cores : priced[k] + RunTime(k, usable) \in Nat
      BY PowerNumbers, RunTimeBounds DEF OnCores
    <3> QED BY <1>9, <3>1 DEF PowerSample
  <2>2. lastReadTime' \in 0..now'
    BY <1>9, PowerNumbers DEF PowerSample
  <2> QED BY <1>9, <2>1, <2>2, NoTimeNoMark DEF PowerSample, PowerTypeOK, Forget
<1> QED BY <1>1, <1>2, <1>3, <1>4, <1>5, <1>6, <1>7, <1>8, <1>9 DEF PowerNext

\* A step of the machine: a counter, with what is pending and without what others
\* have run, grows no faster than the clock.
MachineSteps(v) ==
  /\ clock <= clock' /\ counter[v] <= counter'[v]
  /\ counter'[v] + pending'[v] - foreign'[v] <=
       counter[v] + pending[v] - foreign[v] + (clock' - clock)

LEMMA MachineKeepsPace ==
  ASSUME PowerTypeOK, PowerTypeOK', NEW v \in VCores,
         \/ \E busy \in SUBSET VCores : Tick(busy)
         \/ \E w, e \in VCores : Accounted(w, e)
         \/ \E w \in VCores : NotCounted(w)
  PROVE  MachineSteps(v)
<1> USE PowerNumbers DEF MachineSteps
<1>1. ASSUME NEW busy \in SUBSET VCores, Tick(busy) PROVE MachineSteps(v)
  BY <1>1 DEF Tick
<1>2. ASSUME NEW w \in VCores, NEW e \in VCores, Accounted(w, e)
      PROVE  MachineSteps(v)
  <2>1. clock' = clock
    BY <1>2 DEF Accounted
  <2>2. pending'[v] = IF v = w THEN 0 ELSE pending[v]
    BY <1>2 DEF Accounted, PowerTypeOK
  <2>3. counter'[v] = IF v = e THEN counter[v] + pending[w] ELSE counter[v]
    BY <1>2 DEF Accounted, PowerTypeOK
  <2>4. foreign'[v] = IF v = e /\ e # w THEN foreign[v] + pending[w] ELSE foreign[v]
    BY <1>2 DEF Accounted, PowerTypeOK
  <2> QED BY <2>1, <2>2, <2>3, <2>4
<1>3. ASSUME NEW w \in VCores, NotCounted(w) PROVE MachineSteps(v)
  BY <1>3 DEF NotCounted, PowerTypeOK
<1> QED BY <1>1, <1>2, <1>3

LEMMA GrowthContinues ==
  ASSUME PowerTypeOK, PowerTypeOK', NEW v \in VCores, MachineSteps(v),
         NEW value \in Nat, NEW m \in Marks, GrewSince(v, value, m)
  PROVE  /\ m.at <= clock' /\ value <= counter'[v]
         /\ counter'[v] + pending'[v] - foreign'[v] - value <=
              (clock' - m.at) + m.pending - m.foreign
<1>1. /\ clock \in Nat /\ counter[v] \in Nat /\ pending[v] \in Nat
      /\ foreign[v] \in Nat
  BY PowerNumbers
<1>2. /\ clock' \in Nat /\ counter'[v] \in Nat /\ pending'[v] \in Nat
      /\ foreign'[v] \in Nat
  BY DEF PowerTypeOK
<1> QED BY <1>1, <1>2, MarkNumbers DEF MachineSteps, GrewSince

LEMMA PowerStep ==
  PowerTypeOK /\ PowerInv /\ [PowerNext]_powerVars => PowerInv'
<1> SUFFICES ASSUME PowerTypeOK, PowerInv, [PowerNext]_powerVars PROVE PowerInv'
  OBVIOUS
<1> USE DEF machine, reading, ledger
<1>0. PowerTypeOK'
  BY PowerTypeStep
<1>1. ASSUME \/ \E busy \in SUBSET VCores : Tick(busy)
             \/ \E w, e \in VCores : Accounted(w, e)
             \/ \E w \in VCores : NotCounted(w)
      PROVE  PowerInv'
  <2>1. /\ clock <= clock'
        /\ UNCHANGED <<stage, reading, ledger>>
    BY <1>1, PowerNumbers DEF Tick, Accounted, NotCounted
  <2>2. now' <= clock'
    BY <1>0, <2>1, PowerNumbers DEF PowerInv, PowerTypeOK
  <2>3. ASSUME NEW v \in VCores PROVE ReadThisTime(v)' /\ LastReadInTime(v)'
    <3>1. MachineSteps(v)
      BY <1>0, <1>1, MachineKeepsPace
    <3>2. /\ actualReadMap[v] \in Nat /\ lastReadMap[v] \in Nat
          /\ mark[v] \in Marks /\ lastMark[v] \in Marks
      BY PowerNumbers
    <3>3. ReadThisTime(v) /\ LastReadInTime(v)
      BY DEF PowerInv
    <3>4. LastReadInTime(v)'
      BY <1>0, <2>1, <3>1, <3>2, <3>3, GrowthContinues DEF LastReadInTime, GrewSince
    <3>5. ReadThisTime(v)'
      BY <1>0, <2>1, <3>1, <3>2, <3>3, GrowthContinues
      DEF ReadThisTime, GrewSince, GrewBetween, Reading
    <3> QED BY <3>4, <3>5
  <2> QED BY <2>1, <2>2, <2>3 DEF PowerInv, PricedWithinWall
<1>2. ASSUME NEW w \in VCores, ReadVCore(w)
      PROVE  PowerInv'
  <2>1. /\ UNCHANGED <<machine, stage, now, ledger>> /\ read' = read \cup {w}
        /\ Reading /\ stage # "started"
    BY <1>2 DEF ReadVCore, Reading
  <2>2. /\ actualReadMap'[w] = counter[w]
        /\ mark'[w].at = clock /\ mark'[w].pending = pending[w]
        /\ mark'[w].foreign = foreign[w]
        /\ \A v \in VCores : v # w =>
             actualReadMap'[v] = actualReadMap[v] /\ mark'[v] = mark[v]
    BY <1>2 DEF ReadVCore, PowerTypeOK
  <2>3. ASSUME NEW v \in VCores PROVE ReadThisTime(v)' /\ LastReadInTime(v)'
    <3>1. ReadThisTime(v) /\ LastReadInTime(v)
      BY DEF PowerInv
    <3>2. LastReadInTime(v)'
      BY <2>1, <3>1 DEF LastReadInTime, GrewSince
    <3>3. CASE v = w
      <4>1. GrewSince(v, actualReadMap[v], mark[v])'
        BY <2>1, <2>2, <3>3, PowerNumbers DEF GrewSince
      <4>2. GrewBetween(v)' /\ lastReadMap'[v] <= actualReadMap'[v]
        BY <2>1, <2>2, <3>1, <3>3, PowerNumbers, MarkNumbers
        DEF LastReadInTime, GrewSince, GrewBetween
      <4>3. now' <= mark'[v].at
        BY <2>1, <2>2, <3>3 DEF PowerInv
      <4> QED BY <3>2, <4>1, <4>2, <4>3 DEF ReadThisTime
    <3>4. CASE v # w
      BY <2>1, <2>2, <3>1, <3>2, <3>4
      DEF ReadThisTime, GrewSince, GrewBetween, Reading
    <3> QED BY <3>3, <3>4
  <2> QED BY <2>1, <2>3 DEF PowerInv, PricedWithinWall
<1>3. CASE PowerBaseline
  <2>1. /\ UNCHANGED <<machine, priced>>
        /\ stage = "baseline" /\ stage' = "started" /\ read = VCores /\ read' = {}
        /\ lastReadMap' = actualReadMap /\ lastMark' = mark
        /\ lastReadTime' = clock /\ begun' = clock /\ now' = clock
    BY <1>3 DEF PowerBaseline, Forget
  <2>2. PricedWithinWall'
    BY <2>1, PowerNumbers DEF PricedWithinWall, PowerInv
  <2>3. ASSUME NEW v \in VCores PROVE ReadThisTime(v)' /\ LastReadInTime(v)'
    <3>1. GrewSince(v, actualReadMap[v], mark[v])
      BY <2>1 DEF PowerInv, ReadThisTime, Reading
    <3> QED BY <2>1, <3>1 DEF ReadThisTime, LastReadInTime, GrewSince, Reading
  <2> QED BY <2>1, <2>2, <2>3, PowerNumbers DEF PowerInv
<1>4. CASE BeginMeasure
  <2>1. /\ UNCHANGED <<machine, actualReadMap, mark, ledger>>
        /\ stage = "started" /\ stage' = "measuring" /\ now' = clock /\ read' = read
    BY <1>4 DEF BeginMeasure
  <2>2. ASSUME NEW v \in VCores PROVE ReadThisTime(v)' /\ LastReadInTime(v)'
    BY <2>1 DEF PowerInv, ReadThisTime, LastReadInTime, GrewSince, Reading
  <2> QED BY <2>1, <2>2, PowerNumbers DEF PowerInv, PricedWithinWall
<1>5. CASE PowerReadFails \/ PowerStop \/ UNCHANGED powerVars
  <2>1. CASE UNCHANGED powerVars
    BY <2>1
    DEF powerVars, PowerInv, PricedWithinWall, ReadThisTime, LastReadInTime,
        GrewSince, GrewBetween, Reading
  <2>2. CASE PowerReadFails \/ PowerStop
    <3>1. /\ UNCHANGED <<machine, now, ledger>>
          /\ stage' \notin {"baseline", "measuring"}
          /\ stage' = "started" => read' = {}
      BY <2>2 DEF PowerReadFails, PowerStop, Forget
    <3> QED BY <3>1 DEF PowerInv, PricedWithinWall, ReadThisTime, LastReadInTime,
                        GrewSince, Reading
  <2> QED BY <1>5, <2>1, <2>2
<1>6. ASSUME NEW usable \in SUBSET OnCores, PowerSample(usable)
      PROVE  PowerInv'
  <2>1. /\ UNCHANGED <<machine, now, begun>>
        /\ stage = "measuring" /\ stage' = "started" /\ read = VCores /\ read' = {}
        /\ lastReadMap' = actualReadMap /\ lastMark' = mark /\ lastReadTime' = now
    BY <1>6 DEF PowerSample, Forget
  <2>2. PricedWithinWall'
    <3>1. ASSUME NEW k \in Cores
          PROVE  priced'[k] <= lastReadTime' - begun'
      <4>1. priced'[k] = priced[k] + RunTime(k, usable)
        BY <1>6 DEF PowerSample
      <4>2. RunTime(k, usable) \in Nat /\ RunTime(k, usable) <= now - lastReadTime
        BY RunTimeBounds DEF Elapsed, OnCores
      <4>3. priced[k] <= lastReadTime - begun
        BY DEF PowerInv, PricedWithinWall
      <4> QED BY <2>1, <4>1, <4>2, <4>3, PowerNumbers
    <3> QED BY <3>1 DEF PricedWithinWall
  <2>3. ASSUME NEW v \in VCores PROVE ReadThisTime(v)' /\ LastReadInTime(v)'
    <3>1. GrewSince(v, actualReadMap[v], mark[v]) /\ now <= mark[v].at
      BY <2>1 DEF PowerInv, ReadThisTime, Reading
    <3> QED BY <2>1, <3>1 DEF ReadThisTime, LastReadInTime, GrewSince, Reading
  <2>4. now' <= clock' /\ begun' <= lastReadTime'
    BY <2>1, PowerNumbers DEF PowerInv
  <2> QED BY <2>1, <2>2, <2>3, <2>4 DEF PowerInv
<1> QED BY <1>1, <1>2, <1>3, <1>4, <1>5, <1>6 DEF PowerNext

LEMMA PowerInvariant == PowerSpec => [](PowerTypeOK /\ PowerInv)
BY PowerInitial, PowerTypeStep, PowerStep, PTL DEF PowerSpec

\* The clock, the readings and the ledger of the power model: types, always; no
\* elapsed time is negative.
THEOREM PowerTypeCorrect == PowerSpec => []PowerTypeOK
BY PowerInvariant, PTL

\* power.go:109-112: no core is ever priced for more time than has passed, for
\* any number of vcores, in any assignment to cores.
THEOREM CoresKeepToTheClock == PowerSpec => []PricedWithinWall
<1>1. PowerInv => PricedWithinWall
  BY DEF PowerInv
<1> QED BY <1>1, PowerInvariant, PTL

\* ebpf.go:106-107: cutting a core at the elapsed time takes nothing from a vcore
\* that it has run itself in the interval, wherever and whenever its run time is
\* accounted and however many reads have failed.
THEOREM CutsAreBounded == PowerSpec => []CutIsBounded
BY InvBoundsCut, PowerInvariant, PTL
===============================================================================
