-------------------------- MODULE NicTraffic_proofs --------------------------
(***************************************************************************)
(* Proofs about NicTraffic, for any CPUs, interfaces, map size, packet     *)
(* lengths and number of packets.                                          *)
(***************************************************************************)
EXTENDS NicTraffic, FiniteSetTheorems, TLAPS

-------------------------------------------------------------------------------
(***************************************************************************)
(* Types.                                                                  *)
(***************************************************************************)
\* Adding to one counter of one interface.
LEMMA Bump ==
  ASSUME NEW f \in Counters, NEW i \in Ifaces, NEW d \in Dirs, NEW n \in Nat
  PROVE  /\ [f EXCEPT ![i][d] = @ + n] \in Counters
         /\ \A j \in Ifaces, e \in Dirs :
              [f EXCEPT ![i][d] = @ + n][j][e] =
                IF j = i /\ e = d THEN f[j][e] + n ELSE f[j][e]
BY DEF Counters

LEMMA ZeroType == Zero \in Counters
BY DEF Zero, Counters

\* What a run of account_bytes carries while it is under way.
LEMMA Carried ==
  ASSUME TypeOK, NEW c \in CPUs, prog[c].at # "idle"
  PROVE  /\ prog[c].ifindex \in Ifaces /\ prog[c].dir \in Dirs
         /\ prog[c].len \in Nat
         /\ prog[c].at \in {"insert", "relookup", "add"}
<1>1. prog[c] \in Programs /\ prog[c].ifindex # 0
  BY DEF TypeOK
<1>2. /\ prog[c].ifindex \in Ifaces \cup {0} /\ prog[c].dir \in Dirs
      /\ prog[c].len \in Lens \cup {0}
      /\ prog[c].at \in {"idle", "insert", "relookup", "add"}
  BY <1>1 DEF Programs
<1>3. Lens \cup {0} \subseteq Nat
  BY NicAssumption
<1>4. prog[c].len \in Nat
  BY <1>2, <1>3, Zenon
<1> QED BY <1>1, <1>2, <1>4

LEMMA TypeInit == Init => TypeOK
<1> SUFFICES ASSUME Init PROVE TypeOK
  OBVIOUS
<1>1. Idle \in Programs
  BY DEF Idle, Programs, Dirs
<1>2. prog \in [CPUs -> Programs] /\ \A c \in CPUs : prog[c].at = "idle"
  BY <1>1 DEF Init, Idle
<1>3. packets \in 0..MaxPackets
  BY NicAssumption DEF Init
<1> HIDE DEF Zero, Counters
<1>4. /\ stats \in Counters /\ counted \in Counters /\ skipped \in Counters
      /\ atBegin \in Counters /\ out \in Counters /\ lastRead \in Counters
      /\ base \in Counters /\ charged \in Counters
  BY ZeroType DEF Init
<1> QED
  BY <1>2, <1>3, <1>4 DEF Init, TypeOK

LEMMA TypeStep == TypeOK /\ [Next]_vars => TypeOK'
<1> SUFFICES ASSUME TypeOK, [Next]_vars PROVE TypeOK'
  OBVIOUS
<1> USE NicAssumption DEF kernel, reader
<1>1. ASSUME NEW c \in CPUs, NEW i \in Ifaces, NEW d \in Dirs, NEW len \in Lens,
             Packet(c, i, d, len)
      PROVE  TypeOK'
  <2> DEFINE p == [at |-> IF i \in keys THEN "add" ELSE "insert",
                   ifindex |-> i, dir |-> d, len |-> len]
  <2>1. p \in Programs /\ p.ifindex # 0
    BY DEF Programs
  <2>2. prog' = [prog EXCEPT ![c] = p]
    BY <1>1 DEF Packet
  <2> HIDE DEF p
  <2>3. /\ prog' \in [CPUs -> Programs]
        /\ \A x \in CPUs : prog'[x].at # "idle" => prog'[x].ifindex # 0
    BY <2>1, <2>2 DEF TypeOK
  <2> QED BY <1>1, <2>3 DEF Packet, TypeOK
<1>2. ASSUME NEW c \in CPUs, Insert(c)
      PROVE  TypeOK'
  <2>1. /\ prog[c] \in Programs /\ prog[c].ifindex \in Ifaces
        /\ prog' = [prog EXCEPT ![c] = [prog[c] EXCEPT !.at = "relookup"]]
    BY <1>2, Carried DEF Insert, TypeOK
  <2>2. /\ prog' \in [CPUs -> Programs]
        /\ \A x \in CPUs : prog'[x].at # "idle" => prog'[x].ifindex # 0
    BY <2>1 DEF TypeOK, Programs
  <2>3. keys' \in SUBSET Ifaces
    BY <1>2, <2>1 DEF Insert, TypeOK
  <2> QED BY <1>2, <2>2, <2>3 DEF Insert, TypeOK
<1>3. ASSUME NEW c \in CPUs, Relookup(c)
      PROVE  TypeOK'
  <2>1. /\ prog[c] \in Programs /\ prog[c].ifindex \in Ifaces
        /\ prog[c].dir \in Dirs /\ prog[c].len \in Nat
    BY <1>3, Carried DEF Relookup, TypeOK
  <2>2. CASE prog[c].ifindex \in keys
    <3>1. prog' = [prog EXCEPT ![c] = [prog[c] EXCEPT !.at = "add"]]
      BY <1>3, <2>2 DEF Relookup
    <3>2. /\ prog' \in [CPUs -> Programs]
          /\ \A x \in CPUs : prog'[x].at # "idle" => prog'[x].ifindex # 0
      BY <2>1, <3>1 DEF TypeOK, Programs
    <3> QED BY <1>3, <2>2, <3>2 DEF Relookup, TypeOK
  <2>3. CASE prog[c].ifindex \notin keys
    <3>1. counted' \in Counters /\ skipped' \in Counters
      BY <1>3, <2>1, <2>3, Bump DEF Relookup, TypeOK
    <3>2. /\ prog' \in [CPUs -> Programs]
          /\ \A x \in CPUs : prog'[x].at # "idle" => prog'[x].ifindex # 0
      BY <1>3, <2>3 DEF Relookup, Finish, Idle, TypeOK, Programs, Dirs
    <3> QED BY <1>3, <2>3, <3>1, <3>2 DEF Relookup, TypeOK
  <2> QED BY <2>2, <2>3
<1>4. ASSUME NEW c \in CPUs, Add(c)
      PROVE  TypeOK'
  <2>1. /\ prog[c].ifindex \in Ifaces /\ prog[c].dir \in Dirs
        /\ prog[c].len \in Nat
    BY <1>4, Carried DEF Add
  <2>2. stats' \in Counters /\ counted' \in Counters
    BY <1>4, <2>1, Bump DEF Add, TypeOK
  <2>3. /\ prog' \in [CPUs -> Programs]
        /\ \A x \in CPUs : prog'[x].at # "idle" => prog'[x].ifindex # 0
    BY <1>4 DEF Add, Finish, Idle, TypeOK, Programs, Dirs
  <2> QED BY <1>4, <2>2, <2>3 DEF Add, TypeOK
<1>5. CASE Start \/ Measure
  BY <1>5, ZeroType DEF Start, Measure, BeginRead, TypeOK
<1>6. ASSUME NEW i \in Ifaces, ReadKey(i)
      PROVE  TypeOK'
  <2>1. out' \in Counters
    BY <1>6 DEF ReadKey, TypeOK, Counters
  <2> QED BY <1>6, <2>1 DEF ReadKey, TypeOK
<1>7. CASE AttachPrograms \/ AttachFails \/ BaselineRead \/ BaselineFails
           \/ MeasureFails \/ Stop
  BY <1>7
  DEF AttachPrograms, AttachFails, BaselineRead, BaselineFails, MeasureFails,
      Stop, TypeOK
<1>8. CASE Sample
  <2>1. ASSUME NEW i \in Ifaces, NEW d \in Dirs
        PROVE  charged[i][d] + Delta(i, d) \in Nat
    BY DEF TypeOK, Counters, Delta
  <2>2. charged' \in Counters
    BY <1>8, <2>1 DEF Sample, Counters
  <2> QED BY <1>8, <2>2 DEF Sample, TypeOK
<1>9. CASE UNCHANGED vars
  BY <1>9 DEF vars, TypeOK
<1> QED
  BY <1>1, <1>2, <1>3, <1>4, <1>5, <1>6, <1>7, <1>8, <1>9
  DEF Next, Account, Reading, Failing

\* The eBPF programs and the method that reads their map: types, always.
THEOREM TypeCorrect == Spec => []TypeOK
BY TypeInit, TypeStep, PTL DEF Spec

-------------------------------------------------------------------------------
(***************************************************************************)
(* The programs. A run that is about to add has an entry to add to; one    *)
(* that looks again in vain has met a full map, and a full map stays as it *)
(* is.                                                                     *)
(***************************************************************************)
KernelInv ==
  /\ KernelExact
  /\ OnlyFullMapSkips
  /\ \A c \in CPUs : prog[c].at = "add" => prog[c].ifindex \in keys
  /\ \A c \in CPUs :
       prog[c].at = "relookup" /\ prog[c].ifindex \notin keys
         => Cardinality(keys) >= MaxEntries

LEMMA CardinalityOfKeys == TypeOK => Cardinality(keys) \in Nat
BY NicAssumption, FS_Subset, FS_CardinalityType DEF TypeOK

LEMMA KernelInit == Init => KernelInv
<1> SUFFICES ASSUME Init PROVE KernelInv
  OBVIOUS
<1>1. \A i \in Ifaces, d \in Dirs : Zero[i][d] = 0
  BY DEF Zero
<1>2. \A c \in CPUs : prog[c].at = "idle"
  BY DEF Init, Idle
<1> QED
  BY <1>1, <1>2 DEF Init, KernelInv, KernelExact, OnlyFullMapSkips

LEMMA KernelStep == TypeOK /\ KernelInv /\ [Next]_vars => KernelInv'
<1> SUFFICES ASSUME TypeOK, KernelInv, [Next]_vars PROVE KernelInv'
  OBVIOUS
<1> USE DEF KernelInv, KernelExact, OnlyFullMapSkips, kernel
<1>0. /\ stats \in Counters /\ counted \in Counters /\ skipped \in Counters
      /\ Cardinality(keys) \in Nat /\ MaxEntries \in Nat
      /\ DOMAIN prog = CPUs
  BY CardinalityOfKeys, NicAssumption DEF TypeOK
<1>1. ASSUME NEW c \in CPUs, NEW i \in Ifaces, NEW d \in Dirs, NEW len \in Lens,
             Packet(c, i, d, len)
      PROVE  KernelInv'
  <2>1. /\ \A x \in CPUs : x # c => prog'[x] = prog[x]
        /\ prog'[c].at = (IF i \in keys THEN "add" ELSE "insert")
        /\ prog'[c].ifindex = i
    BY <1>0, <1>1 DEF Packet
  <2> QED BY <1>1, <2>1 DEF Packet
<1>2. ASSUME NEW c \in CPUs, Insert(c)
      PROVE  KernelInv'
  <2>1. /\ \A x \in CPUs : x # c => prog'[x] = prog[x]
        /\ prog'[c].at = "relookup" /\ prog'[c].ifindex = prog[c].ifindex
    BY <1>0, <1>2, Carried DEF Insert, TypeOK, Programs
  <2>2. CASE Cardinality(keys) < MaxEntries
    <3>1. /\ \A j \in Ifaces, e \in Dirs : ~(skipped[j][e] > 0)
          /\ \A x \in CPUs : prog[x].at = "relookup" => prog[x].ifindex \in keys
      BY <1>0, <2>2
    <3>2. keys' = keys \cup {prog[c].ifindex}
      BY <1>2, <2>2 DEF Insert
    <3> QED BY <1>2, <2>1, <3>1, <3>2 DEF Insert
  <2>3. CASE ~(Cardinality(keys) < MaxEntries)
    <3>1. keys' = keys /\ Cardinality(keys) >= MaxEntries
      BY <1>0, <1>2, <2>3 DEF Insert
    <3> QED BY <1>2, <2>1, <3>1 DEF Insert
  <2> QED BY <2>2, <2>3
<1>3. ASSUME NEW c \in CPUs, Relookup(c)
      PROVE  KernelInv'
  <2>1. /\ \A x \in CPUs : x # c => prog'[x] = prog[x]
        /\ keys' = keys /\ stats' = stats
    BY <1>0, <1>3 DEF Relookup, Finish
  <2>2. CASE prog[c].ifindex \in keys
    <3>1. prog'[c].at = "add" /\ prog'[c].ifindex = prog[c].ifindex
      BY <1>0, <1>3, <2>2, Carried DEF Relookup, TypeOK, Programs
    <3> QED BY <1>3, <2>1, <2>2, <3>1 DEF Relookup
  <2>3. CASE prog[c].ifindex \notin keys
    <3>1. prog'[c].at = "idle"
      BY <1>0, <1>3, <2>3 DEF Relookup, Finish, Idle
    <3>2. PICK i \in Ifaces, d \in Dirs, n \in Nat :
            /\ i = prog[c].ifindex
            /\ counted' = [counted EXCEPT ![i][d] = @ + n]
            /\ skipped' = [skipped EXCEPT ![i][d] = @ + n]
      BY <1>3, <2>3, Carried DEF Relookup
    <3>3. Cardinality(keys) >= MaxEntries
      BY <1>3, <2>3 DEF Relookup
    <3>4. \A j \in Ifaces, e \in Dirs :
            counted'[j][e] = IF j = i /\ e = d THEN counted[j][e] + n
                                              ELSE counted[j][e]
      BY <1>0, <3>2, Bump
    <3>5. \A j \in Ifaces, e \in Dirs :
            skipped'[j][e] = IF j = i /\ e = d THEN skipped[j][e] + n
                                              ELSE skipped[j][e]
      <4>1. skipped \in Counters /\ skipped' = [skipped EXCEPT ![i][d] = @ + n]
        BY <1>0, <3>2
      <4> HIDE DEF KernelInv
      <4> QED BY <4>1, Bump
    <3>6. \A j \in Ifaces, e \in Dirs :
            stats[j][e] \in Nat /\ counted[j][e] \in Nat /\ skipped[j][e] \in Nat
      BY <1>0 DEF Counters
    <3>7. KernelExact'
      BY <2>1, <3>4, <3>5, <3>6
    <3>8. OnlyFullMapSkips'
      BY <2>1, <2>3, <3>2, <3>3, <3>5
    <3> QED BY <2>1, <3>1, <3>7, <3>8
  <2> QED BY <2>2, <2>3
<1>4. ASSUME NEW c \in CPUs, Add(c)
      PROVE  KernelInv'
  <2>1. /\ \A x \in CPUs : x # c => prog'[x] = prog[x]
        /\ prog'[c].at = "idle"
        /\ keys' = keys /\ skipped' = skipped
    BY <1>0, <1>4 DEF Add, Finish, Idle
  <2>2. PICK i \in Ifaces, d \in Dirs, n \in Nat :
          /\ stats' = [stats EXCEPT ![i][d] = @ + n]
          /\ counted' = [counted EXCEPT ![i][d] = @ + n]
    BY <1>4, Carried DEF Add
  <2>3. \A j \in Ifaces, e \in Dirs :
          stats'[j][e] = IF j = i /\ e = d THEN stats[j][e] + n ELSE stats[j][e]
    BY <1>0, <2>2, Bump
  <2>4. \A j \in Ifaces, e \in Dirs :
          counted'[j][e] = IF j = i /\ e = d THEN counted[j][e] + n
                                            ELSE counted[j][e]
    BY <1>0, <2>2, Bump
  <2>5. \A j \in Ifaces, e \in Dirs :
          stats[j][e] \in Nat /\ counted[j][e] \in Nat /\ skipped[j][e] \in Nat
    BY <1>0 DEF Counters
  <2>6. KernelExact'
    BY <2>1, <2>3, <2>4, <2>5
  <2> QED BY <2>1, <2>6
<1>5. CASE Start \/ Measure
  BY <1>5 DEF Start, Measure, BeginRead
<1>6. ASSUME NEW i \in Ifaces, ReadKey(i)
      PROVE  KernelInv'
  BY <1>6 DEF ReadKey
<1>7. CASE AttachPrograms \/ AttachFails \/ BaselineRead \/ BaselineFails
           \/ MeasureFails \/ Stop \/ Sample
  BY <1>7
  DEF AttachPrograms, AttachFails, BaselineRead, BaselineFails, MeasureFails,
      Stop, Sample
<1>8. CASE UNCHANGED vars
  BY <1>8 DEF vars
<1> QED
  BY <1>1, <1>2, <1>3, <1>4, <1>5, <1>6, <1>7, <1>8
  DEF Next, Account, Reading, Failing

LEMMA KernelInvariant == Spec => [](TypeOK /\ KernelInv)
BY TypeInit, TypeStep, KernelInit, KernelStep, PTL DEF Spec

\* account_bytes: no interleaving of the programs loses or repeats a byte.
THEOREM KernelIsExact == Spec => []KernelExact
<1>1. KernelInv => KernelExact
  BY DEF KernelInv
<1> QED BY <1>1, KernelInvariant, PTL

\* account_bytes: only an interface that came to a full map goes uncounted.
THEOREM SkipsNeedFullMap == Spec => []OnlyFullMapSkips
<1>1. KernelInv => OnlyFullMapSkips
  BY DEF KernelInv
<1> QED BY <1>1, KernelInvariant, PTL

-------------------------------------------------------------------------------
(***************************************************************************)
(* The method. Counters only grow, so each value that was read is a lower  *)
(* bound of the counter; a read that reached every key it had to has, for  *)
(* a configured interface, at least what was there when it began and at    *)
(* least what the read before it returned.                                 *)
(***************************************************************************)
\* The value a map gives for an interface it has no entry for.
Absent(f, S) == \A i \in Ifaces, d \in Dirs : i \notin S => f[i][d] = 0

Below(f, g) == \A i \in Ifaces, d \in Dirs : f[i][d] <= g[i][d]

Reach == visited \cap Configured

MeterInv ==
  /\ ChargedOnce
  /\ must \subseteq keys /\ visited \subseteq keys
  /\ \A c \in CPUs : prog[c].at = "add" => prog[c].ifindex \in keys
  /\ Absent(stats, keys)
  /\ Absent(out, Reach) /\ Below(out, stats)
  /\ Absent(lastRead, keys \cap Configured) /\ Below(lastRead, stats)
  /\ Below(base, lastRead)
  /\ Absent(atBegin, must) /\ Below(atBegin, stats)
  /\ mpc \in {"created", "attached", "baseline", "failed"} =>
       base = Zero /\ charged = Zero /\ lastRead = Zero
  /\ mpc = "measuring" =>
       /\ Absent(lastRead, must \cap Configured)
       /\ \A i \in Reach, d \in Dirs :
            out[i][d] >= lastRead[i][d] /\ out[i][d] >= atBegin[i][d]

LEMMA Naturals ==
  ASSUME TypeOK
  PROVE  \A i \in Ifaces, d \in Dirs :
           /\ stats[i][d] \in Nat /\ out[i][d] \in Nat /\ lastRead[i][d] \in Nat
           /\ base[i][d] \in Nat /\ charged[i][d] \in Nat /\ atBegin[i][d] \in Nat
BY DEF TypeOK, Counters

LEMMA ZeroValue == \A i \in Ifaces, d \in Dirs : Zero[i][d] = 0
BY DEF Zero

LEMMA MeterInit == Init => MeterInv
<1> SUFFICES ASSUME Init PROVE MeterInv
  OBVIOUS
<1>1. \A c \in CPUs : prog[c].at = "idle"
  BY DEF Init, Idle
<1> QED
  BY <1>1, ZeroValue
  DEF Init, MeterInv, ChargedOnce, Absent, Below, Reach

\* When all keys were reached, what a sample charges is the exact difference.
LEMMA DeltaIsDifference ==
  ASSUME TypeOK, MeterInv, mpc = "measuring", must \subseteq visited,
         NEW i \in Ifaces, NEW d \in Dirs
  PROVE  /\ out[i][d] >= lastRead[i][d]
         /\ Delta(i, d) = out[i][d] - lastRead[i][d]
         /\ i \in Configured => out[i][d] >= atBegin[i][d]
<1>1. out[i][d] \in Nat /\ lastRead[i][d] \in Nat /\ atBegin[i][d] \in Nat
  BY Naturals
<1>2. /\ i \notin must \cap Configured => lastRead[i][d] = 0
      /\ i \notin must => atBegin[i][d] = 0
  BY DEF MeterInv, Absent
<1>3. i \in must \cap Configured =>
        out[i][d] >= lastRead[i][d] /\ out[i][d] >= atBegin[i][d]
  BY DEF MeterInv, Reach
<1>4. out[i][d] >= lastRead[i][d]
  BY <1>1, <1>2, <1>3
<1> QED BY <1>1, <1>2, <1>3, <1>4 DEF Delta

LEMMA MeterStep == TypeOK /\ MeterInv /\ [Next]_vars => MeterInv'
<1> SUFFICES ASSUME TypeOK, MeterInv, [Next]_vars PROVE MeterInv'
  OBVIOUS
<1>0. /\ \A i \in Ifaces, d \in Dirs :
           /\ stats[i][d] \in Nat /\ out[i][d] \in Nat /\ lastRead[i][d] \in Nat
           /\ base[i][d] \in Nat /\ charged[i][d] \in Nat /\ atBegin[i][d] \in Nat
      /\ DOMAIN prog = CPUs /\ keys \subseteq Ifaces /\ Configured \subseteq Ifaces
  BY Naturals, NicAssumption DEF TypeOK
<1> USE DEF MeterInv, ChargedOnce, Absent, Below, Reach, kernel, reader
<1>1. ASSUME NEW c \in CPUs, NEW i \in Ifaces, NEW d \in Dirs, NEW len \in Lens,
             Packet(c, i, d, len)
      PROVE  MeterInv'
  <2>1. /\ \A x \in CPUs : x # c => prog'[x] = prog[x]
        /\ prog'[c].at = (IF i \in keys THEN "add" ELSE "insert")
        /\ prog'[c].ifindex = i
    BY <1>0, <1>1 DEF Packet
  <2> QED BY <1>1, <2>1 DEF Packet
<1>2. ASSUME NEW c \in CPUs, Insert(c)
      PROVE  MeterInv'
  <2>1. /\ \A x \in CPUs : x # c => prog'[x] = prog[x]
        /\ prog'[c].at = "relookup"
        /\ keys \subseteq keys'
    BY <1>0, <1>2, Carried DEF Insert, TypeOK, Programs
  <2> QED BY <1>2, <2>1 DEF Insert
<1>3. ASSUME NEW c \in CPUs, Relookup(c)
      PROVE  MeterInv'
  <2>1. /\ \A x \in CPUs : x # c => prog'[x] = prog[x]
        /\ prog'[c].at = "add" => prog'[c].ifindex \in keys
    BY <1>0, <1>3, Carried DEF Relookup, Finish, Idle, TypeOK, Programs
  <2> QED BY <1>3, <2>1 DEF Relookup
<1>4. ASSUME NEW c \in CPUs, Add(c)
      PROVE  MeterInv'
  <2>1. /\ \A x \in CPUs : x # c => prog'[x] = prog[x]
        /\ prog'[c].at = "idle"
        /\ keys' = keys /\ UNCHANGED reader
    BY <1>0, <1>4 DEF Add, Finish, Idle
  <2>2. PICK i \in keys, d \in Dirs, n \in Nat :
          stats' = [stats EXCEPT ![i][d] = @ + n]
    BY <1>4, Carried DEF Add
  <2>3. \A j \in Ifaces, e \in Dirs :
          stats'[j][e] = IF j = i /\ e = d THEN stats[j][e] + n ELSE stats[j][e]
    <3>1. stats \in Counters /\ i \in Ifaces
      BY <1>0 DEF TypeOK
    <3> HIDE DEF MeterInv
    <3> QED BY <2>2, <3>1, Bump
  <2>4. \A j \in Ifaces, e \in Dirs :
          stats'[j][e] >= stats[j][e] /\ (j \notin keys => stats'[j][e] = 0)
    BY <1>0, <2>2, <2>3
  <2>5. \A j \in Ifaces, e \in Dirs : stats'[j][e] \in Nat
    BY <1>0, <2>3
  <2> QED BY <1>0, <2>1, <2>4, <2>5
<1>5. CASE Start \/ Measure
  BY <1>0, <1>5, ZeroValue DEF Start, Measure, BeginRead
<1>6. ASSUME NEW i \in Ifaces, ReadKey(i)
      PROVE  MeterInv'
  <2>1. \A j \in Ifaces, e \in Dirs :
          out'[j][e] = IF j = i /\ i \in Configured THEN stats[j][e] ELSE out[j][e]
    BY <1>6 DEF ReadKey, TypeOK, Counters
  <2> QED BY <1>0, <1>6, <2>1 DEF ReadKey
<1>7. CASE AttachPrograms \/ AttachFails \/ BaselineFails \/ MeasureFails \/ Stop
  BY <1>7 DEF AttachPrograms, AttachFails, BaselineFails, MeasureFails, Stop
<1>8. CASE BaselineRead
  BY <1>0, <1>8, ZeroValue DEF BaselineRead
<1>9. CASE Sample
  <2>1. \A i \in Ifaces, d \in Dirs :
          /\ charged'[i][d] = charged[i][d] + (out[i][d] - lastRead[i][d])
          /\ out[i][d] >= lastRead[i][d]
    BY <1>9, DeltaIsDifference DEF Sample
  <2>2. ChargedOnce' /\ Below(base', lastRead')
    BY <1>0, <1>9, <2>1 DEF Sample
  <2> QED BY <1>0, <1>9, <2>2 DEF Sample
<1>10. CASE UNCHANGED vars
  BY <1>10 DEF vars
<1> QED
  BY <1>1, <1>2, <1>3, <1>4, <1>5, <1>6, <1>7, <1>8, <1>9, <1>10
  DEF Next, Account, Reading, Failing

LEMMA MeterInvariant == Spec => [](TypeOK /\ MeterInv)
BY TypeInit, TypeStep, MeterInit, MeterStep, PTL DEF Spec

\* Measure: the samples account for each byte once, whatever reads fail.
THEOREM BytesAreChargedOnce == Spec => []ChargedOnce
<1>1. MeterInv => ChargedOnce
  BY DEF MeterInv
<1> QED BY <1>1, MeterInvariant, PTL

\* Loader.Read and Measure: a sample leaves behind nothing that was there when
\* its read began.
THEOREM SamplesAreFresh == Spec => SampleIsFresh
<1> DEFINE Fresh ==
      mpc = "measuring" /\ charged' # charged =>
        \A i \in Configured, d \in Dirs :
          base[i][d] + charged'[i][d] >= atBegin[i][d]
<1>1. TypeOK /\ MeterInv /\ [Next]_vars => Fresh
  <2> SUFFICES ASSUME TypeOK, MeterInv, [Next]_vars, mpc = "measuring",
                      charged' # charged,
                      NEW i \in Configured, NEW d \in Dirs
               PROVE  base[i][d] + charged'[i][d] >= atBegin[i][d]
    OBVIOUS
  <2>1. Sample
    BY DEF Next, Account, Reading, Failing, Packet, Insert, Relookup, Add,
           AttachPrograms, AttachFails, Start, Measure, BeginRead, ReadKey,
           BaselineRead, BaselineFails, MeasureFails, Stop, reader, vars
  <2>2. i \in Ifaces
    BY NicAssumption
  <2>3. /\ Delta(i, d) = out[i][d] - lastRead[i][d]
        /\ out[i][d] >= atBegin[i][d]
    BY <2>1, <2>2, DeltaIsDifference DEF Sample
  <2>4. charged'[i][d] = charged[i][d] + Delta(i, d)
    BY <2>1, <2>2 DEF Sample
  <2>5. base[i][d] + charged[i][d] = lastRead[i][d]
    BY <2>2 DEF MeterInv, ChargedOnce
  <2> QED BY <2>2, <2>3, <2>4, <2>5, Naturals
<1>2. [][Fresh]_vars => SampleIsFresh
  BY PTL DEF SampleIsFresh
<1> QED BY <1>1, MeterInvariant, PTL DEF Spec, SampleIsFresh

-------------------------------------------------------------------------------
(***************************************************************************)
(* Refinement.                                                             *)
(***************************************************************************)
ConsumedOf(i, d) == IF BaselineKnown THEN stats[i][d] - base[i][d] ELSE 0

LEMMA RefineInit == Init => Promise!Init
<1> SUFFICES ASSUME Init PROVE Promise!Init
  OBVIOUS
<1>1. \A ch \in Configured \X Dirs :
        ch[1] \in Ifaces /\ ch[2] \in Dirs /\ charged[ch[1]][ch[2]] = 0
  BY NicAssumption, ZeroValue DEF Init
<1> QED BY <1>1 DEF Promise!Init, Init, BaselineKnown

\* Anything but a sample charges nothing, and takes nothing consumed back.
LEMMA OnlyConsumes ==
  ASSUME TypeOK, MeterInv, [Next]_vars, ~Sample
  PROVE  /\ charged' = charged
         /\ \A i \in Ifaces, d \in Dirs : ConsumedOf(i, d)' >= ConsumedOf(i, d)
<1>0. \A i \in Ifaces, d \in Dirs :
        stats[i][d] \in Nat /\ base[i][d] \in Nat /\ out[i][d] \in Nat
  BY Naturals
<1> USE DEF ConsumedOf, BaselineKnown, kernel, reader
<1>1. ASSUME NEW c \in CPUs, NEW i \in Ifaces, NEW d \in Dirs, NEW len \in Lens,
             Packet(c, i, d, len)
      PROVE  /\ charged' = charged
             /\ \A j \in Ifaces, e \in Dirs : ConsumedOf(j, e)' >= ConsumedOf(j, e)
  BY <1>0, <1>1 DEF Packet
<1>2. ASSUME NEW c \in CPUs, Insert(c) \/ Relookup(c)
      PROVE  /\ charged' = charged
             /\ \A i \in Ifaces, d \in Dirs : ConsumedOf(i, d)' >= ConsumedOf(i, d)
  BY <1>0, <1>2 DEF Insert, Relookup
<1>3. ASSUME NEW c \in CPUs, Add(c)
      PROVE  /\ charged' = charged
             /\ \A i \in Ifaces, d \in Dirs : ConsumedOf(i, d)' >= ConsumedOf(i, d)
  <2>1. PICK i \in Ifaces, d \in Dirs, n \in Nat :
          stats' = [stats EXCEPT ![i][d] = @ + n]
    BY <1>3, Carried DEF Add
  <2>2. stats \in Counters
    BY DEF TypeOK
  <2>3. \A j \in Ifaces, e \in Dirs :
          stats'[j][e] = IF j = i /\ e = d THEN stats[j][e] + n ELSE stats[j][e]
    BY <2>1, <2>2, Bump
  <2> QED BY <1>0, <1>3, <2>3 DEF Add
<1>4. CASE Start \/ Measure
  BY <1>0, <1>4 DEF Start, Measure, BeginRead
<1>5. ASSUME NEW i \in Ifaces, ReadKey(i)
      PROVE  /\ charged' = charged
             /\ \A j \in Ifaces, d \in Dirs : ConsumedOf(j, d)' >= ConsumedOf(j, d)
  BY <1>0, <1>5 DEF ReadKey
<1>6. CASE AttachPrograms \/ AttachFails \/ BaselineFails \/ MeasureFails \/ Stop
  BY <1>0, <1>6 DEF AttachPrograms, AttachFails, BaselineFails, MeasureFails, Stop
<1>7. CASE BaselineRead
  <2>1. \A i \in Ifaces, d \in Dirs : out[i][d] <= stats[i][d]
    BY DEF MeterInv, Below
  <2> QED BY <1>0, <1>7, <2>1 DEF BaselineRead
<1>8. CASE UNCHANGED vars
  BY <1>0, <1>8 DEF vars
<1> QED
  BY <1>1, <1>2, <1>3, <1>4, <1>5, <1>6, <1>7, <1>8
  DEF Next, Account, Reading, Failing

LEMMA RefineStep == TypeOK /\ MeterInv /\ [Next]_vars => Promise!Next
<1> SUFFICES ASSUME TypeOK, MeterInv, [Next]_vars PROVE Promise!Next
  OBVIOUS
<1>0. /\ \A ch \in Configured \X Dirs : ch[1] \in Ifaces /\ ch[2] \in Dirs
      /\ \A i \in Ifaces, d \in Dirs :
           /\ stats[i][d] \in Nat /\ out[i][d] \in Nat /\ lastRead[i][d] \in Nat
           /\ base[i][d] \in Nat /\ charged[i][d] \in Nat
  BY Naturals, NicAssumption
<1>1. CASE Sample
  <2>1. ASSUME NEW i \in Ifaces, NEW d \in Dirs
        PROVE  charged'[i][d] \in charged[i][d]..(stats[i][d] - base[i][d])
    <3>1. /\ charged'[i][d] = charged[i][d] + (out[i][d] - lastRead[i][d])
          /\ out[i][d] >= lastRead[i][d]
      BY <1>1, DeltaIsDifference DEF Sample
    <3>2. /\ base[i][d] + charged[i][d] = lastRead[i][d]
          /\ out[i][d] <= stats[i][d]
      BY DEF MeterInv, ChargedOnce, Below
    <3> QED BY <1>0, <3>1, <3>2
  <2>2. /\ mpc = "measuring" /\ mpc' = "started"
        /\ stats' = stats /\ base' = base
    BY <1>1 DEF Sample, kernel
  <2>3. Promise!Charge
    BY <1>0, <2>1, <2>2 DEF Promise!Charge, BaselineKnown
  <2> QED BY <2>3 DEF Promise!Next
<1>2. CASE ~Sample
  <2>1. /\ charged' = charged
        /\ \A i \in Ifaces, d \in Dirs : ConsumedOf(i, d)' >= ConsumedOf(i, d)
    BY <1>2, OnlyConsumes
  <2>2. Promise!Consume
    BY <1>0, <2>1 DEF Promise!Consume, ConsumedOf
  <2> QED BY <2>2 DEF Promise!Next
<1> QED BY <1>1, <1>2

\* The metrics method of the nic module is a meter: what it charges was sent or
\* received after its baseline, and is charged once.
THEOREM NicImplementsMeter == Spec => ImplementsMeter
BY MeterInvariant, RefineInit, RefineStep, PTL
DEF Spec, ImplementsMeter, Promise!Spec
===============================================================================
