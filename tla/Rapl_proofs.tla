------------------------------ MODULE Rapl_proofs ------------------------------
(***************************************************************************)
(* Proofs about Rapl, for any range of the counter and any bounds.         *)
(***************************************************************************)
EXTENDS Rapl, TLAPS

-------------------------------------------------------------------------------
(***************************************************************************)
(* Arithmetic.                                                             *)
(***************************************************************************)
LEMMA SmallModulo ==
  ASSUME NEW w \in Nat, NEW x \in Nat, x < w
  PROVE  x % w = x
OBVIOUS

LEMMA Division ==
  ASSUME NEW w \in Nat, w > 0, NEW x \in Nat
  PROVE  /\ x = w * (x \div w) + (x % w)
         /\ x % w \in 0..(w - 1)
         /\ x \div w \in Nat
OBVIOUS

LEMMA Multiples ==
  ASSUME NEW n \in Nat, n > 0, NEW k \in Int
  PROVE  /\ k = 0 => n * k = 0
         /\ k = 1 => n * k = n
         /\ k >= 1 => n * k >= n
         /\ k >= 2 => n * k >= n + n
         /\ k <= -1 => n * k <= -n
OBVIOUS

LEMMA Distributes ==
  ASSUME NEW n \in Nat, NEW p \in Nat, NEW q \in Nat
  PROVE  n * (q - p) = n * q - n * p
OBVIOUS

\* Two readings a and b of a counter of range r, taken when `from' and `to' had
\* been used, and the difference d that Measure makes of them.
Wrapped(r, from, to, a, b, d) ==
  /\ r \in Nat /\ from \in Nat /\ to \in Nat /\ from <= to
  /\ a \in Nat /\ b \in Nat /\ d \in Int
  /\ a = from % (r + 1) /\ b = to % (r + 1)
  /\ d = IF b >= a THEN b - a ELSE r - a + b

NearlyExact(r, from, to, d) ==
  /\ d \in Nat
  /\ d <= to - from
  /\ to - from <= r => d \in {to - from, to - from - 1}

\* The difference is never more than was used in between, and at most one unit
\* less if that is below a turn.
LEMMA Wrapping ==
  ASSUME NEW r, NEW from, NEW to, NEW a, NEW b, NEW d,
         Wrapped(r, from, to, a, b, d)
  PROVE  NearlyExact(r, from, to, d)
<1> USE DEF Wrapped, NearlyExact
<1> DEFINE n == r + 1
           k == (to \div n) - (from \div n)
<1>1. /\ n \in Nat /\ n > 0 /\ a \in 0..r /\ b \in 0..r
      /\ from \div n \in Nat /\ to \div n \in Nat
      /\ from = n * (from \div n) + a /\ to = n * (to \div n) + b
  <2>1. n \in Nat /\ n > 0 /\ n - 1 = r
    OBVIOUS
  <2> HIDE DEF n
  <2> QED BY <2>1, Division
<1>2. k \in Int /\ to - from = n * k + b - a
  BY <1>1, Distributes
<1>3. PICK m \in Int : /\ to - from = m + b - a
                       /\ k <= -1 => m <= -n
                       /\ k = 0 => m = 0
                       /\ k = 1 => m = n
                       /\ k >= 2 => m >= n + n
  <2>1. n * k \in Int
    BY <1>1, <1>2
  <2> HIDE DEF n, k
  <2> QED BY <1>1, <1>2, <2>1, Multiples
<1> HIDE DEF k
<1>4. k <= -1 \/ k = 0 \/ k = 1 \/ k >= 2
  BY <1>2
<1>5. CASE k <= -1
  BY <1>1, <1>3, <1>5
<1>6. CASE k = 0
  BY <1>1, <1>3, <1>6
<1>7. CASE k = 1
  BY <1>1, <1>3, <1>7
<1>8. CASE k >= 2
  BY <1>1, <1>3, <1>8
<1> QED BY <1>4, <1>5, <1>6, <1>7, <1>8

-------------------------------------------------------------------------------
(***************************************************************************)
(* Types. The times stay in their bounds because the holder of the pid     *)
(* never has more CPU time than the system.                                *)
(***************************************************************************)
TypeInv == TypeOK /\ pidTime <= sysTime

LEMMA TypeInit == Init => TypeInv
BY RaplAssumption DEF Init, TypeInv, TypeOK, Nothing, Readings

LEMMA EnergyUJType == energy \in Nat => EnergyUJ \in 0..MaxRange
BY RaplAssumption, Division DEF EnergyUJ

LEMMA DeltaTypes ==
  ASSUME TypeOK
  PROVE  DeltaUJ \in Nat /\ PidDelta \in Nat /\ TotalDelta \in Nat
BY RaplAssumption DEF TypeOK, Readings, DeltaUJ, PidDelta, TotalDelta

LEMMA TypeStep == TypeInv /\ [Next]_vars => TypeInv'
<1> SUFFICES ASSUME TypeInv, [Next]_vars PROVE TypeInv'
  OBVIOUS
<1> USE RaplAssumption DEF TypeInv, TypeOK, machine, method
<1>1. CASE UseEnergy \/ TargetExits \/ PidTaken
  BY <1>1 DEF UseEnergy, TargetExits, PidTaken
<1>2. ASSUME NEW mine \in BOOLEAN, UseTime(mine)
      PROVE  TypeInv'
  BY <1>2 DEF UseTime
<1>3. ASSUME NEW ok \in BOOLEAN, FindDomain(ok)
      PROVE  TypeInv'
  BY <1>3 DEF FindDomain, Starting
<1>4. CASE ReadEnergy
  <2>1. EnergyUJ \in 0..MaxRange
    BY EnergyUJType
  <2>2. cur' = [energy |-> EnergyUJ, pid |-> 0, total |-> 0, at |-> 0]
    BY <1>4 DEF ReadEnergy, Nothing
  <2>3. cur' \in Readings /\ cur'.energy <= MaxRange
    BY <2>1, <2>2 DEF Readings
  <2> QED BY <1>4, <2>3 DEF ReadEnergy, Starting, Measuring
<1>5. CASE ReadPid
  <2>1. cur' \in Readings /\ cur'.energy <= MaxRange
    BY <1>5 DEF ReadPid, Readings
  <2> QED BY <1>5, <2>1 DEF ReadPid, Starting, Measuring
<1>6. CASE ReadTotal
  <2>1. cur' \in Readings /\ cur'.energy <= MaxRange
    BY <1>6 DEF ReadTotal, Readings
  <2> QED BY <1>6, <2>1 DEF ReadTotal, Starting, Measuring
<1>7. CASE ReadFails \/ Stop
  BY <1>7 DEF ReadFails, Stop
<1>8. CASE EndStart
  <2>1. base' \in Readings
    BY <1>8 DEF EndStart, Readings
  <2> QED BY <1>8, <2>1 DEF EndStart
<1>9. CASE Sample
  BY <1>9, DeltaTypes DEF Sample
<1>10. CASE UNCHANGED vars
  BY <1>10 DEF vars
<1> QED
  BY <1>1, <1>2, <1>3, <1>4, <1>5, <1>6, <1>7, <1>8, <1>9, <1>10
  DEF Next, Machine, Method

LEMMA TypeInvariant == Spec => []TypeInv
BY TypeInit, TypeStep, PTL DEF Spec

\* The machine and the method that reads its files: types, always.
THEOREM TypeCorrect == Spec => []TypeOK
<1>1. TypeInv => TypeOK
  BY DEF TypeInv
<1> QED BY <1>1, TypeInvariant, PTL

-------------------------------------------------------------------------------
(***************************************************************************)
(* Energy. A reading is the energy used when it was read, modulo the range *)
(* of the counter; readings follow each other, and the samples have shared *)
(* out no more than what was used between the first and the last.          *)
(***************************************************************************)
EnergyInv ==
  /\ cur.energy = spentAt.cur % (MaxRange + 1)
  /\ last.energy = spentAt.last % (MaxRange + 1)
  /\ spentAt.last <= spentAt.cur /\ spentAt.cur <= energy
  /\ BaselineKnown => base.energy + charged <= spentAt.last
  /\ ~BaselineKnown => charged = 0

LEMMA EnergyInit == Init => EnergyInv
<1> SUFFICES ASSUME Init PROVE EnergyInv
  OBVIOUS
<1>1. 0 % (MaxRange + 1) = 0
  BY RaplAssumption, SmallModulo
<1>2. /\ cur.energy = 0 /\ last.energy = 0
      /\ spentAt.cur = 0 /\ spentAt.last = 0
      /\ energy \in Nat /\ charged = 0 /\ mpc = "created"
  BY RaplAssumption DEF Init, Nothing
<1> QED BY <1>1, <1>2 DEF EnergyInv, BaselineKnown, Measuring

LEMMA SampleOfEnergy ==
  ASSUME TypeOK, EnergyInv
  PROVE  /\ DeltaUJ \in Nat
         /\ DeltaUJ <= Spent
         /\ Spent <= MaxRange => DeltaUJ \in {Spent, Spent - 1}
<1>1. /\ MaxRange \in Nat /\ cur.energy \in Nat /\ last.energy \in Nat
      /\ spentAt.cur \in Nat /\ spentAt.last \in Nat /\ DeltaUJ \in Int
  BY RaplAssumption, DeltaTypes DEF TypeOK, Readings
<1>2. DeltaUJ = IF cur.energy >= last.energy
                  THEN cur.energy - last.energy
                  ELSE MaxRange - last.energy + cur.energy
  BY DEF DeltaUJ
<1>3. /\ cur.energy = spentAt.cur % (MaxRange + 1)
      /\ last.energy = spentAt.last % (MaxRange + 1)
      /\ spentAt.last <= spentAt.cur
  BY DEF EnergyInv
<1>4. Wrapped(MaxRange, spentAt.last, spentAt.cur, last.energy, cur.energy, DeltaUJ)
  BY <1>1, <1>2, <1>3 DEF Wrapped
<1>5. NearlyExact(MaxRange, spentAt.last, spentAt.cur, DeltaUJ)
  BY ONLY <1>4, Wrapping
<1> QED BY <1>5 DEF NearlyExact, Spent

LEMMA EnergyStep == TypeOK /\ EnergyInv /\ [Next]_vars => EnergyInv'
<1> SUFFICES ASSUME TypeOK, EnergyInv, [Next]_vars PROVE EnergyInv'
  OBVIOUS
<1>0. /\ energy \in Nat /\ charged \in Nat /\ base.energy \in Nat
      /\ spentAt \in [cur : Nat, last : Nat]
      /\ cur \in Readings /\ last \in Readings
  BY DEF TypeOK, Readings
<1> USE <1>0 DEF EnergyInv, BaselineKnown, Measuring, machine, method
<1>1. CASE Machine
  BY <1>1 DEF Machine, UseEnergy, UseTime, TargetExits, PidTaken
<1>2. ASSUME NEW ok \in BOOLEAN, FindDomain(ok)
      PROVE  EnergyInv'
  BY <1>2 DEF FindDomain
<1>3. CASE ReadEnergy
  <2>1. /\ cur'.energy = energy % (MaxRange + 1)
        /\ spentAt'.cur = energy /\ spentAt'.last = spentAt.last
        /\ UNCHANGED <<energy, last, base, charged>>
    BY <1>3 DEF ReadEnergy, EnergyUJ, Nothing
  <2>2. BaselineKnown' <=> BaselineKnown
    BY <1>3 DEF ReadEnergy
  <2> QED BY <2>1, <2>2
<1>4. CASE ReadPid \/ ReadTotal
  <2>1. cur'.energy = cur.energy /\ UNCHANGED <<energy, last, spentAt, base, charged>>
    BY <1>4 DEF ReadPid, ReadTotal, Readings
  <2>2. BaselineKnown' <=> BaselineKnown
    BY <1>4 DEF ReadPid, ReadTotal
  <2> QED BY <2>1, <2>2
<1>5. CASE ReadFails \/ Stop
  BY <1>5 DEF ReadFails, Stop, Starting
<1>6. CASE EndStart
  <2>1. /\ last' = cur /\ base'.energy = spentAt.cur
        /\ spentAt'.last = spentAt.cur /\ spentAt'.cur = spentAt.cur
        /\ UNCHANGED <<energy, cur, charged>>
    BY <1>6 DEF EndStart, Readings
  <2>2. charged = 0 /\ BaselineKnown'
    BY <1>6 DEF EndStart
  <2> QED BY <2>1, <2>2
<1>7. CASE Sample
  <2>1. /\ last' = cur
        /\ spentAt'.last = spentAt.cur /\ spentAt'.cur = spentAt.cur
        /\ UNCHANGED <<energy, cur, base>>
    BY <1>7 DEF Sample
  <2>2. charged' = charged \/ charged' = charged + DeltaUJ
    BY <1>7 DEF Sample
  <2>3. BaselineKnown /\ BaselineKnown'
    BY <1>7 DEF Sample
  <2>4. DeltaUJ \in Nat /\ DeltaUJ <= spentAt.cur - spentAt.last
    BY SampleOfEnergy DEF Spent
  <2> QED BY <2>1, <2>2, <2>3, <2>4
<1>8. CASE UNCHANGED vars
  BY <1>8 DEF vars
<1> QED BY <1>1, <1>2, <1>3, <1>4, <1>5, <1>6, <1>7, <1>8 DEF Next, Method

LEMMA EnergyInvariant == Spec => [](TypeInv /\ EnergyInv)
<1>1. TypeInv => TypeOK
  BY DEF TypeInv
<1> QED BY <1>1, TypeInit, TypeStep, EnergyInit, EnergyStep, PTL DEF Spec

\* Measure, wrap-around: below a turn of the counter a sample is short of the
\* energy used by one unit at most.
THEOREM WrapsAreNearlyExact == Spec => []WrapIsNearlyExact
<1>1. TypeInv /\ EnergyInv => WrapIsNearlyExact
  BY SampleOfEnergy DEF WrapIsNearlyExact, TypeInv
<1> QED BY <1>1, EnergyInvariant, PTL

LEMMA RefineInit == Init => Promise!Init
BY DEF Init, Promise!Init, BaselineKnown, Measuring

LEMMA RefineStep == TypeOK /\ EnergyInv /\ [Next]_vars => Promise!Next
<1> SUFFICES ASSUME TypeOK, EnergyInv, [Next]_vars PROVE Promise!Next
  OBVIOUS
<1>0. /\ energy \in Nat /\ charged \in Nat /\ base.energy \in Nat
      /\ spentAt.cur \in Nat /\ spentAt.last \in Nat
  BY DEF TypeOK, Readings
<1>1. CASE Sample
  <2>1. DeltaUJ \in Nat /\ DeltaUJ <= spentAt.cur - spentAt.last
    BY SampleOfEnergy DEF Spent
  <2>2. /\ BaselineKnown /\ BaselineKnown'
        /\ energy' = energy /\ base' = base
        /\ charged' = charged \/ charged' = charged + DeltaUJ
    BY <1>1 DEF Sample, BaselineKnown, Measuring, machine
  <2>3. charged' \in charged..(energy - base.energy)
    BY <1>0, <2>1, <2>2 DEF EnergyInv
  <2>4. Promise!Charge
    BY <2>2, <2>3 DEF Promise!Charge
  <2> QED BY <2>4 DEF Promise!Next
<1>2. CASE ~Sample
  <2>1. charged' = charged
    BY <1>2
    DEF Next, Machine, Method, UseEnergy, UseTime, TargetExits, PidTaken,
        FindDomain, ReadEnergy, ReadPid, ReadTotal, ReadFails, EndStart, Stop,
        method, vars
  <2>2. energy' \in Nat /\ energy' >= energy
    BY <1>0, <1>2
    DEF Next, Machine, Method, UseEnergy, UseTime, TargetExits, PidTaken,
        FindDomain, ReadEnergy, ReadPid, ReadTotal, ReadFails, EndStart, Stop,
        machine, vars
  <2>3. CASE EndStart
    <3>1. /\ ~BaselineKnown /\ BaselineKnown'
          /\ base'.energy = spentAt.cur /\ energy' = energy
      BY <2>3 DEF EndStart, BaselineKnown, Measuring, machine, TypeOK, Readings
    <3>2. energy' - base'.energy >= 0
      BY <1>0, <3>1 DEF EnergyInv
    <3>3. Promise!Consume
      BY <2>1, <3>1, <3>2 DEF Promise!Consume
    <3> QED BY <3>3 DEF Promise!Next
  <2>4. CASE ~EndStart
    <3>1. base' = base /\ (BaselineKnown' <=> BaselineKnown)
      BY <1>2, <2>4
      DEF Next, Machine, Method, UseEnergy, UseTime, TargetExits, PidTaken,
          FindDomain, ReadEnergy, ReadPid, ReadTotal, ReadFails, Stop,
          BaselineKnown, Measuring, Starting, method, vars
    <3>2. Promise!Consume
      BY <1>0, <2>1, <2>2, <3>1 DEF Promise!Consume
    <3> QED BY <3>2 DEF Promise!Next
  <2> QED BY <2>3, <2>4
<1> QED BY <1>1, <1>2

\* The rapl method is a meter of the energy of its domain: however the counter
\* wraps and whichever reads fail, no energy is shared out twice.
THEOREM RaplImplementsMeter == Spec => ImplementsMeter
<1>1. TypeInv => TypeOK
  BY DEF TypeInv
<1> QED
  BY <1>1, EnergyInvariant, RefineInit, RefineStep, PTL
  DEF Spec, ImplementsMeter, Promise!Spec

-------------------------------------------------------------------------------
(***************************************************************************)
(* CPU time, as long as the pid is the target's: what it has used since a  *)
(* reading is at most what the system has used since then, each reading    *)
(* follows the one before, and the samples add up to the last one.         *)
(***************************************************************************)
NoShares == shares = [pid |-> 0, total |-> 0]

\* r.pid was read when the system's time was r.at.
Taken(r) == r.pid <= pidTime /\ pidTime - r.pid <= sysTime - r.at

\* Both times have been read, in this order.
Complete(r) ==
  /\ pidMode => Taken(r) /\ r.at <= r.total /\ r.total <= sysTime
  /\ ~pidMode => r.pid = 0 /\ r.total = 0

Follows ==
  /\ cur.pid >= last.pid
  /\ cur.pid - last.pid <= cur.at - last.at
  /\ last.total <= cur.at

TimeInv ==
  /\ mpc \in {"pid0", "total0", "pid", "total"} => pidMode
  /\ ~BaselineKnown => NoShares
  /\ holder # "another" =>
       /\ mpc \in {"total0", "total"} => Taken(cur) /\ cur.at <= sysTime
       /\ mpc \in {"baseline", "sample"} => Complete(cur)
       /\ BaselineKnown => /\ Complete(last)
                           /\ shares.pid = last.pid - base.pid
                           /\ shares.total = last.total - base.total
       /\ pidMode /\ mpc \in {"total", "sample"} => Follows

LEMMA Times ==
  ASSUME TypeOK
  PROVE  /\ pidTime \in Nat /\ sysTime \in Nat /\ pidMode \in BOOLEAN
         /\ cur.pid \in 0..MaxBusy /\ cur.total \in 0..MaxBusy /\ cur.at \in Nat
         /\ last.pid \in 0..MaxBusy /\ last.total \in 0..MaxBusy /\ last.at \in Nat
         /\ base.pid \in Nat /\ base.total \in Nat
         /\ shares.pid \in Nat /\ shares.total \in Nat
         /\ shares = [pid |-> shares.pid, total |-> shares.total]
BY RaplAssumption DEF TypeOK, Readings

LEMMA TimeInit == Init => TimeInv
BY DEF Init, TimeInv, NoShares, BaselineKnown, Measuring

\* The unsigned differences are plain ones.
LEMMA DeltasAreDifferences ==
  ASSUME TypeOK, TimeInv, mpc = "sample", holder # "another"
  PROVE  /\ PidDelta = cur.pid - last.pid
         /\ TotalDelta = cur.total - last.total
<1>1. cur.pid >= last.pid /\ cur.total >= last.total
  <2>1. Complete(cur) /\ Complete(last) /\ (pidMode => Follows)
    BY DEF TimeInv, BaselineKnown, Measuring
  <2>2. CASE pidMode
    BY <2>1, <2>2, Times DEF Complete, Follows
  <2>3. CASE ~pidMode
    BY <2>1, <2>3, Times DEF Complete
  <2> QED BY <2>2, <2>3
<1>2. /\ cur.pid - last.pid \in Nat /\ cur.pid - last.pid < Word
      /\ cur.total - last.total \in Nat /\ cur.total - last.total < Word
  BY <1>1, Times, RaplAssumption
<1>3. Word \in Nat
  BY RaplAssumption
<1> QED BY <1>2, <1>3, SmallModulo DEF PidDelta, TotalDelta

LEMMA TimeStep == TypeInv /\ TimeInv /\ [Next]_vars => TimeInv'
<1> SUFFICES ASSUME TypeInv, TimeInv, [Next]_vars PROVE TimeInv'
  OBVIOUS
<1>0. TypeOK /\ pidTime <= sysTime
  BY DEF TypeInv
<1> USE <1>0, Times
    DEF TimeInv, Complete, Taken, Follows, BaselineKnown, Measuring, Starting,
        NoShares, machine, method
<1>1. CASE Machine
  <2>1. /\ UNCHANGED <<pidMode, method>>
        /\ holder' # "another" =>
             /\ holder # "another"
             /\ \/ pidTime' = pidTime /\ sysTime' = sysTime
                \/ pidTime' = pidTime /\ sysTime' = sysTime + 1
                \/ pidTime' = pidTime + 1 /\ sysTime' = sysTime + 1
    BY <1>1 DEF Machine, UseEnergy, UseTime, TargetExits, PidTaken
  <2>2. UNCHANGED <<mpc, cur, last, base, shares>>
    BY <2>1
  <2> QED BY <2>1, <2>2
<1>2. ASSUME NEW ok \in BOOLEAN, FindDomain(ok)
      PROVE  TimeInv'
  BY <1>2 DEF FindDomain
<1>3. CASE ReadEnergy
  <2>1. /\ cur'.pid = 0 /\ cur'.total = 0 /\ cur'.at = 0
        /\ UNCHANGED <<machine, last, base, shares>>
        /\ \/ mpc = "energy0" /\ pidMode /\ mpc' = "pid0"
           \/ mpc = "energy0" /\ ~pidMode /\ mpc' = "baseline"
           \/ mpc = "started" /\ pidMode /\ mpc' = "pid"
           \/ mpc = "started" /\ ~pidMode /\ mpc' = "sample"
    BY <1>3 DEF ReadEnergy, Nothing
  <2> QED BY <2>1
<1>4. CASE ReadPid
  <2>1. /\ cur'.pid = pidTime /\ cur'.at = sysTime
        /\ UNCHANGED <<machine, last, base, shares>>
        /\ \/ mpc = "pid0" /\ mpc' = "total0"
           \/ mpc = "pid" /\ mpc' = "total"
    BY <1>4 DEF ReadPid, TypeOK, Readings
  <2> QED BY <2>1
<1>5. CASE ReadTotal
  <2>1. /\ cur'.pid = cur.pid /\ cur'.at = cur.at /\ cur'.total = sysTime
        /\ UNCHANGED <<machine, last, base, shares>>
        /\ \/ mpc = "total0" /\ mpc' = "baseline"
           \/ mpc = "total" /\ mpc' = "sample"
    BY <1>5 DEF ReadTotal, TypeOK, Readings
  <2> QED BY <2>1
<1>6. CASE ReadFails \/ Stop
  BY <1>6 DEF ReadFails, Stop
<1>7. CASE EndStart
  <2>1. /\ mpc = "baseline" /\ mpc' = "started"
        /\ UNCHANGED <<machine, cur, shares>>
        /\ last' = cur /\ base'.pid = cur.pid /\ base'.total = cur.total
        /\ shares.pid = 0 /\ shares.total = 0
    BY <1>7 DEF EndStart, TypeOK, Readings
  <2> QED BY <2>1
<1>8. CASE Sample
  <2>1. /\ mpc = "sample" /\ mpc' = "started"
        /\ UNCHANGED <<machine, cur, base>>
        /\ last' = cur
        /\ shares'.pid = shares.pid + PidDelta
        /\ shares'.total = shares.total + TotalDelta
    BY <1>8 DEF Sample
  <2>2. CASE holder # "another"
    BY <2>1, <2>2, DeltasAreDifferences
  <2>3. CASE holder = "another"
    BY <2>1, <2>3
  <2> QED BY <2>2, <2>3
<1>9. CASE UNCHANGED vars
  BY <1>9 DEF vars
<1> QED BY <1>1, <1>2, <1>3, <1>4, <1>5, <1>6, <1>7, <1>8, <1>9 DEF Next, Method

LEMMA TimeInvariant == Spec => [](TypeInv /\ TimeInv)
BY TypeInit, TypeStep, TimeInit, TimeStep, PTL DEF Spec

\* Measure: while the pid is the target's, no CPU time is left out of the samples
\* and none is in two of them.
THEOREM TimesAreSharedOnce == Spec => []TimeSharedOnce
<1>1. TypeInv /\ TimeInv => TimeSharedOnce
  BY DEF TimeInv, TimeSharedOnce, BaselineKnown
<1> QED BY <1>1, TimeInvariant, PTL

\* Measure: the share of a sample exceeds one by no more than the target ran
\* between the two reads of the sample before.
THEOREM SharesAreBounded == Spec => []ShareIsBounded
<1>1. TypeInv /\ TimeInv => ShareIsBounded
  <2> SUFFICES ASSUME TypeInv, TimeInv, mpc = "sample", pidMode, holder # "another"
               PROVE  PidDelta <= TotalDelta + (last.total - last.at)
    BY DEF ShareIsBounded
  <2>1. TypeOK
    BY DEF TypeInv
  <2>2. Follows /\ cur.at <= cur.total
    BY DEF TimeInv, Complete
  <2> QED BY <2>1, <2>2, DeltasAreDifferences, Times DEF Follows
<1> QED BY <1>1, TimeInvariant, PTL
===============================================================================
