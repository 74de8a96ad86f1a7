--------------------------------- MODULE Rapl ---------------------------------
(***************************************************************************)
(* The "rapl" method of the cpu module (modules/cpu/rapl_method/rapl.go):  *)
(* Start and Measure read the energy counter of a RAPL domain, then, for a *)
(* target process, its CPU time and that of the system, and charge the     *)
(* target its share of the energy. The files are read one after the other  *)
(* while the machine works; the target may exit, and its pid be taken by   *)
(* another process.                                                        *)
(*                                                                         *)
(* A sample is deltaUJ times pidDelta over totalDelta: the three numbers   *)
(* are kept, not their quotient. Energy and CPU time are in small units.   *)
(***************************************************************************)
EXTENDS Integers

CONSTANTS
  PidModes,     \* the values of cfg.PID > 0
  MaxRange,     \* max_energy_range_uj, the highest value of energy_uj
  Word,         \* 2^64 in the code: the differences are of unsigned integers
  MaxEnergy,    \* bound: energy the domain uses
  MaxBusy       \* bound: CPU time the system uses

ASSUME RaplAssumption ==
  /\ PidModes \subseteq BOOLEAN
  /\ MaxRange \in Nat /\ Word \in Nat
  /\ MaxEnergy \in Nat /\ MaxBusy \in Nat \ {0}
  /\ MaxRange < Word /\ MaxBusy < Word

VARIABLES
  pidMode,   \* a target is charged, not the whole system
  energy,    \* history: what the domain has used
  holder,    \* of the pid: the "target", "nobody", or "another" process
  pidTime,   \* its CPU time
  sysTime,   \* busy CPU time of the system
  mpc,       \* where the method is
  cur,       \* what the Start or Measure under way has read; as history, the
             \* busy time of the system when it read the time of the pid
  last,      \* lastEnergyUJ and lastCPU
  spentAt,   \* history: energy when cur.energy and last.energy were read
  base,      \* history: energy and CPU times at the end of Start
  charged,   \* history: energy of all samples, before it is shared out
  shares     \* history: the sums of pidDelta and totalDelta over all samples

machine == <<pidMode, energy, holder, pidTime, sysTime>>
method  == <<mpc, cur, last, spentAt, base, charged, shares>>
vars    == <<machine, method>>

Nothing == [energy |-> 0, pid |-> 0, total |-> 0, at |-> 0]

Init ==
  /\ pidMode \in PidModes
  /\ energy \in 0..MaxRange /\ holder = "target"
  /\ pidTime \in 0..1 /\ sysTime \in pidTime..1
  /\ mpc = "created"
  /\ cur = Nothing /\ last = Nothing
  /\ spentAt = [cur |-> 0, last |-> 0] /\ base = Nothing
  /\ charged = 0 /\ shares = [pid |-> 0, total |-> 0]

-------------------------------------------------------------------------------
(***************************************************************************)
(* The machine. energy_uj has the values 0 to max_energy_range_uj.         *)
(***************************************************************************)
EnergyUJ == energy % (MaxRange + 1)

UseEnergy ==
  /\ energy < MaxEnergy
  /\ energy' = energy + 1
  /\ UNCHANGED <<pidMode, holder, pidTime, sysTime, method>>

\* A unit of CPU time, of the holder of the pid or of other processes.
UseTime(mine) ==
  /\ sysTime < MaxBusy
  /\ sysTime' = sysTime + 1
  /\ mine => holder # "nobody"
  /\ pidTime' = IF mine THEN pidTime + 1 ELSE pidTime
  /\ UNCHANGED <<pidMode, energy, holder, method>>

TargetExits ==
  /\ holder = "target"
  /\ holder' = "nobody"
  /\ UNCHANGED <<pidMode, energy, pidTime, sysTime, method>>

PidTaken ==
  /\ holder = "nobody"
  /\ holder' = "another" /\ pidTime' = 0
  /\ UNCHANGED <<pidMode, energy, sysTime, method>>

-------------------------------------------------------------------------------
(***************************************************************************)
(* Reading the files, for Start (baseline) and for Measure.                *)
(***************************************************************************)
Starting  == {"energy0", "pid0", "total0"}
Measuring == {"pid", "total", "sample"}

\* findDomain, and the range of the counter.
FindDomain(ok) ==
  /\ mpc = "created"
  /\ mpc' = IF ok THEN "energy0" ELSE "failed"
  /\ UNCHANGED <<machine, cur, last, spentAt, base, charged, shares>>

ReadEnergy ==
  /\ mpc \in {"energy0", "started"}
  /\ mpc' = CASE mpc = "energy0" /\ pidMode  -> "pid0"
              [] mpc = "energy0" /\ ~pidMode -> "baseline"
              [] mpc = "started" /\ pidMode  -> "pid"
              [] OTHER                       -> "sample"
  /\ cur' = [Nothing EXCEPT !.energy = EnergyUJ]
  /\ spentAt' = [spentAt EXCEPT !.cur = energy]
  /\ UNCHANGED <<machine, last, base, charged, shares>>

\* readCPUTimes: /proc/<pid>/stat.
ReadPid ==
  /\ mpc \in {"pid0", "pid"}
  /\ holder # "nobody"
  /\ mpc' = IF mpc = "pid0" THEN "total0" ELSE "total"
  /\ cur' = [cur EXCEPT !.pid = pidTime, !.at = sysTime]
  /\ UNCHANGED <<machine, last, spentAt, base, charged, shares>>

\* readCPUTimes: /proc/stat.
ReadTotal ==
  /\ mpc \in {"total0", "total"}
  /\ mpc' = IF mpc = "total0" THEN "baseline" ELSE "sample"
  /\ cur' = [cur EXCEPT !.total = sysTime]
  /\ UNCHANGED <<machine, last, spentAt, base, charged, shares>>

\* Start returns an error; Measure returns no samples and leaves m as it was,
\* whether the process is gone or a file cannot be read.
ReadFails_Overwrites ==
  /\ mpc \in Starting \cup {"pid", "total"}
  /\ mpc' = IF mpc \in Starting THEN "failed" ELSE "started"
  /\ last' = [last EXCEPT !.pid = cur.pid, !.total = cur.total]
  /\ UNCHANGED <<machine, cur, spentAt, base, charged, shares>>

ReadFails ==
  /\ mpc \in Starting \cup {"pid", "total"}
  /\ mpc' = IF mpc \in Starting THEN "failed" ELSE "started"
  /\ UNCHANGED <<machine, cur, last, spentAt, base, charged, shares>>

EndStart_NoBaseline ==
  /\ mpc = "baseline"
  /\ mpc' = "started"
  /\ last' = [cur EXCEPT !.energy = 0] /\ base' = [cur EXCEPT !.energy = spentAt.cur]
  /\ spentAt' = [spentAt EXCEPT !.last = spentAt.cur]
  /\ UNCHANGED <<machine, cur, charged, shares>>

EndStart ==
  /\ mpc = "baseline"
  /\ mpc' = "started"
  /\ last' = cur /\ base' = [cur EXCEPT !.energy = spentAt.cur]
  /\ spentAt' = [spentAt EXCEPT !.last = spentAt.cur]
  /\ UNCHANGED <<machine, cur, charged, shares>>

-------------------------------------------------------------------------------
(***************************************************************************)
(* The sample.                                                             *)
(***************************************************************************)
DeltaUJ_FromZero ==
  IF cur.energy >= last.energy THEN cur.energy - last.energy ELSE cur.energy
DeltaUJ ==
  IF cur.energy >= last.energy
    THEN cur.energy - last.energy
    ELSE MaxRange - last.energy + cur.energy

PidDelta   == (cur.pid - last.pid) % Word
TotalDelta == (cur.total - last.total) % Word

\* Without any busy time in the interval, its energy is charged to nobody.
Sample_KeepsPid ==
  /\ mpc = "sample"
  /\ mpc' = "started"
  /\ charged' = IF pidMode /\ TotalDelta = 0 THEN charged ELSE charged + DeltaUJ
  /\ shares' = [pid |-> shares.pid + PidDelta, total |-> shares.total + TotalDelta]
  /\ last' = [cur EXCEPT !.pid = last.pid]
  /\ spentAt' = [spentAt EXCEPT !.last = spentAt.cur]
  /\ UNCHANGED <<machine, cur, base>>

Sample ==
  /\ mpc = "sample"
  /\ mpc' = "started"
  /\ charged' = IF pidMode /\ TotalDelta = 0 THEN charged ELSE charged + DeltaUJ
  /\ shares' = [pid |-> shares.pid + PidDelta, total |-> shares.total + TotalDelta]
  /\ last' = cur
  /\ spentAt' = [spentAt EXCEPT !.last = spentAt.cur]
  /\ UNCHANGED <<machine, cur, base>>

Stop ==
  /\ mpc = "started"
  /\ mpc' = "stopped"
  /\ UNCHANGED <<machine, cur, last, spentAt, base, charged, shares>>

Machine == \/ UseEnergy \/ TargetExits \/ PidTaken
           \/ \E mine \in BOOLEAN : UseTime(mine)

Method == \/ \E ok \in BOOLEAN : FindDomain(ok)
          \/ ReadEnergy \/ ReadPid \/ ReadTotal \/ ReadFails
          \/ EndStart \/ Sample \/ Stop

Next == Machine \/ Method

Spec == Init /\ [][Next]_vars

-------------------------------------------------------------------------------
(***************************************************************************)
(* Properties.                                                             *)
(***************************************************************************)
Readings == [energy : Nat, pid : 0..MaxBusy, total : 0..MaxBusy,
             at : 0..MaxBusy]

\* Every variable has its type; the sums stay natural numbers.
TypeOK ==
  /\ pidMode \in PidModes
  /\ energy \in Nat /\ holder \in {"target", "nobody", "another"}
  /\ pidTime \in 0..MaxBusy /\ sysTime \in 0..MaxBusy
  /\ mpc \in {"created", "failed", "baseline", "started", "stopped"}
               \cup Starting \cup Measuring
  /\ cur \in Readings /\ last \in Readings /\ base \in Readings
  /\ cur.energy <= MaxRange /\ last.energy <= MaxRange
  /\ spentAt \in [cur : Nat, last : Nat]
  /\ charged \in Nat /\ shares \in [pid : Nat, total : Nat]

\* Measure, wrap-around: a sample that covers less than a turn of the counter
\* misses at most one unit of the energy used since the last one.
Spent == spentAt.cur - spentAt.last

WrapIsNearlyExact ==
  mpc = "sample" /\ Spent <= MaxRange => DeltaUJ \in {Spent, Spent - 1}

\* Measure: as long as the pid is the target's, whatever reads failed, the
\* samples account for exactly the CPU time between the first and last reading.
TimeSharedOnce ==
  mpc \in Measuring \cup {"started"} /\ holder # "another" =>
    /\ shares.pid = last.pid - base.pid
    /\ shares.total = last.total - base.total

\* Measure: the two times of a sample are not read together, so what the target
\* ran between them at the last sample comes late and its share of the energy can
\* exceed one; by no more than that, however many reads failed since.
ShareIsBounded ==
  mpc = "sample" /\ pidMode /\ holder # "another" =>
    PidDelta <= TotalDelta + (last.total - last.at)

\* The method is a meter of the energy of its domain: however often the counter
\* wraps and whichever reads fail, it shares out no energy twice.
BaselineKnown == mpc \in Measuring \cup {"started", "stopped"}

Promise == INSTANCE Meter WITH
  Channels <- {"domain"},
  consumed <- [ch \in {"domain"} |-> IF BaselineKnown THEN energy - base.energy ELSE 0],
  charged  <- [ch \in {"domain"} |-> charged]

ImplementsMeter == Promise!Spec
===============================================================================
