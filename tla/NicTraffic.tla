------------------------------ MODULE NicTraffic ------------------------------
(***************************************************************************)
(* How the "metrics" method of the nic module counts bytes: the eBPF       *)
(* programs that account packets (modules/nic/bpf/nic_bpf.c), one run per  *)
(* packet on whichever CPU handles it, and the method that reads their map *)
(* (Loader.Read in modules/nic/bpf/loader.go) and charges the differences  *)
(* (Start, Measure and Stop in modules/nic/ebpf_method/ebpf.go).           *)
(*                                                                         *)
(* nic_stats is preallocated and its entries are never deleted, so a value *)
(* pointer stays good and absent can be written as all zero: that is what  *)
(* Go's map lookups and a fresh entry give. An interface name stands for   *)
(* the index it was resolved to. The energy of a sample is linear in the   *)
(* bytes it charges (the elapsed time cancels), so bytes are what we keep. *)
(***************************************************************************)
EXTENDS Integers, FiniteSets

CONSTANTS
  CPUs,        \* the CPUs the programs run on
  Ifaces,      \* the interface indexes that carry traffic (0 is not one)
  Configured,  \* Loader.configuredIfaces: those named in nic.json
  MaxEntries,  \* max_entries of nic_stats (256 in the code)
  Lens,        \* lengths of packets
  MaxPackets   \* bound: packets the programs handle

ASSUME NicAssumption ==
  /\ IsFiniteSet(Ifaces) /\ Ifaces \subseteq Nat \ {0}
  /\ Configured \subseteq Ifaces
  /\ MaxEntries \in Nat
  /\ Lens \subseteq Nat
  /\ MaxPackets \in Nat

Dirs == {"rx", "tx"}
Counters == [Ifaces -> [Dirs -> Nat]]
Zero == [i \in Ifaces |-> [d \in Dirs |-> 0]]

VARIABLES
  keys,      \* the interfaces that have an entry in nic_stats
  stats,     \* their values
  prog,      \* prog[c]: the run of account_bytes on CPU c
  packets,   \* packets handled so far
  counted,   \* history: bytes of the packets whose program has returned
  skipped,   \* history: those that found no entry and no room for one
  mpc,       \* where the method is
  must,      \* keys the iteration in progress is bound to reach
  visited,   \* keys it has reached
  atBegin,   \* history: stats when it began
  out,       \* the map Loader.Read is building
  lastRead,  \* m.lastRead
  base,      \* history: the baseline read of Start
  charged    \* history: the sum of the deltas of all samples

kernel == <<keys, stats, prog, packets, counted, skipped>>
reader == <<mpc, must, visited, atBegin, out, lastRead, base, charged>>
vars   == <<kernel, reader>>

Idle == [at |-> "idle", ifindex |-> 0, dir |-> "rx", len |-> 0]

Init ==
  /\ keys = {} /\ stats = Zero
  /\ prog = [c \in CPUs |-> Idle]
  /\ packets = 0 /\ counted = Zero /\ skipped = Zero
  /\ mpc = "created"
  /\ must = {} /\ visited = {} /\ atBegin = Zero
  /\ out = Zero /\ lastRead = Zero /\ base = Zero /\ charged = Zero

-------------------------------------------------------------------------------
(***************************************************************************)
(* account_bytes, one step per access to the map.                          *)
(***************************************************************************)
Attached == mpc \in {"attached", "baseline", "started", "measuring"}

Finish(c) == prog' = [prog EXCEPT ![c] = Idle]

\* A packet; the first lookup.
Packet(c, i, d, len) ==
  /\ Attached /\ prog[c].at = "idle"
  /\ packets < MaxPackets
  /\ packets' = packets + 1
  /\ prog' = [prog EXCEPT ![c] =
                [at |-> IF i \in keys THEN "add" ELSE "insert",
                 ifindex |-> i, dir |-> d, len |-> len]]
  /\ UNCHANGED <<keys, stats, counted, skipped, reader>>

\* bpf_map_update_elem(.., BPF_NOEXIST): fails if another CPU was first, and if
\* the map is full; the result is not looked at.
Insert_Any(c) ==
  /\ prog[c].at = "insert"
  /\ IF prog[c].ifindex \in keys \/ Cardinality(keys) < MaxEntries
       THEN /\ keys' = keys \cup {prog[c].ifindex}
            /\ stats' = [stats EXCEPT ![prog[c].ifindex] = [d \in Dirs |-> 0]]
       ELSE UNCHANGED <<keys, stats>>
  /\ prog' = [prog EXCEPT ![c].at = "relookup"]
  /\ UNCHANGED <<packets, counted, skipped, reader>>

Insert_GivesUp(c) ==
  LET p == prog[c] IN
  /\ p.at = "insert"
  /\ IF p.ifindex \notin keys /\ Cardinality(keys) < MaxEntries
       THEN /\ keys' = keys \cup {p.ifindex}
            /\ prog' = [prog EXCEPT ![c].at = "relookup"]
            /\ UNCHANGED <<counted, skipped>>
       ELSE /\ Finish(c) /\ UNCHANGED keys
            /\ counted' = [counted EXCEPT ![p.ifindex][p.dir] = @ + p.len]
            /\ skipped' = [skipped EXCEPT ![p.ifindex][p.dir] = @ + p.len]
  /\ UNCHANGED <<stats, packets, reader>>

Insert(c) ==
  /\ prog[c].at = "insert"
  /\ keys' = IF Cardinality(keys) < MaxEntries
               THEN keys \cup {prog[c].ifindex} ELSE keys
  /\ prog' = [prog EXCEPT ![c].at = "relookup"]
  /\ UNCHANGED <<stats, packets, counted, skipped, reader>>

\* The second lookup: without an entry the packet is not accounted.
Relookup(c) ==
  LET p == prog[c] IN
  /\ p.at = "relookup"
  /\ IF p.ifindex \in keys
       THEN /\ prog' = [prog EXCEPT ![c].at = "add"]
            /\ UNCHANGED <<counted, skipped>>
       ELSE /\ Finish(c)
            /\ counted' = [counted EXCEPT ![p.ifindex][p.dir] = @ + p.len]
            /\ skipped' = [skipped EXCEPT ![p.ifindex][p.dir] = @ + p.len]
  /\ UNCHANGED <<keys, stats, packets, reader>>

\* __sync_fetch_and_add through the pointer the lookup gave.
Add(c) ==
  LET p == prog[c] IN
  /\ p.at = "add"
  /\ stats' = [stats EXCEPT ![p.ifindex][p.dir] = @ + p.len]
  /\ counted' = [counted EXCEPT ![p.ifindex][p.dir] = @ + p.len]
  /\ Finish(c)
  /\ UNCHANGED <<keys, packets, skipped, reader>>

-------------------------------------------------------------------------------
(***************************************************************************)
(* Loader.Read: an iteration over nic_stats while the programs run. It     *)
(* reaches every key present when it began and may reach newer ones.       *)
(***************************************************************************)
BeginRead(from, to) ==
  /\ mpc = from /\ mpc' = to
  /\ must' = keys /\ visited' = {} /\ atBegin' = stats
  /\ out' = Zero
  /\ UNCHANGED <<kernel, lastRead, base, charged>>

ReadKey(i) ==
  /\ mpc \in {"baseline", "measuring"}
  /\ i \in keys \ visited
  /\ visited' = visited \cup {i}
  /\ out' = IF i \in Configured THEN [out EXCEPT ![i] = stats[i]] ELSE out
  /\ UNCHANGED <<kernel, mpc, must, atBegin, lastRead, base, charged>>

-------------------------------------------------------------------------------
(***************************************************************************)
(* Start, Measure, Stop.                                                   *)
(***************************************************************************)
\* NewLoader. The programs count from here on, the baseline is read later.
AttachPrograms ==
  /\ mpc = "created"
  /\ mpc' = "attached"
  /\ UNCHANGED <<kernel, must, visited, atBegin, out, lastRead, base, charged>>

AttachFails ==
  /\ mpc = "created"
  /\ mpc' = "failed"
  /\ UNCHANGED <<kernel, must, visited, atBegin, out, lastRead, base, charged>>

Start == BeginRead("attached", "baseline")

BaselineRead ==
  /\ mpc = "baseline" /\ must \subseteq visited
  /\ mpc' = "started"
  /\ lastRead' = out /\ base' = out
  /\ UNCHANGED <<kernel, must, visited, atBegin, out, charged>>

\* The loader is closed again.
BaselineFails ==
  /\ mpc = "baseline"
  /\ mpc' = "failed"
  /\ UNCHANGED <<kernel, must, visited, atBegin, out, lastRead, base, charged>>

Measure == BeginRead("started", "measuring")

\* Counters that decrease are charged from 0.
Delta(i, d) ==
  IF out[i][d] < lastRead[i][d] THEN out[i][d] ELSE out[i][d] - lastRead[i][d]

Sample ==
  /\ mpc = "measuring" /\ must \subseteq visited
  /\ mpc' = "started"
  /\ charged' = [i \in Ifaces |-> [d \in Dirs |-> charged[i][d] + Delta(i, d)]]
  /\ lastRead' = out
  /\ UNCHANGED <<kernel, must, visited, atBegin, out, base>>

\* An error of the iteration: Measure returns it and m is as before.
MeasureFails_KeepsPartial ==
  /\ mpc = "measuring"
  /\ mpc' = "started"
  /\ lastRead' = Zero
  /\ UNCHANGED <<kernel, must, visited, atBegin, out, base, charged>>

MeasureFails ==
  /\ mpc = "measuring"
  /\ mpc' = "started"
  /\ UNCHANGED <<kernel, must, visited, atBegin, out, lastRead, base, charged>>

Stop ==
  /\ mpc = "started"
  /\ mpc' = "stopped"
  /\ UNCHANGED <<kernel, must, visited, atBegin, out, lastRead, base, charged>>

Account ==
  \E c \in CPUs :
    \/ \E i \in Ifaces, d \in Dirs, len \in Lens : Packet(c, i, d, len)
    \/ Insert(c) \/ Relookup(c) \/ Add(c)

Reading == BaselineRead \/ Sample \/ \E i \in Ifaces : ReadKey(i)

Failing == AttachFails \/ BaselineFails \/ MeasureFails

Next == Account \/ AttachPrograms \/ Start \/ Measure \/ Reading \/ Failing \/ Stop

Spec == Init /\ [][Next]_vars

-------------------------------------------------------------------------------
(***************************************************************************)
(* Properties.                                                             *)
(***************************************************************************)
Programs == [at : {"idle", "insert", "relookup", "add"},
             ifindex : Ifaces \cup {0}, dir : Dirs, len : Lens \cup {0}]

\* Every variable has its type; in particular no charge is ever negative.
TypeOK ==
  /\ keys \in SUBSET Ifaces /\ stats \in Counters
  /\ prog \in [CPUs -> Programs]
  /\ \A c \in CPUs : prog[c].at # "idle" => prog[c].ifindex # 0
  /\ packets \in 0..MaxPackets /\ counted \in Counters /\ skipped \in Counters
  /\ mpc \in {"created", "attached", "baseline", "started", "measuring",
              "failed", "stopped"}
  /\ must \in SUBSET Ifaces /\ visited \in SUBSET Ifaces /\ atBegin \in Counters
  /\ out \in Counters /\ lastRead \in Counters
  /\ base \in Counters /\ charged \in Counters

\* account_bytes: whichever CPUs race for the first packet of an interface, the
\* bytes of every packet are in its counter, but for those the full map refused.
KernelExact ==
  \A i \in Ifaces, d \in Dirs : stats[i][d] + skipped[i][d] = counted[i][d]

\* account_bytes: a packet is only skipped when max_entries other interfaces
\* have taken the map; an interface that has an entry never loses a byte.
OnlyFullMapSkips ==
  \A i \in Ifaces, d \in Dirs :
    skipped[i][d] > 0 => i \notin keys /\ Cardinality(keys) >= MaxEntries

\* Measure: whatever reads failed in between, the samples so far account for
\* exactly the difference between the last good read and the baseline.
ChargedOnce ==
  \A i \in Ifaces, d \in Dirs : base[i][d] + charged[i][d] = lastRead[i][d]

\* Loader.Read and Measure: a sample leaves nothing behind of what the counters
\* of the configured interfaces held when its read began.
SampleIsFresh ==
  [][mpc = "measuring" /\ charged' # charged =>
       \A i \in Configured, d \in Dirs :
         base[i][d] + charged'[i][d] >= atBegin[i][d]]_vars

\* The method is a meter of the bytes sent and received on each configured
\* interface since its baseline.
BaselineKnown == mpc \in {"started", "measuring", "stopped"}

Promise == INSTANCE Meter WITH
  Channels <- Configured \X Dirs,
  consumed <- [ch \in Configured \X Dirs |->
                 IF BaselineKnown
                   THEN stats[ch[1]][ch[2]] - base[ch[1]][ch[2]] ELSE 0],
  charged  <- [ch \in Configured \X Dirs |-> charged[ch[1]][ch[2]]]

ImplementsMeter == Promise!Spec
===============================================================================
