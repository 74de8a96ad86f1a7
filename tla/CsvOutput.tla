------------------------------- MODULE CsvOutput -------------------------------
(***************************************************************************)
(* The CSV output (outputs/csvfile/csvfile.go): runs of ecofloc that write *)
(* the same file, one after the other or at the same time, and may be      *)
(* killed at any point.                                                    *)
(*                                                                         *)
(* What a line is made of does not matter, only whether it is complete: a  *)
(* line is two pieces, <<x, 1>> and <<x, 2>>, x being the header or a row, *)
(* and <<i, n>> is the n-th row of run i. A file that does not exist is an *)
(* empty one: CSVCreator treats them alike. A write to the file may fail   *)
(* after some of the pieces (the disk is full). The rows of a batch fit in *)
(* the buffer of bufio: a batch has two metrics of some 60 bytes, and each *)
(* Write flushes.                                                          *)
(***************************************************************************)
EXTENDS Integers, Sequences, SequencesExt

CONSTANTS
  Runs,      \* runs of ecofloc with the csv output, on the same path
  Setups,    \* how they are used: see Setting
  MaxRows    \* bound: rows a run is given

\* modes: the values of "append" in csvfile.json; overlap: whether a run may begin
\* before the others have ended.
Setting == [modes : SUBSET BOOLEAN, overlap : BOOLEAN]

ASSUME CsvAssumption == Setups \subseteq Setting /\ MaxRows \in Nat

VARIABLES
  setup,   \* the one of Setups this behaviour is about
  file,    \* its pieces
  pc,      \* pc[i]: where run i is
  append,  \* cfg.Append
  header,  \* needHeader
  pos,     \* the offset of o.f, unless it appends
  buf,     \* the buffer of o.w
  err,     \* o.w.Error() # nil: it stays
  given,   \* history: rows given to Write
  acked    \* history: rows whose Write returned nil, not truncated away since

run  == <<append, header, pos, buf, err>>
vars == <<setup, file, pc, run, given, acked>>

Line(x) == <<<<x, 1>>, <<x, 2>>>>
Top     == <<"header", 0>>
Zeros   == <<"zeros", 0>>
Header  == Line(Top)
Rows(i, from, to) == FlattenSeq([n \in 1..(to - from) |-> Line(<<i, from + n>>)])

Init ==
  /\ setup \in Setups
  /\ file = <<>>
  /\ pc = [i \in Runs |-> "off"]
  /\ append = [i \in Runs |-> FALSE] /\ header = [i \in Runs |-> FALSE]
  /\ pos = [i \in Runs |-> 0]
  /\ buf = [i \in Runs |-> <<>>] /\ err = [i \in Runs |-> FALSE]
  /\ given = [i \in Runs |-> 0] /\ acked = {}

Goto(i, label) == pc' = [pc EXCEPT ![i] = label]
Ended(i)  == pc[i] \in {"failed", "closed", "closedWithError", "killed"}
Active(i) == pc[i] # "off" /\ ~Ended(i)

-------------------------------------------------------------------------------
(***************************************************************************)
(* CSVCreator.                                                             *)
(***************************************************************************)
NeedHeader_Always(a) == TRUE
NeedHeader(a) == ~a \/ file = <<>>

Stat(i, a) ==
  /\ pc[i] = "off"
  /\ setup.overlap \/ \A j \in Runs : ~Active(j)
  /\ append' = [append EXCEPT ![i] = a]
  /\ header' = [header EXCEPT ![i] = NeedHeader(a)]
  /\ Goto(i, "open")
  /\ UNCHANGED <<setup, file, pos, buf, err, given, acked>>

OpenFile(i) ==
  /\ pc[i] = "open"
  /\ IF append[i] THEN UNCHANGED <<file, acked>>
                  ELSE file' = <<>> /\ acked' = {}
  /\ buf' = [buf EXCEPT ![i] = IF header[i] THEN Header ELSE <<>>]
  /\ Goto(i, IF header[i] THEN "header" ELSE "ready")
  /\ UNCHANGED <<setup, append, header, pos, err, given>>

OpenFails(i) ==
  /\ pc[i] = "open"
  /\ Goto(i, "failed")
  /\ UNCHANGED <<setup, file, run, given, acked>>

-------------------------------------------------------------------------------
(***************************************************************************)
(* Flush writes the buffer with one call. If the call stops short, the     *)
(* rest stays in the buffer and the error is there for good.               *)
(***************************************************************************)
\* O_APPEND writes at the end; otherwise a file cut shorter meanwhile is filled
\* up with zero bytes.
Put(i, data) ==
  LET at   == IF append[i] THEN Len(file) ELSE pos[i]
      size == IF at + Len(data) > Len(file) THEN at + Len(data) ELSE Len(file)
  IN  /\ file' = [j \in 1..size |->
                    IF j \in (at + 1)..(at + Len(data)) THEN data[j - at]
                    ELSE IF j <= Len(file) THEN file[j] ELSE <<Zeros, 1>>]
      /\ pos' = [pos EXCEPT ![i] = at + Len(data)]

Failed_NotSticky(i, n) == FALSE
Failed(i, n) == n < Len(buf[i])

Rest(i, n) == SubSeq(buf[i], n + 1, Len(buf[i]))

\* The pieces that reach the file: n of them.
Flush(i, n) ==
  /\ n \in 0..Len(buf[i])
  /\ Put(i, SubSeq(buf[i], 1, n))
  /\ err' = [err EXCEPT ![i] = Failed(i, n)]
  /\ buf' = [buf EXCEPT ![i] = Rest(i, n)]

FlushHeader(i, n) ==
  /\ pc[i] = "header"
  /\ Flush(i, n)
  /\ Goto(i, IF err'[i] THEN "failed" ELSE "ready")
  /\ UNCHANGED <<setup, append, header, given, acked>>

-------------------------------------------------------------------------------
(***************************************************************************)
(* Write and Close.                                                        *)
(***************************************************************************)
AfterBuffering_NoFlush == "ready"
AfterBuffering == "flush"

\* A batch of rows goes to the buffer, unless there has been an error.
Write(i, rows) ==
  /\ pc[i] = "ready" /\ given[i] + rows <= MaxRows
  /\ given' = [given EXCEPT ![i] = @ + rows]
  /\ IF err[i]
       THEN UNCHANGED <<pc, buf>>
       ELSE /\ buf' = [buf EXCEPT ![i] = @ \o Rows(i, given[i], given[i] + rows)]
            /\ Goto(i, AfterBuffering)
  /\ UNCHANGED <<setup, file, append, header, pos, err, acked>>

Acknowledged_Always(i) == {i} \X (1..given[i])
Acknowledged(i) == IF err'[i] THEN {} ELSE {i} \X (1..given[i])

FlushRows(i, n) ==
  /\ pc[i] = "flush"
  /\ Flush(i, n)
  /\ acked' = acked \cup Acknowledged(i)
  /\ Goto(i, "ready")
  /\ UNCHANGED <<setup, append, header, given>>

\* Nothing is in the buffer, unless there has been an error, which is returned.
Outcome_Blind(i) == "closed"
Outcome(i) == IF err[i] THEN "closedWithError" ELSE "closed"

Close(i) ==
  /\ pc[i] = "ready"
  /\ Goto(i, Outcome(i))
  /\ UNCHANGED <<setup, file, run, given, acked>>

\* What was written stays, what was buffered does not.
Kill(i) ==
  /\ Active(i)
  /\ Goto(i, "killed")
  /\ UNCHANGED <<setup, file, run, given, acked>>

Create(i) == \/ \E a \in setup.modes : Stat(i, a)
             \/ OpenFile(i) \/ OpenFails(i)
             \/ \E n \in 0..2 : FlushHeader(i, n)

Output(i) == \/ \E rows \in 1..2 : Write(i, rows)
             \/ \E n \in 0..4 : FlushRows(i, n)
             \/ Close(i)

Next == \E i \in Runs : Create(i) \/ Output(i) \/ Kill(i)

Spec == Init /\ [][Next]_vars

-------------------------------------------------------------------------------
(***************************************************************************)
(* Properties.                                                             *)
(***************************************************************************)
Named  == {Top, Zeros} \cup (Runs \X (1..MaxRows))
Pieces == Seq(Named \X {1, 2})

\* Every variable has its type; between two Writes nothing is buffered.
TypeOK ==
  /\ setup \in Setups
  /\ file \in Pieces
  /\ pc \in [Runs -> {"off", "open", "header", "ready", "flush", "failed",
                      "closed", "closedWithError", "killed"}]
  /\ append \in [Runs -> BOOLEAN] /\ header \in [Runs -> BOOLEAN]
  /\ pos \in [Runs -> Nat]
  /\ buf \in [Runs -> Pieces] /\ err \in [Runs -> BOOLEAN]
  /\ \A i \in Runs : pc[i] = "ready" /\ ~err[i] => buf[i] = <<>>
  /\ given \in [Runs -> 0..MaxRows] /\ acked \subseteq Runs \X (1..MaxRows)

Begins(j, x)   == j \in 1..Len(file) /\ file[j] = <<x, 1>>
Complete(j, x) == Begins(j, x) /\ j < Len(file) /\ file[j + 1] = <<x, 2>>
Stored(x)      == \E j \in 1..Len(file) : Complete(j, x)

\* csvfile.go has no lock on the file: a run that truncates it, or that writes at
\* an offset of its own, needs it for itself.
Orderly == setup.overlap => FALSE \notin setup.modes

\* Write: a batch it accepted is in the file, whole and once, even if the run is
\* killed right after and whatever other runs that append do.
AckedIsStored ==
  Orderly =>
    \A r \in acked :
      Stored(r) /\ \A j, k \in 1..Len(file) : Begins(j, r) /\ Begins(k, r) => j = k

\* bufio's error is there for good: a row that is in the file in part was refused
\* by Write, and is the last thing of its run in the file.
TornIsLast ==
  Orderly =>
    \A r \in Runs \X (1..MaxRows), j \in 1..Len(file) :
      Begins(j, r) /\ ~Complete(j, r) =>
        /\ r \notin acked
        /\ \A k \in (j + 1)..Len(file), m \in 1..MaxRows : file[k][1] # <<r[1], m>>

\* Close: one that returns nil has lost nothing of what Write was given.
CloseTellsLoss ==
  [][\A i \in Runs :
       Orderly /\ pc[i] = "ready" /\ pc'[i] = "closed" =>
         \A m \in 1..given[i] : Stored(<<i, m>>)]_vars

\* csvfile.go:27-28: the header is written when the file is newly created, and
\* only then: it is the first line, be it cut short, and no other line is one.
HeaderOnTop ==
  \A j \in 1..Len(file) : Begins(j, Top) <=> j = 1

\* CSVCreator: it is so for runs that follow each other, whatever the mode and
\* the end of each.
HeaderOnTopInTurn == ~setup.overlap => HeaderOnTop
===============================================================================
