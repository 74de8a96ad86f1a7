--------------------------- MODULE CsvOutput_proofs ---------------------------
(***************************************************************************)
(* Proofs about CsvOutput, for any runs, any setups and any number of      *)
(* rows.                                                                   *)
(***************************************************************************)
EXTENDS CsvOutput, TLAPS

-------------------------------------------------------------------------------
(***************************************************************************)
(* What Write buffers: the lines of one or two rows.                       *)
(***************************************************************************)
LEMMA FlattenOne ==
  ASSUME NEW s, Len(s) = 1
  PROVE  FlattenSeq(s) = s[1]
<1> DEFINE Is(f) == f = [i \in 1..Len(s) |-> IF i = 1 THEN s[i] ELSE f[i-1] \o s[i]]
           flatten == CHOOSE f : Is(f)
<1>1. FlattenSeq(s) = flatten[1]
  BY DEF FlattenSeq
<1>2. Is([i \in 1..1 |-> s[1]])
  OBVIOUS
<1>3. Is(flatten)
  <2> HIDE DEF Is
  <2> QED BY <1>2
<1>4. flatten[1] = s[1]
  <2> HIDE DEF flatten
  <2> QED BY <1>3
<1> QED BY <1>1, <1>4

LEMMA FlattenTwo ==
  ASSUME NEW s, Len(s) = 2
  PROVE  FlattenSeq(s) = s[1] \o s[2]
<1> DEFINE Is(f) == f = [i \in 1..Len(s) |-> IF i = 1 THEN s[i] ELSE f[i-1] \o s[i]]
           flatten == CHOOSE f : Is(f)
<1>1. FlattenSeq(s) = flatten[2]
  BY DEF FlattenSeq
<1>2. Is([i \in 1..2 |-> IF i = 1 THEN s[1] ELSE s[1] \o s[2]])
  OBVIOUS
<1>3. Is(flatten)
  <2> HIDE DEF Is
  <2> QED BY <1>2
<1>4. flatten[2] = s[1] \o s[2]
  <2> HIDE DEF flatten
  <2>1. 2 \in 1..Len(s) /\ 1 \in 1..Len(s)
    OBVIOUS
  <2>2. flatten[2] = flatten[1] \o s[2]
    BY <1>3, <2>1
  <2>3. flatten[1] = s[1]
    BY <1>3, <2>1
  <2> QED BY <2>2, <2>3
<1> QED BY <1>1, <1>4

LEMMA RowsAre ==
  ASSUME NEW i, NEW g \in Nat
  PROVE  /\ Rows(i, g, g + 1) = <<<<<<i, g + 1>>, 1>>, <<<<i, g + 1>>, 2>>>>
         /\ Rows(i, g, g + 2) = <<<<<<i, g + 1>>, 1>>, <<<<i, g + 1>>, 2>>,
                                  <<<<i, g + 2>>, 1>>, <<<<i, g + 2>>, 2>>>>
<1> DEFINE L(d) == [n \in 1..d |-> Line(<<i, g + n>>)]
<1>1. Len(L(1)) = 1 /\ Len(L(2)) = 2
  OBVIOUS
<1>2. L(1)[1] = Line(<<i, g + 1>>)
  OBVIOUS
<1>3. L(2)[1] = Line(<<i, g + 1>>) /\ L(2)[2] = Line(<<i, g + 2>>)
  OBVIOUS
<1>4. Rows(i, g, g + 1) = FlattenSeq(L(1)) /\ Rows(i, g, g + 2) = FlattenSeq(L(2))
  BY DEF Rows
<1> HIDE DEF L
<1>5. FlattenSeq(L(1)) = Line(<<i, g + 1>>)
  BY <1>1, <1>2, FlattenOne
<1>6. FlattenSeq(L(2)) = Line(<<i, g + 1>>) \o Line(<<i, g + 2>>)
  BY <1>1, <1>3, FlattenTwo
<1> QED BY <1>4, <1>5, <1>6 DEF Line

\* b has the lines of the rows g + 1 to h of run i, each whole and once.
Lines(b, i, g, h) ==
  /\ b \in Seq(({i} \X ((g + 1)..h)) \X {1, 2})
  /\ \A n \in 1..Len(b) :
       b[n][2] = 1 => n < Len(b) /\ b[n + 1] = <<b[n][1], 2>>
  /\ \A m, n \in 1..Len(b) : b[m] = b[n] => m = n
  /\ \A m \in (g + 1)..h : \E n \in 1..Len(b) : b[n] = <<<<i, m>>, 1>>

LEMMA RowsAreLines ==
  ASSUME NEW i, NEW g \in Nat, NEW h \in {g + 1, g + 2}
  PROVE  Lines(Rows(i, g, h), i, g, h)
<1>1. CASE h = g + 1
  <2> DEFINE b == <<<<<<i, g + 1>>, 1>>, <<<<i, g + 1>>, 2>>>>
  <2>1. Rows(i, g, h) = b
    BY <1>1, RowsAre
  <2>2. Lines(b, i, g, h)
    BY <1>1 DEF Lines
  <2> QED BY <2>1, <2>2
<1>2. CASE h = g + 2
  <2> DEFINE b == <<<<<<i, g + 1>>, 1>>, <<<<i, g + 1>>, 2>>,
                    <<<<i, g + 2>>, 1>>, <<<<i, g + 2>>, 2>>>>
             S == ({i} \X ((g + 1)..h)) \X {1, 2}
  <2>1. Rows(i, g, h) = b
    BY <1>2, RowsAre
  <2>2. /\ <<<<i, g + 1>>, 1>> \in S /\ <<<<i, g + 1>>, 2>> \in S
        /\ <<<<i, g + 2>>, 1>> \in S /\ <<<<i, g + 2>>, 2>> \in S
    BY <1>2
  <2>3. b \in Seq(S)
    <3> HIDE DEF S
    <3> QED BY <2>2
  <2>4. /\ Len(b) = 4
        /\ b[1] = <<<<i, g + 1>>, 1>> /\ b[2] = <<<<i, g + 1>>, 2>>
        /\ b[3] = <<<<i, g + 2>>, 1>> /\ b[4] = <<<<i, g + 2>>, 2>>
    OBVIOUS
  <2> HIDE DEF b
  <2>5. 1..Len(b) = {1, 2, 3, 4} /\ (g + 1)..h = {g + 1, g + 2}
    BY <1>2, <2>4
  <2>6. \A n \in 1..Len(b) :
          b[n][2] = 1 => n < Len(b) /\ b[n + 1] = <<b[n][1], 2>>
    BY <2>4, <2>5
  <2>7. \A m, n \in 1..Len(b) : b[m] = b[n] => m = n
    BY <2>4, <2>5
  <2>8. \A m \in (g + 1)..h : \E n \in 1..Len(b) : b[n] = <<<<i, m>>, 1>>
    BY <2>4, <2>5
  <2>9. Lines(b, i, g, h)
    BY <2>3, <2>6, <2>7, <2>8 DEF Lines
  <2> QED BY <2>1, <2>9
<1> QED BY <1>1, <1>2

-------------------------------------------------------------------------------
(***************************************************************************)
(* Types, whatever the setup.                                              *)
(***************************************************************************)
LEMMA Parts ==
  /\ Header \in Pieces /\ Len(Header) = 2
  /\ Header[1] = <<Top, 1>> /\ Header[2] = <<Top, 2>>
  /\ <<>> \in Pieces /\ <<Zeros, 1>> \in Named \X {1, 2}
BY DEF Header, Line, Top, Pieces, Named

LEMMA RowsArePieces ==
  ASSUME NEW i \in Runs, NEW g \in Nat, NEW rows \in 1..2, g + rows <= MaxRows
  PROVE  Rows(i, g, g + rows) \in Pieces
<1>1. Lines(Rows(i, g, g + rows), i, g, g + rows)
  BY RowsAreLines
<1>2. (g + 1)..(g + rows) \subseteq 1..MaxRows
  BY CsvAssumption
<1>3. ({i} \X ((g + 1)..(g + rows))) \X {1, 2} \subseteq Named \X {1, 2}
  BY <1>2 DEF Named
<1> HIDE DEF Named
<1> QED BY <1>1, <1>3 DEF Lines, Pieces

LEMMA Prefix ==
  ASSUME NEW S, NEW b \in Seq(S), NEW n \in 0..Len(b)
  PROVE  /\ SubSeq(b, 1, n) \in Seq(S) /\ Len(SubSeq(b, 1, n)) = n
         /\ \A k \in 1..n : SubSeq(b, 1, n)[k] = b[k]
         /\ SubSeq(b, n + 1, Len(b)) \in Seq(S)
         /\ n = Len(b) => SubSeq(b, n + 1, Len(b)) = <<>>
OBVIOUS

LEMMA PutType ==
  ASSUME TypeOK, NEW i \in Runs, NEW d \in Pieces, Put(i, d)
  PROVE  file' \in Pieces /\ pos' \in [Runs -> Nat]
<1> DEFINE at   == IF append[i] THEN Len(file) ELSE pos[i]
           size == IF at + Len(d) > Len(file) THEN at + Len(d) ELSE Len(file)
           P    == Named \X {1, 2}
<1>1. /\ file \in Seq(P) /\ d \in Seq(P) /\ pos \in [Runs -> Nat]
      /\ <<Zeros, 1>> \in P
  BY Parts DEF TypeOK, Pieces
<1>2. /\ file' = [j \in 1..size |->
                    IF j \in (at + 1)..(at + Len(d)) THEN d[j - at]
                    ELSE IF j <= Len(file) THEN file[j] ELSE <<Zeros, 1>>]
      /\ pos' = [pos EXCEPT ![i] = at + Len(d)]
  BY DEF Put
<1> HIDE DEF P
<1>3. at \in Nat /\ Len(d) \in Nat /\ Len(file) \in Nat /\ size \in Nat
  BY <1>1
<1>4. pos' \in [Runs -> Nat]
  BY <1>1, <1>2, <1>3
<1> HIDE DEF at, size
<1>5. ASSUME NEW j \in 1..size
      PROVE  file'[j] \in P
  <2>1. CASE j \in (at + 1)..(at + Len(d))
    <3>1. j - at \in 1..Len(d)
      BY <1>3, <2>1
    <3> QED BY <1>1, <1>2, <2>1, <3>1
  <2>2. CASE j \notin (at + 1)..(at + Len(d)) /\ j <= Len(file)
    BY <1>1, <1>2, <1>3, <2>2
  <2>3. CASE j \notin (at + 1)..(at + Len(d)) /\ ~(j <= Len(file))
    BY <1>1, <1>2, <2>3
  <2> QED BY <2>1, <2>2, <2>3
<1>6. file' \in [1..size -> P]
  BY <1>2, <1>5
<1>7. file' \in Seq(P)
  BY <1>3, <1>6
<1> QED BY <1>4, <1>7 DEF P, Pieces

\* A flush that leaves no error has left nothing in the buffer.
LEMMA FlushType ==
  ASSUME TypeOK, NEW i \in Runs, NEW n, Flush(i, n)
  PROVE  /\ file' \in Pieces /\ pos' \in [Runs -> Nat]
         /\ buf' \in [Runs -> Pieces] /\ err' \in [Runs -> BOOLEAN]
         /\ ~err'[i] => buf'[i] = <<>>
         /\ \A k \in Runs : k # i => buf'[k] = buf[k] /\ err'[k] = err[k]
<1>1. buf[i] \in Pieces
  BY DEF TypeOK
<1>2. n \in 0..Len(buf[i])
  BY DEF Flush
<1>3. /\ SubSeq(buf[i], 1, n) \in Pieces
      /\ Rest(i, n) \in Pieces
      /\ n = Len(buf[i]) => Rest(i, n) = <<>>
  BY <1>1, <1>2, Prefix DEF Pieces, Rest
<1>4. /\ Put(i, SubSeq(buf[i], 1, n))
      /\ err' = [err EXCEPT ![i] = n < Len(buf[i])]
      /\ buf' = [buf EXCEPT ![i] = Rest(i, n)]
  BY DEF Flush, Failed
<1>5. file' \in Pieces /\ pos' \in [Runs -> Nat]
  BY <1>3, <1>4, PutType
<1>6. buf \in [Runs -> Pieces] /\ err \in [Runs -> BOOLEAN]
  BY DEF TypeOK
<1>7. ~err'[i] => n = Len(buf[i])
  <2>1. Len(buf[i]) \in Nat
    BY <1>1 DEF Pieces
  <2>2. err'[i] = (n < Len(buf[i]))
    BY <1>4, <1>6
  <2> HIDE DEF Pieces
  <2>3. ~err'[i] => ~(n < Len(buf[i]))
    BY <2>2, Zenon
  <2>4. ~(n < Len(buf[i])) => n = Len(buf[i])
    BY <1>2, <2>1
  <2> QED BY <2>3, <2>4, Zenon
<1> HIDE DEF Pieces
<1> QED BY <1>3, <1>4, <1>5, <1>6, <1>7

LEMMA TypeInit == Init => TypeOK
BY Parts, CsvAssumption DEF Init, TypeOK

LEMMA TypeStep == TypeOK /\ [Next]_vars => TypeOK'
<1> SUFFICES ASSUME TypeOK, [Next]_vars PROVE TypeOK'
  OBVIOUS
<1> USE DEF Goto, run
<1> HIDE DEF Pieces
<1>1. ASSUME NEW i \in Runs, NEW a \in setup.modes, Stat(i, a)
      PROVE  TypeOK'
  <2>1. a \in BOOLEAN /\ NeedHeader(a) \in BOOLEAN
    BY CsvAssumption DEF TypeOK, Setting, NeedHeader
  <2> QED BY <1>1, <2>1 DEF Stat, TypeOK
<1>2. ASSUME NEW i \in Runs, OpenFile(i)
      PROVE  TypeOK'
  <2>1. file' \in Pieces /\ acked' \subseteq Runs \X (1..MaxRows)
    BY <1>2, Parts DEF OpenFile, TypeOK
  <2>2. /\ buf' \in [Runs -> Pieces]
        /\ \A k \in Runs : pc'[k] = "ready" /\ ~err'[k] => buf'[k] = <<>>
    BY <1>2, Parts DEF OpenFile, TypeOK
  <2>3. pc' \in [Runs -> {"off", "open", "header", "ready", "flush", "failed",
                          "closed", "closedWithError", "killed"}]
    BY <1>2 DEF OpenFile, TypeOK
  <2> QED BY <1>2, <2>1, <2>2, <2>3 DEF OpenFile, TypeOK
<1>3. ASSUME NEW i \in Runs, OpenFails(i) \/ Close(i) \/ Kill(i)
      PROVE  TypeOK'
  <2>1. /\ \E l \in {"failed", "closed", "closedWithError", "killed"} :
             pc' = [pc EXCEPT ![i] = l]
        /\ UNCHANGED <<setup, file, run, given, acked>>
    BY <1>3 DEF OpenFails, Close, Kill, Outcome
  <2> QED BY <2>1 DEF TypeOK
<1>4. ASSUME NEW i \in Runs, NEW n \in 0..2, FlushHeader(i, n)
      PROVE  TypeOK'
  <2>1. /\ file' \in Pieces /\ pos' \in [Runs -> Nat]
        /\ buf' \in [Runs -> Pieces] /\ err' \in [Runs -> BOOLEAN]
        /\ ~err'[i] => buf'[i] = <<>>
        /\ \A k \in Runs : k # i => buf'[k] = buf[k] /\ err'[k] = err[k]
    BY <1>4, FlushType DEF FlushHeader
  <2>2. /\ pc' = [pc EXCEPT ![i] = IF err'[i] THEN "failed" ELSE "ready"]
        /\ UNCHANGED <<setup, append, header, given, acked>>
    BY <1>4 DEF FlushHeader
  <2> QED BY <2>1, <2>2 DEF TypeOK
<1>5. ASSUME NEW i \in Runs, NEW rows \in 1..2, Write(i, rows)
      PROVE  TypeOK'
  <2>1. given[i] \in Nat /\ given[i] + rows <= MaxRows
    BY <1>5 DEF Write, TypeOK
  <2>2. given' \in [Runs -> 0..MaxRows]
    BY <1>5, <2>1, CsvAssumption DEF Write, TypeOK
  <2>3. CASE err[i]
    BY <1>5, <2>2, <2>3 DEF Write, TypeOK
  <2>4. CASE ~err[i]
    <3>1. Rows(i, given[i], given[i] + rows) \in Pieces
      BY <2>1, RowsArePieces
    <3>2. buf[i] \o Rows(i, given[i], given[i] + rows) \in Pieces
      BY <3>1 DEF TypeOK, Pieces
    <3>3. /\ buf' = [buf EXCEPT ![i] = buf[i] \o Rows(i, given[i], given[i] + rows)]
          /\ pc' = [pc EXCEPT ![i] = "flush"]
          /\ UNCHANGED <<setup, file, append, header, pos, err, acked>>
      BY <1>5, <2>4 DEF Write, AfterBuffering
    <3> QED BY <2>2, <3>2, <3>3 DEF TypeOK
  <2> QED BY <2>3, <2>4
<1>6. ASSUME NEW i \in Runs, NEW n \in 0..4, FlushRows(i, n)
      PROVE  TypeOK'
  <2>1. /\ file' \in Pieces /\ pos' \in [Runs -> Nat]
        /\ buf' \in [Runs -> Pieces] /\ err' \in [Runs -> BOOLEAN]
        /\ ~err'[i] => buf'[i] = <<>>
        /\ \A k \in Runs : k # i => buf'[k] = buf[k] /\ err'[k] = err[k]
    BY <1>6, FlushType DEF FlushRows
  <2>2. /\ pc' = [pc EXCEPT ![i] = "ready"]
        /\ acked' = acked \cup Acknowledged(i)
        /\ UNCHANGED <<setup, append, header, given>>
    BY <1>6 DEF FlushRows
  <2>3. Acknowledged(i) \subseteq Runs \X (1..MaxRows)
    <3>1. given[i] \in 0..MaxRows
      BY DEF TypeOK
    <3>2. 1..given[i] \subseteq 1..MaxRows
      BY <3>1, CsvAssumption
    <3> QED BY <3>2 DEF Acknowledged
  <2> QED BY <2>1, <2>2, <2>3 DEF TypeOK
<1>7. CASE UNCHANGED vars
  BY <1>7 DEF vars, TypeOK
<1> QED BY <1>1, <1>2, <1>3, <1>4, <1>5, <1>6, <1>7 DEF Next, Create, Output

\* Any runs, in any modes, one after the other or at once: types, always; between
\* two Writes nothing is buffered, unless one has failed.
THEOREM TypeCorrect == Spec => []TypeOK
BY TypeInit, TypeStep, PTL DEF Spec

-------------------------------------------------------------------------------
(***************************************************************************)
(* Who uses the file when. At most one run is active if they do not        *)
(* overlap, and a run is in a mode of the setup; so in an orderly setup    *)
(* each flush adds to the end of the file.                                 *)
(***************************************************************************)
Writing(i) == pc[i] \in {"header", "ready", "flush"}

Turns ==
  /\ ~setup.overlap => \A i, j \in Runs : Active(i) /\ Active(j) => i = j
  /\ \A i \in Runs : Active(i) => append[i] \in setup.modes

AtEnd ==
  \A i \in Runs :
    /\ pc[i] \in {"off", "open"} => pos[i] = 0
    /\ Writing(i) /\ ~append[i] => pos[i] = Len(file)

(***************************************************************************)
(* What is in the file. Rows of a run come in order: those flushed are     *)
(* there, whole, unless there has been an error, and those in the buffer   *)
(* are not.                                                                *)
(***************************************************************************)
NoneAbove(i, g) ==
  \A j \in 1..Len(file), m \in 1..MaxRows : file[j][1] = <<i, m>> => m <= g

AllStored(i, g) == \A m \in 1..g : Stored(<<i, m>>)

Buffered(i) ==
  \E g \in 0..MaxRows :
    /\ given[i] \in {g + 1, g + 2}
    /\ buf[i] = Rows(i, g, given[i])
    /\ NoneAbove(i, g) /\ AllStored(i, g)

Kept(i) ==
  /\ pc[i] \in {"off", "open", "header"} => given[i] = 0 /\ ~err[i]
  /\ pc[i] = "header" => buf[i] = Header
  /\ pc[i] = "ready" /\ ~err[i] => AllStored(i, given[i])
  /\ pc[i] = "flush" => ~err[i] /\ Buffered(i)
  /\ NoneAbove(i, given[i])

Once ==
  \A r \in Runs \X (1..MaxRows), j, k \in 1..Len(file) :
    Begins(j, r) /\ Begins(k, r) => j = k

TornHasError ==
  \A r \in Runs \X (1..MaxRows), j \in 1..Len(file) :
    Begins(j, r) /\ ~Complete(j, r) =>
      /\ err[r[1]]
      /\ \A k \in (j + 1)..Len(file), m \in 1..MaxRows : file[k][1] # <<r[1], m>>

AckedStored == \A r \in acked : Stored(r)

FileInv == AtEnd /\ (\A i \in Runs : Kept(i)) /\ Once /\ TornHasError /\ AckedStored

LEMMA TurnsInit == Init => Turns
BY DEF Init, Turns, Active

LEMMA TurnsStep == TypeOK /\ Turns /\ [Next]_vars => Turns'
<1> SUFFICES ASSUME TypeOK, Turns, [Next]_vars PROVE Turns'
  OBVIOUS
<1> USE DEF Turns, Active, Ended, Goto, run
<1>1. ASSUME NEW i \in Runs, NEW a \in setup.modes, Stat(i, a)
      PROVE  Turns'
  <2>1. /\ pc'[i] = "open" /\ append'[i] = a
        /\ \A k \in Runs : k # i => pc'[k] = pc[k] /\ append'[k] = append[k]
        /\ setup' = setup
    BY <1>1 DEF Stat, TypeOK
  <2>2. setup.overlap \/ \A j \in Runs : ~Active(j)
    BY <1>1 DEF Stat
  <2> QED BY <2>1, <2>2
<1>2. ASSUME NEW i \in Runs, Active(i), UNCHANGED <<setup, append>>,
             NEW l, pc' = [pc EXCEPT ![i] = l]
      PROVE  Turns'
  BY <1>2 DEF TypeOK
<1>3. ASSUME NEW i \in Runs, OpenFile(i) \/ OpenFails(i) \/ Close(i) \/ Kill(i)
      PROVE  Turns'
  BY <1>2, <1>3 DEF OpenFile, OpenFails, Close, Kill
<1>4. ASSUME NEW i \in Runs, NEW n, FlushHeader(i, n) \/ FlushRows(i, n)
      PROVE  Turns'
  BY <1>2, <1>4 DEF FlushHeader, FlushRows
<1>5. ASSUME NEW i \in Runs, NEW rows \in 1..2, Write(i, rows)
      PROVE  Turns'
  BY <1>2, <1>5 DEF Write
<1>6. CASE UNCHANGED vars
  BY <1>6 DEF vars
<1> QED BY <1>1, <1>3, <1>4, <1>5, <1>6 DEF Next, Create, Output

\* The file gets d at its end.
Grows(d) ==
  /\ Len(file') = Len(file) + Len(d)
  /\ \A k \in 1..Len(file) : file'[k] = file[k]
  /\ \A k \in 1..Len(d) : file'[Len(file) + k] = d[k]

LEMMA PutAppends ==
  ASSUME TypeOK, NEW i \in Runs, NEW d \in Pieces, Put(i, d),
         append[i] \/ pos[i] = Len(file)
  PROVE  /\ Grows(d)
         /\ pos'[i] = Len(file')
         /\ \A k \in Runs : k # i => pos'[k] = pos[k]
<1> DEFINE P == Named \X {1, 2}
<1>1. file \in Seq(P) /\ d \in Seq(P) /\ pos \in [Runs -> Nat]
  BY DEF TypeOK, Pieces
<1> HIDE DEF P
<1>2. Len(file) \in Nat /\ Len(d) \in Nat
  BY <1>1
<1>3. /\ file' = [j \in 1..(Len(file) + Len(d)) |->
                    IF j \in (Len(file) + 1)..(Len(file) + Len(d))
                      THEN d[j - Len(file)]
                    ELSE IF j <= Len(file) THEN file[j] ELSE <<Zeros, 1>>]
      /\ pos' = [pos EXCEPT ![i] = Len(file) + Len(d)]
  <2>1. (IF append[i] THEN Len(file) ELSE pos[i]) = Len(file)
    OBVIOUS
  <2>2. (IF Len(file) + Len(d) > Len(file) THEN Len(file) + Len(d)
         ELSE Len(file)) = Len(file) + Len(d)
    BY <1>2
  <2> QED BY <2>1, <2>2 DEF Put
<1>4. Len(file') = Len(file) + Len(d)
  BY <1>2, <1>3
<1>5. \A k \in 1..Len(file) : file'[k] = file[k]
  BY <1>2, <1>3
<1>6. \A k \in 1..Len(d) : file'[Len(file) + k] = d[k]
  <2> TAKE k \in 1..Len(d)
  <2>1. /\ Len(file) + k \in 1..(Len(file) + Len(d))
        /\ Len(file) + k \in (Len(file) + 1)..(Len(file) + Len(d))
        /\ (Len(file) + k) - Len(file) = k
    BY <1>2
  <2> QED BY <1>3, <2>1
<1> QED BY <1>1, <1>3, <1>4, <1>5, <1>6 DEF Grows

LEMMA Lengths ==
  ASSUME TypeOK
  PROVE  /\ Len(file) \in Nat
         /\ \A i \in Runs : /\ given[i] \in Nat /\ given[i] <= MaxRows
                            /\ Len(buf[i]) \in Nat
BY CsvAssumption DEF TypeOK, Pieces

LEMMA GrowKeeps ==
  ASSUME TypeOK, NEW d, Len(d) \in Nat, Grows(d), NEW x
  PROVE  /\ \A j : Begins(j, x) => Begins(j, x)'
         /\ \A j : Complete(j, x) => Complete(j, x)'
         /\ Stored(x) => Stored(x)'
         /\ \A j \in 1..Len(file) : Begins(j, x)' => Begins(j, x)
<1>1. Len(file) \in Nat
  BY Lengths
<1>2. \A j : Begins(j, x) => Begins(j, x)'
  BY <1>1 DEF Grows, Begins
<1>3. \A j : Complete(j, x) => Complete(j, x)'
  BY <1>1, <1>2 DEF Grows, Begins, Complete
<1>4. Stored(x) => Stored(x)'
  BY <1>1, <1>3 DEF Stored, Grows
<1>5. \A j \in 1..Len(file) : Begins(j, x)' => Begins(j, x)
  BY DEF Grows, Begins
<1> QED BY <1>2, <1>3, <1>4, <1>5

\* Where a piece of the file is from.
LEMMA OldOrNew ==
  ASSUME TypeOK, NEW d, Len(d) \in Nat, Grows(d), NEW j \in 1..Len(file')
  PROVE  \/ j \in 1..Len(file) /\ file'[j] = file[j]
         \/ /\ j > Len(file) /\ j - Len(file) \in 1..Len(d)
            /\ file'[j] = d[j - Len(file)]
<1>1. Len(file) \in Nat
  BY Lengths
<1>2. CASE j <= Len(file)
  BY <1>1, <1>2 DEF Grows
<1>3. CASE j > Len(file)
  <2>1. j - Len(file) \in 1..Len(d) /\ j = Len(file) + (j - Len(file))
    BY <1>1, <1>3 DEF Grows
  <2> QED BY <1>3, <2>1 DEF Grows
<1> QED BY <1>1, <1>2, <1>3

\* d has no row of run i.
Foreign(d, i) ==
  \A n \in 1..Len(d), m \in 1..MaxRows : d[n][1] # <<i, m>>

LEMMA ForeignKeeps ==
  ASSUME TypeOK, NEW d, Len(d) \in Nat, Grows(d), NEW i, Foreign(d, i), NEW g
  PROVE  /\ NoneAbove(i, g) => NoneAbove(i, g)'
         /\ AllStored(i, g) => AllStored(i, g)'
<1>1. NoneAbove(i, g) => NoneAbove(i, g)'
  <2> SUFFICES ASSUME NoneAbove(i, g), NEW j \in 1..Len(file'), NEW m \in 1..MaxRows,
                      file'[j][1] = <<i, m>>
               PROVE  m <= g
    BY DEF NoneAbove
  <2>1. CASE j \in 1..Len(file) /\ file'[j] = file[j]
    BY <2>1 DEF NoneAbove
  <2>2. CASE j - Len(file) \in 1..Len(d) /\ file'[j] = d[j - Len(file)]
    BY <2>2 DEF Foreign
  <2> QED BY <2>1, <2>2, OldOrNew
<1>2. AllStored(i, g) => AllStored(i, g)'
  BY GrowKeeps DEF AllStored
<1> QED BY <1>1, <1>2

LEMMA FlushAppends ==
  ASSUME TypeOK, Turns, AtEnd, Orderly, NEW i \in Runs, Writing(i),
         NEW n, Flush(i, n), NEW d, d = SubSeq(buf[i], 1, n),
         pc'[i] \notin {"off", "open"}, \A k \in Runs : k # i => pc'[k] = pc[k],
         setup' = setup, append' = append
  PROVE  /\ Grows(d)
         /\ AtEnd'
         /\ err'[i] <=> n < Len(buf[i])
         /\ \A k \in Runs : k # i => err'[k] = err[k] /\ buf'[k] = buf[k]
<1>1. buf[i] \in Pieces /\ n \in 0..Len(buf[i])
  BY DEF TypeOK, Flush
<1>2. d \in Pieces /\ Len(d) = n /\ \A k \in 1..n : d[k] = buf[i][k]
  BY <1>1, Prefix DEF Pieces
<1>3. /\ Put(i, d)
      /\ err'[i] = (n < Len(buf[i]))
      /\ \A k \in Runs : k # i => err'[k] = err[k] /\ buf'[k] = buf[k]
  BY DEF Flush, Failed, TypeOK
<1>4. append[i] \/ pos[i] = Len(file)
  BY DEF AtEnd
<1>5. /\ Grows(d) /\ pos'[i] = Len(file')
      /\ \A k \in Runs : k # i => pos'[k] = pos[k]
  BY <1>2, <1>3, <1>4, PutAppends
<1>6. ASSUME NEW k \in Runs, k # i, Writing(k)
      PROVE  append[k]
  <2>1. Active(k) /\ Active(i)
    BY <1>6 DEF Writing, Active, Ended
  <2>2. setup.overlap
    BY <1>6, <2>1 DEF Turns
  <2>3. append[k] \in setup.modes /\ append[k] \in BOOLEAN
    BY <2>1 DEF Turns, TypeOK
  <2> QED BY <2>2, <2>3 DEF Orderly
<1>7. AtEnd'
  BY <1>5, <1>6 DEF AtEnd, Writing
<1>8. err'[i] <=> n < Len(buf[i])
  BY <1>3, Zenon
<1> QED BY <1>1, <1>2, <1>3, <1>5, <1>7, <1>8

\* A run that does nothing keeps its rows and its buffer.
LEMMA KeptWhileOthersWrite ==
  ASSUME TypeOK, NEW d, Len(d) \in Nat, Grows(d), NEW k \in Runs, Foreign(d, k),
         Kept(k), pc'[k] = pc[k], given'[k] = given[k], buf'[k] = buf[k],
         err'[k] = err[k]
  PROVE  Kept(k)'
<1>1. \A g : /\ NoneAbove(k, g) => NoneAbove(k, g)'
             /\ AllStored(k, g) => AllStored(k, g)'
  BY ForeignKeeps
<1>2. NoneAbove(k, given[k])' /\ (AllStored(k, given[k]) => AllStored(k, given[k])')
  <2>1. NoneAbove(k, given[k])
    BY DEF Kept
  <2>2. \A g : g = given[k] => /\ NoneAbove(k, g)'
                               /\ AllStored(k, g) => AllStored(k, g)'
    BY <1>1, <2>1
  <2>3. \A g : g = given'[k] => /\ NoneAbove(k, g)'
                                /\ AllStored(k, given[k]) => AllStored(k, g)'
    BY <2>2
  <2> QED BY <2>3 DEF NoneAbove, AllStored
<1>3. Buffered(k) => Buffered(k)'
  BY <1>1 DEF Buffered
<1> QED BY <1>2, <1>3 DEF Kept

\* Pieces that are not of rows change nothing about the rows.
LEMMA RowsWhileNoneAreWritten ==
  ASSUME TypeOK, Once, TornHasError, AckedStored,
         NEW d, Len(d) \in Nat, Grows(d), \A k \in Runs : Foreign(d, k),
         \A k \in Runs : err[k] => err'[k], acked' = acked
  PROVE  Once' /\ TornHasError' /\ AckedStored'
<1>1. ASSUME NEW r \in Runs \X (1..MaxRows), NEW j \in 1..Len(file'), Begins(j, r)'
      PROVE  j \in 1..Len(file) /\ Begins(j, r)
  <2>1. CASE j \in 1..Len(file)
    BY <1>1, <2>1, GrowKeeps
  <2>2. CASE j - Len(file) \in 1..Len(d) /\ file'[j] = d[j - Len(file)]
    <3>1. PICK i \in Runs, m \in 1..MaxRows : r = <<i, m>>
      OBVIOUS
    <3>2. d[j - Len(file)][1] = <<i, m>>
      BY <1>1, <2>2, <3>1 DEF Begins
    <3> QED BY <2>2, <3>2 DEF Foreign
  <2> QED BY <2>1, <2>2, OldOrNew
<1>2. Once'
  BY <1>1 DEF Once
<1>3. TornHasError'
  <2> SUFFICES ASSUME NEW r \in Runs \X (1..MaxRows), NEW j \in 1..Len(file'),
                      Begins(j, r)', ~Complete(j, r)'
               PROVE  /\ err'[r[1]]
                      /\ \A k \in (j + 1)..Len(file'), m \in 1..MaxRows :
                           file'[k][1] # <<r[1], m>>
    BY DEF TornHasError
  <2>1. j \in 1..Len(file) /\ Begins(j, r) /\ ~Complete(j, r)
    BY <1>1, GrowKeeps
  <2>2. /\ err[r[1]] /\ r[1] \in Runs
        /\ \A k \in (j + 1)..Len(file), m \in 1..MaxRows : file[k][1] # <<r[1], m>>
    BY <2>1 DEF TornHasError
  <2>3. ASSUME NEW k \in (j + 1)..Len(file'), NEW m \in 1..MaxRows
        PROVE  file'[k][1] # <<r[1], m>>
    <3>1. k \in 1..Len(file')
      BY <2>1
    <3>2. CASE k \in 1..Len(file) /\ file'[k] = file[k]
      BY <2>2, <3>2
    <3>3. CASE k - Len(file) \in 1..Len(d) /\ file'[k] = d[k - Len(file)]
      BY <2>2, <3>3 DEF Foreign
    <3> QED BY <3>1, <3>2, <3>3, OldOrNew
  <2> QED BY <2>2, <2>3
<1>4. AckedStored'
  BY GrowKeeps DEF AckedStored
<1> QED BY <1>2, <1>3, <1>4

\* The same for steps that write nothing.
LEMMA Nothing ==
  ASSUME TypeOK, file' = file
  PROVE  /\ Grows(<<>>) /\ Len(<<>>) \in Nat
         /\ \A k \in Runs : Foreign(<<>>, k)
BY Lengths DEF Grows, Foreign

LEMMA FileInit == Init => FileInv
<1> SUFFICES ASSUME Init PROVE FileInv
  OBVIOUS
<1>1. file = <<>> /\ Len(file) = 0
  BY DEF Init
<1>2. \A i \in Runs : Kept(i)
  BY <1>1 DEF Init, Kept, NoneAbove
<1> QED BY <1>1, <1>2 DEF Init, FileInv, AtEnd, Writing, Once, TornHasError, AckedStored

\* A batch is flushed, whole or not.
LEMMA FlushRowsKeeps ==
  ASSUME TypeOK, Turns, Orderly, FileInv, NEW i \in Runs, NEW n, FlushRows(i, n)
  PROVE  FileInv'
<1> DEFINE d == SubSeq(buf[i], 1, n)
<1>1. /\ pc[i] = "flush" /\ pc' = [pc EXCEPT ![i] = "ready"]
      /\ UNCHANGED <<setup, append, given>>
      /\ acked' = acked \cup Acknowledged(i)
  BY DEF FlushRows, Goto
<1>2. /\ n \in 0..Len(buf[i]) /\ Len(d) = n /\ \A k \in 1..n : d[k] = buf[i][k]
      /\ Grows(d) /\ AtEnd'
      /\ err'[i] <=> n < Len(buf[i])
      /\ \A k \in Runs : k # i => err'[k] = err[k] /\ buf'[k] = buf[k]
  <2>1. Flush(i, n) /\ AtEnd /\ Writing(i)
    BY <1>1 DEF FlushRows, FileInv, Writing
  <2>2. pc'[i] \notin {"off", "open"} /\ \A k \in Runs : k # i => pc'[k] = pc[k]
    BY <1>1 DEF TypeOK
  <2>3. setup' = setup /\ append' = append
    BY <1>1
  <2>4. d = SubSeq(buf[i], 1, n)
    OBVIOUS
  <2> HIDE DEF d
  <2>5. /\ Grows(d) /\ AtEnd' /\ (err'[i] <=> n < Len(buf[i]))
        /\ \A k \in Runs : k # i => err'[k] = err[k] /\ buf'[k] = buf[k]
    BY <2>1, <2>2, <2>3, <2>4, FlushAppends
  <2>6. buf[i] \in Seq(Named \X {1, 2}) /\ n \in 0..Len(buf[i])
    BY <2>1 DEF TypeOK, Pieces, Flush
  <2>7. Len(d) = n /\ \A k \in 1..n : d[k] = buf[i][k]
    BY <2>6, Prefix DEF d
  <2> QED BY <2>5, <2>6, <2>7
<1> HIDE DEF d
<1>3. ~err[i] /\ Buffered(i)
  BY <1>1 DEF FileInv, Kept
<1>4. PICK g \in 0..MaxRows :
        /\ given[i] \in {g + 1, g + 2} /\ buf[i] = Rows(i, g, given[i])
        /\ NoneAbove(i, g) /\ AllStored(i, g)
  BY <1>3 DEF Buffered
<1>5. Lines(buf[i], i, g, given[i])
  BY <1>4, RowsAreLines
<1>6. /\ Len(file) \in Nat /\ Len(buf[i]) \in Nat /\ n \in Nat /\ n <= Len(buf[i])
      /\ given[i] \in Nat /\ given[i] <= MaxRows /\ g \in Nat /\ MaxRows \in Nat
  BY <1>2, Lengths, CsvAssumption
<1>0. /\ 1..n \subseteq 1..Len(buf[i])
      /\ Len(file') = Len(file) + n /\ Len(file') \in Nat
  BY <1>2, <1>6 DEF Grows
\* What is new: pieces of rows of run i above g.
<1>7. ASSUME NEW k \in 1..n
      PROVE  \E m \in (g + 1)..given[i] : d[k][1] = <<i, m>> /\ d[k] = buf[i][k]
  <2>1. d[k] = buf[i][k] /\ k \in 1..Len(buf[i])
    BY <1>2
  <2>2. buf[i][k] \in ({i} \X ((g + 1)..given[i])) \X {1, 2}
    BY <1>5, <2>1 DEF Lines
  <2> QED BY <2>1, <2>2
<1>8. \A k \in Runs : k # i => Foreign(d, k)
  BY <1>2, <1>7 DEF Foreign
<1>9. \A k \in Runs : k # i => Kept(k)'
  <2> TAKE k \in Runs
  <2> HAVE k # i
  <2>1. pc'[k] = pc[k] /\ given'[k] = given[k] /\ buf'[k] = buf[k] /\ err'[k] = err[k]
    BY <1>1, <1>2 DEF TypeOK
  <2>2. Kept(k)
    BY DEF FileInv
  <2> QED BY <1>2, <1>6, <1>8, <2>1, <2>2, KeptWhileOthersWrite
<1>10. (err'[i] <=> n < Len(buf[i])) /\ \A k \in Runs : k # i => err'[k] = err[k]
  BY <1>2
\* A row that begins in the file began there before, or is one of the new ones.
<1>11. ASSUME NEW r \in Runs \X (1..MaxRows), NEW j \in 1..Len(file'), Begins(j, r)'
       PROVE  \/ j \in 1..Len(file) /\ Begins(j, r) /\ (r[1] = i => r[2] <= g)
              \/ /\ j - Len(file) \in 1..n /\ j > Len(file)
                 /\ r[1] = i /\ r[2] > g /\ buf[i][j - Len(file)] = <<r, 1>>
  <2>1. PICK x \in Runs, m \in 1..MaxRows : r = <<x, m>>
    OBVIOUS
  <2>2. CASE j \in 1..Len(file)
    <3>1. Begins(j, r)
      BY <1>2, <1>6, <1>11, <2>2, GrowKeeps
    <3>2. file[j][1] = r
      BY <3>1 DEF Begins
    <3> QED BY <1>4, <2>1, <2>2, <3>1, <3>2 DEF NoneAbove
  <2>3. CASE /\ j > Len(file) /\ j - Len(file) \in 1..Len(d)
             /\ file'[j] = d[j - Len(file)]
    <3>1. j - Len(file) \in 1..n
      BY <1>2, <2>3
    <3>2. PICK y \in (g + 1)..given[i] : /\ d[j - Len(file)][1] = <<i, y>>
                                        /\ d[j - Len(file)] = buf[i][j - Len(file)]
      BY <1>7, <3>1
    <3>3. d[j - Len(file)] = <<r, 1>>
      BY <1>11, <2>3 DEF Begins
    <3>4. x = i /\ m = y
      BY <2>1, <3>2, <3>3
    <3> QED BY <1>6, <2>1, <2>3, <3>1, <3>2, <3>3, <3>4
  <2> QED BY <1>2, <1>6, <2>2, <2>3, OldOrNew
<1>12. Once'
  <2> SUFFICES ASSUME NEW r \in Runs \X (1..MaxRows), NEW j \in 1..Len(file'),
                      NEW k \in 1..Len(file'), Begins(j, r)', Begins(k, r)'
               PROVE  j = k
    BY DEF Once
  <2>1. CASE j \in 1..Len(file) /\ Begins(j, r) /\ k \in 1..Len(file) /\ Begins(k, r)
    BY <2>1 DEF FileInv, Once
  <2>2. CASE /\ j - Len(file) \in 1..n /\ k - Len(file) \in 1..n
             /\ buf[i][j - Len(file)] = <<r, 1>> /\ buf[i][k - Len(file)] = <<r, 1>>
    <3>1. j - Len(file) \in 1..Len(buf[i]) /\ k - Len(file) \in 1..Len(buf[i])
      BY <1>0, <2>2
    <3>2. j - Len(file) = k - Len(file)
      BY <1>5, <2>2, <3>1 DEF Lines
    <3>3. j \in Int /\ k \in Int
      OBVIOUS
    <3> QED BY <1>6, <3>2, <3>3
  <2>3. r[2] \in Nat
    OBVIOUS
  <2>4. ~(r[1] = i /\ r[2] > g /\ (r[1] = i => r[2] <= g))
    BY <1>6, <2>3
  <2> QED BY <1>11, <2>1, <2>2, <2>4
\* A line of which only the beginning was written is the last thing written.
<1>13. TornHasError'
  <2> SUFFICES ASSUME NEW r \in Runs \X (1..MaxRows), NEW j \in 1..Len(file'),
                      Begins(j, r)', ~Complete(j, r)'
               PROVE  /\ err'[r[1]]
                      /\ \A k \in (j + 1)..Len(file'), m \in 1..MaxRows :
                           file'[k][1] # <<r[1], m>>
    BY DEF TornHasError
  <2>1. CASE j \in 1..Len(file) /\ Begins(j, r)
    <3>1. ~Complete(j, r)
      BY <1>2, <1>6, GrowKeeps
    <3>2. /\ err[r[1]] /\ r[1] \in Runs
          /\ \A k \in (j + 1)..Len(file), m \in 1..MaxRows : file[k][1] # <<r[1], m>>
      BY <2>1, <3>1 DEF FileInv, TornHasError
    <3>3. r[1] # i
      BY <1>3, <3>2
    <3>4. ASSUME NEW k \in (j + 1)..Len(file'), NEW m \in 1..MaxRows
          PROVE  file'[k][1] # <<r[1], m>>
      <4>1. k \in 1..Len(file')
        BY <2>1
      <4>2. CASE k \in 1..Len(file) /\ file'[k] = file[k]
        BY <3>2, <4>2
      <4>3. CASE k - Len(file) \in 1..Len(d) /\ file'[k] = d[k - Len(file)]
        BY <1>8, <3>2, <3>3, <4>3 DEF Foreign
      <4> QED BY <1>2, <1>6, <4>1, <4>2, <4>3, OldOrNew
    <3> QED BY <1>10, <3>2, <3>3, <3>4
  <2>2. CASE /\ j - Len(file) \in 1..n /\ j > Len(file)
             /\ r[1] = i /\ buf[i][j - Len(file)] = <<r, 1>>
    <3> DEFINE p == j - Len(file)
    <3>1. p \in 1..n /\ p \in 1..Len(buf[i]) /\ j = Len(file) + p
      BY <1>0, <1>6, <2>2
    <3>2. p < Len(buf[i]) /\ buf[i][p + 1] = <<r, 2>>
      <4>1. buf[i][p] = <<r, 1>>
        BY <2>2
      <4> HIDE DEF p
      <4>2. buf[i][p][2] = 1 /\ buf[i][p][1] = r
        BY <4>1
      <4> QED BY <1>5, <3>1, <4>2 DEF Lines
    <3> HIDE DEF p
    <3>3. p = n
      <4> SUFFICES ASSUME p # n PROVE FALSE
        OBVIOUS
      <4>1. p + 1 \in 1..n
        BY <1>6, <3>1
      <4>2. d[p + 1] = <<r, 2>>
        BY <1>2, <3>2, <4>1
      <4>3. /\ j + 1 = Len(file) + (p + 1) /\ file'[j + 1] = d[p + 1]
            /\ j < Len(file')
        <5>1. j + 1 = Len(file) + (p + 1) /\ j < Len(file')
          BY <1>0, <1>6, <3>1, <4>1
        <5>2. file'[Len(file) + (p + 1)] = d[p + 1]
          BY <1>2, <4>1 DEF Grows
        <5> QED BY <5>1, <5>2
      <4> QED BY <4>2, <4>3 DEF Complete
    <3>4. j = Len(file')
      BY <1>2, <1>6, <3>1, <3>3 DEF Grows
    <3>5. n < Len(buf[i])
      BY <3>2, <3>3
    <3>6. err'[i]
      BY <1>10, <3>5
    <3>7. (j + 1)..Len(file') = {}
      BY <3>4
    <3> QED BY <2>2, <3>6, <3>7
  <2> QED BY <1>11, <2>1, <2>2
\* Without an error the whole batch is in the file.
<1>14. ASSUME ~err'[i]
       PROVE  AllStored(i, given[i])'
  <2>1. n = Len(buf[i])
    <3>1. ~(n < Len(buf[i]))
      BY <1>10, <1>14, Zenon
    <3> QED BY <1>2, <1>6, <3>1
  <2>2. ASSUME NEW m \in 1..given[i]
        PROVE  Stored(<<i, m>>)'
    <3>1. CASE m <= g
      BY <1>2, <1>4, <1>6, <3>1, GrowKeeps DEF AllStored
    <3>2. CASE m > g
      <4>1. m \in (g + 1)..given[i]
        BY <1>6, <3>2
      <4>2. PICK p \in 1..Len(buf[i]) : buf[i][p] = <<<<i, m>>, 1>>
        BY <1>5, <4>1 DEF Lines
      <4>3. p < Len(buf[i]) /\ buf[i][p + 1] = <<<<i, m>>, 2>>
        <5>1. buf[i][p][2] = 1 /\ buf[i][p][1] = <<i, m>>
          BY <4>2
        <5> QED BY <1>5, <5>1 DEF Lines
      <4>4. p \in 1..n /\ p + 1 \in 1..n
        BY <1>6, <2>1, <4>2, <4>3
      <4>5. d[p] = <<<<i, m>>, 1>> /\ d[p + 1] = <<<<i, m>>, 2>>
        BY <1>2, <4>2, <4>3, <4>4
      <4>6. /\ file'[Len(file) + p] = <<<<i, m>>, 1>>
            /\ file'[Len(file) + (p + 1)] = <<<<i, m>>, 2>>
        BY <1>2, <4>4, <4>5 DEF Grows
      <4>7. Len(file') = Len(file) + n
        BY <1>2 DEF Grows
      <4> DEFINE j == Len(file) + p
      <4>8. /\ j \in 1..Len(file') /\ j < Len(file')
            /\ j + 1 = Len(file) + (p + 1)
        BY <1>6, <4>4, <4>7
      <4>9. file'[j] = <<<<i, m>>, 1>> /\ file'[j + 1] = <<<<i, m>>, 2>>
        BY <4>6, <4>8
      <4> HIDE DEF j
      <4> QED BY <4>8, <4>9 DEF Stored, Complete, Begins
    <3> QED BY <1>6, <3>1, <3>2
  <2>3. given'[i] = given[i]
    BY <1>1
  <2> QED BY <2>2, <2>3 DEF AllStored
<1>15. NoneAbove(i, given[i])'
  <2> SUFFICES ASSUME NEW j \in 1..Len(file'), NEW m \in 1..MaxRows,
                      file'[j][1] = <<i, m>>
               PROVE  m <= given[i]
    BY <1>1 DEF NoneAbove
  <2>1. CASE j \in 1..Len(file) /\ file'[j] = file[j]
    BY <1>4, <1>6, <2>1 DEF NoneAbove
  <2>2. CASE j - Len(file) \in 1..Len(d) /\ file'[j] = d[j - Len(file)]
    BY <1>2, <1>7, <2>2
  <2> QED BY <1>2, <1>6, <2>1, <2>2, OldOrNew
<1>16. Kept(i)'
  <2>1. pc'[i] = "ready"
    BY <1>1 DEF TypeOK
  <2> QED BY <1>14, <1>15, <2>1 DEF Kept
<1>17. AckedStored'
  <2>1. \A r \in acked : Stored(r)'
    BY <1>2, <1>6, GrowKeeps DEF FileInv, AckedStored
  <2>2. \A r \in Acknowledged(i) : Stored(r)'
    <3>1. CASE err'[i]
      BY <3>1 DEF Acknowledged
    <3>2. CASE ~err'[i]
      <4>1. \A m \in 1..given[i] : Stored(<<i, m>>)'
        BY <1>1, <1>14, <3>2 DEF AllStored
      <4> QED BY <3>2, <4>1 DEF Acknowledged
    <3> QED BY <3>1, <3>2
  <2> QED BY <1>1, <2>1, <2>2 DEF AckedStored
<1> QED BY <1>2, <1>9, <1>12, <1>13, <1>16, <1>17 DEF FileInv

\* A step of a run that leaves the file alone, in whatever it is.
LEMMA QuietStepKeeps ==
  ASSUME TypeOK, FileInv, file' = file, acked' = acked, pos' = pos, err' = err,
         NEW i \in Runs, Kept(i)',
         pc'[i] \in {"off", "open"} => pc[i] \in {"off", "open"},
         Writing(i)' /\ ~append'[i] => Writing(i) /\ ~append[i],
         \A k \in Runs : k # i =>
           /\ pc'[k] = pc[k] /\ append'[k] = append[k]
           /\ given'[k] = given[k] /\ buf'[k] = buf[k]
  PROVE  FileInv'
<1>1. AtEnd'
  BY DEF FileInv, AtEnd, Writing
<1>2. \A k \in Runs : Kept(k)'
  <2> TAKE k \in Runs
  <2>1. CASE k # i
    BY <2>1, Nothing, KeptWhileOthersWrite DEF FileInv
  <2> QED BY <2>1
<1>3. Once' /\ TornHasError' /\ AckedStored'
  BY Nothing, RowsWhileNoneAreWritten DEF FileInv
<1> QED BY <1>1, <1>2, <1>3 DEF FileInv

LEMMA StatKeeps ==
  ASSUME TypeOK, FileInv, NEW i \in Runs, NEW a, Stat(i, a)
  PROVE  FileInv'
<1>1. /\ file' = file /\ acked' = acked /\ pos' = pos /\ err' = err
      /\ given' = given /\ buf' = buf /\ pc[i] = "off" /\ pc'[i] = "open"
      /\ \A k \in Runs : k # i => pc'[k] = pc[k] /\ append'[k] = append[k]
  BY DEF Stat, Goto, TypeOK
<1>2. Kept(i)'
  <2>1. given[i] = 0 /\ ~err[i] /\ NoneAbove(i, given[i])
    BY <1>1 DEF FileInv, Kept
  <2> QED BY <1>1, <2>1 DEF Kept, NoneAbove
<1> QED BY <1>1, <1>2, QuietStepKeeps DEF Writing

\* A run that truncates the file has it for itself.
LEMMA OpenFileKeeps ==
  ASSUME TypeOK, Turns, Orderly, FileInv, NEW i \in Runs, OpenFile(i)
  PROVE  FileInv'
<1>1. /\ pc[i] = "open" /\ pc'[i] \in {"header", "ready"}
      /\ pos' = pos /\ err' = err /\ given' = given /\ append' = append
      /\ pc'[i] = "header" => buf'[i] = Header
      /\ \A k \in Runs : k # i => pc'[k] = pc[k] /\ buf'[k] = buf[k]
  BY DEF OpenFile, Goto, TypeOK
<1>2. given[i] = 0 /\ ~err[i] /\ NoneAbove(i, given[i])
  BY <1>1 DEF FileInv, Kept
<1>3. CASE append[i]
  <2>1. file' = file /\ acked' = acked
    BY <1>3 DEF OpenFile
  <2>2. Kept(i)'
    BY <1>1, <1>2, <2>1 DEF Kept, NoneAbove, AllStored
  <2> QED BY <1>1, <1>3, <2>1, <2>2, QuietStepKeeps DEF Writing
<1>4. CASE ~append[i]
  <2>1. file' = <<>> /\ acked' = {} /\ Len(file') = 0
    BY <1>4 DEF OpenFile
  <2>2. ASSUME NEW k \in Runs, k # i
        PROVE  ~Active(k)
    <3>1. Active(i)
      BY <1>1 DEF Active, Ended
    <3>2. append[i] \in setup.modes /\ append[i] \in BOOLEAN
      BY <3>1 DEF Turns, TypeOK
    <3>3. ~setup.overlap
      BY <1>4, <3>2 DEF Orderly
    <3> QED BY <2>2, <3>1, <3>3 DEF Turns
  <2>3. \A k \in Runs : Kept(k)'
    <3> TAKE k \in Runs
    <3>1. NoneAbove(k, given[k])'
      BY <2>1 DEF NoneAbove
    <3>2. CASE k = i
      BY <1>1, <1>2, <3>1, <3>2 DEF Kept, AllStored
    <3>3. CASE k # i
      BY <1>1, <2>2, <3>1, <3>3 DEF Kept, Active, Ended, FileInv
    <3> QED BY <3>2, <3>3
  <2>4. AtEnd'
    <3> SUFFICES ASSUME NEW k \in Runs
                 PROVE  /\ pc'[k] \in {"off", "open"} => pos'[k] = 0
                        /\ Writing(k)' /\ ~append'[k] => pos'[k] = Len(file')
      BY DEF AtEnd
    <3>1. CASE k = i
      BY <1>1, <2>1, <3>1 DEF FileInv, AtEnd
    <3>2. CASE k # i
      BY <1>1, <2>2, <3>2 DEF FileInv, AtEnd, Writing, Active, Ended
    <3> QED BY <3>1, <3>2
  <2>5. Once' /\ TornHasError' /\ AckedStored'
    BY <2>1 DEF Once, TornHasError, AckedStored
  <2> QED BY <2>3, <2>4, <2>5 DEF FileInv
<1> QED BY <1>3, <1>4

LEMMA EndKeeps ==
  ASSUME TypeOK, FileInv, NEW i \in Runs, OpenFails(i) \/ Close(i) \/ Kill(i)
  PROVE  FileInv'
<1>1. /\ file' = file /\ acked' = acked /\ pos' = pos /\ err' = err
      /\ given' = given /\ buf' = buf /\ append' = append
      /\ pc'[i] \in {"failed", "closed", "closedWithError", "killed"}
      /\ \A k \in Runs : k # i => pc'[k] = pc[k]
  BY DEF OpenFails, Close, Kill, Outcome, Goto, run, TypeOK
<1>2. Kept(i)'
  BY <1>1 DEF FileInv, Kept, NoneAbove
<1> QED BY <1>1, <1>2, QuietStepKeeps DEF Writing

LEMMA WriteKeeps ==
  ASSUME TypeOK, FileInv, NEW i \in Runs, NEW rows \in 1..2, Write(i, rows)
  PROVE  FileInv'
<1>1. /\ file' = file /\ acked' = acked /\ pos' = pos /\ err' = err
      /\ append' = append /\ pc[i] = "ready"
      /\ given'[i] = given[i] + rows /\ given[i] + rows <= MaxRows
      /\ \A k \in Runs : k # i => /\ pc'[k] = pc[k] /\ given'[k] = given[k]
                                  /\ buf'[k] = buf[k]
  BY DEF Write, Goto, TypeOK
<1>2. given[i] \in Nat /\ MaxRows \in Nat
  BY CsvAssumption, Lengths
<1>3. NoneAbove(i, given[i])
  BY DEF FileInv, Kept
<1>4. NoneAbove(i, given[i])'
  BY <1>1, <1>2, <1>3 DEF NoneAbove
<1>5. Kept(i)' /\ pc'[i] \in {"ready", "flush"}
  <2>1. CASE err[i]
    <3>1. pc' = pc
      BY <2>1 DEF Write
    <3> QED BY <1>1, <1>4, <2>1, <3>1 DEF Kept
  <2>2. CASE ~err[i]
    <3>1. buf[i] = <<>> /\ AllStored(i, given[i])
      BY <1>1, <2>2 DEF TypeOK, FileInv, Kept
    <3>2. Rows(i, given[i], given[i] + rows) \in Pieces
      BY <1>1, <1>2, RowsArePieces
    <3>3. buf[i] \o Rows(i, given[i], given[i] + rows)
            = Rows(i, given[i], given[i] + rows)
      BY <3>1, <3>2 DEF Pieces
    <3>4. /\ pc'[i] = "flush"
          /\ buf'[i] = buf[i] \o Rows(i, given[i], given[i] + rows)
      BY <2>2 DEF Write, AfterBuffering, Goto, TypeOK
    <3>5. buf'[i] = Rows(i, given[i], given'[i])
      BY <1>1, <3>3, <3>4
    <3>6. given[i] \in 0..MaxRows /\ given'[i] \in {given[i] + 1, given[i] + 2}
      BY <1>1, <1>2
    <3>7. \A g : g = given[i] => NoneAbove(i, g)' /\ AllStored(i, g)'
      BY <1>1, <1>3, <3>1 DEF NoneAbove, AllStored, Stored, Complete, Begins
    <3>8. Buffered(i)'
      BY <3>5, <3>6, <3>7 DEF Buffered
    <3> QED BY <1>1, <1>4, <2>2, <3>4, <3>8 DEF Kept
  <2> QED BY <2>1, <2>2
<1> QED BY <1>1, <1>5, QuietStepKeeps DEF Writing

LEMMA FlushHeaderKeeps ==
  ASSUME TypeOK, Turns, Orderly, FileInv, NEW i \in Runs, NEW n, FlushHeader(i, n)
  PROVE  FileInv'
<1> DEFINE d == SubSeq(buf[i], 1, n)
<1>1. /\ pc[i] = "header" /\ pc'[i] \in {"failed", "ready"} /\ Flush(i, n)
      /\ setup' = setup /\ append' = append /\ given' = given /\ acked' = acked
      /\ pc'[i] = "ready" => ~err'[i]
      /\ \A k \in Runs : k # i => pc'[k] = pc[k]
  BY DEF FlushHeader, Goto, TypeOK
<1>2. buf[i] = Header /\ given[i] = 0 /\ ~err[i] /\ NoneAbove(i, given[i])
  BY <1>1 DEF FileInv, Kept
<1>3. n \in 0..2 /\ Len(d) = n /\ \A k \in 1..n : d[k] = Header[k]
  <2>1. buf[i] \in Seq(Named \X {1, 2}) /\ n \in 0..Len(buf[i])
    BY <1>1 DEF TypeOK, Pieces, Flush
  <2>2. Len(d) = n /\ \A k \in 1..n : d[k] = buf[i][k]
    BY <2>1, Prefix
  <2> QED BY <1>2, <2>1, <2>2, Parts
<1>4. /\ Grows(d) /\ AtEnd'
      /\ \A k \in Runs : k # i => err'[k] = err[k] /\ buf'[k] = buf[k]
  <2>1. AtEnd /\ Writing(i) /\ pc'[i] \notin {"off", "open"}
    BY <1>1 DEF FileInv, Writing
  <2>2. d = SubSeq(buf[i], 1, n)
    OBVIOUS
  <2> HIDE DEF d
  <2> QED BY <1>1, <2>1, <2>2, FlushAppends
<1> HIDE DEF d
<1>5. Len(d) \in Nat
  BY <1>3
<1>6. \A k \in Runs : Foreign(d, k)
  <2> SUFFICES ASSUME NEW k \in Runs, NEW p \in 1..n, NEW m \in 1..MaxRows
               PROVE  d[p][1] # <<k, m>>
    BY <1>3 DEF Foreign
  <2>1. p = 1 \/ p = 2
    BY <1>3
  <2>2. d[p][1] = Top
    BY <1>3, <2>1, Parts
  <2> QED BY <2>2 DEF Top
<1>7. \A k \in Runs : Kept(k)'
  <2> TAKE k \in Runs
  <2>1. CASE k # i
    BY <1>1, <1>4, <1>5, <1>6, <2>1, KeptWhileOthersWrite DEF FileInv
  <2>2. CASE k = i
    <3>1. \A g : NoneAbove(i, g) => NoneAbove(i, g)'
      BY <1>4, <1>5, <1>6, ForeignKeeps
    <3>2. \A g : g = given[i] => NoneAbove(i, g)'
      BY <1>2, <3>1
    <3>3. NoneAbove(i, given[i])'
      BY <1>1, <3>2 DEF NoneAbove
    <3>4. AllStored(i, given[i])'
      BY <1>1, <1>2 DEF AllStored
    <3> QED BY <1>1, <2>2, <3>3, <3>4 DEF Kept
  <2> QED BY <2>1, <2>2
<1>8. Once' /\ TornHasError' /\ AckedStored'
  <2>1. \A k \in Runs : err[k] => err'[k]
    BY <1>2, <1>4
  <2> QED BY <1>1, <1>4, <1>5, <1>6, <2>1, RowsWhileNoneAreWritten DEF FileInv
<1> QED BY <1>4, <1>7, <1>8 DEF FileInv

CsvInv == Turns /\ (Orderly => FileInv)

LEMMA FileStep == TypeOK /\ CsvInv /\ [Next]_vars => CsvInv'
<1> SUFFICES ASSUME TypeOK, CsvInv, [Next]_vars PROVE CsvInv'
  OBVIOUS
<1>1. Turns /\ Turns'
  BY TurnsStep DEF CsvInv
<1>2. setup' = setup
  BY DEF Next, vars, Create, Output, Stat, OpenFile, OpenFails, FlushHeader, Write,
         FlushRows, Close, Kill
<1>3. ASSUME Orderly'
      PROVE  FileInv'
  <2>1. Orderly /\ FileInv
    BY <1>2, <1>3 DEF Orderly, CsvInv
  <2>2. ASSUME NEW i \in Runs, Create(i)
        PROVE  FileInv'
    BY <1>1, <2>1, <2>2, StatKeeps, OpenFileKeeps, EndKeeps, FlushHeaderKeeps
    DEF Create
  <2>3. ASSUME NEW i \in Runs, Output(i) \/ Kill(i)
        PROVE  FileInv'
    BY <1>1, <2>1, <2>3, WriteKeeps, FlushRowsKeeps, EndKeeps DEF Output
  <2>4. CASE UNCHANGED vars
    <3>1. /\ file' = file /\ acked' = acked /\ pos' = pos /\ err' = err /\ pc' = pc
          /\ append' = append /\ given' = given /\ buf' = buf
      BY <2>4 DEF vars, run
    <3>2. \A k \in Runs : Kept(k)'
      BY <2>1, <3>1, Nothing, KeptWhileOthersWrite DEF FileInv
    <3>3. Once' /\ TornHasError' /\ AckedStored'
      BY <2>1, <3>1, Nothing, RowsWhileNoneAreWritten DEF FileInv
    <3>4. AtEnd'
      BY <2>1, <3>1 DEF FileInv, AtEnd, Writing
    <3> QED BY <3>2, <3>3, <3>4 DEF FileInv
  <2> QED BY <2>2, <2>3, <2>4 DEF Next
<1> QED BY <1>1, <1>3 DEF CsvInv

LEMMA CsvInvariant == Spec => [](TypeOK /\ CsvInv)
<1>1. Init => CsvInv
  BY TurnsInit, FileInit DEF CsvInv
<1> QED BY <1>1, TypeInit, TypeStep, FileStep, PTL DEF Spec

\* Write: what it acknowledged is in the file, whole and once, whatever runs come
\* after or append at the same time, and whatever is killed or fails.
THEOREM AcknowledgedIsStored == Spec => []AckedIsStored
<1>1. TypeOK /\ CsvInv => AckedIsStored
  <2> SUFFICES ASSUME TypeOK, CsvInv, Orderly, NEW r \in acked
               PROVE  /\ Stored(r)
                      /\ \A j, k \in 1..Len(file) : Begins(j, r) /\ Begins(k, r) => j = k
    BY DEF AckedIsStored
  <2> QED BY DEF CsvInv, FileInv, AckedStored, Once, TypeOK
<1> QED BY <1>1, CsvInvariant, PTL

\* bufio's sticky error: a row that is in the file in part was not acknowledged,
\* and nothing of its run comes after it.
THEOREM TornRowsAreLast == Spec => []TornIsLast
<1>1. TypeOK /\ CsvInv => TornIsLast
  <2> SUFFICES ASSUME TypeOK, CsvInv, Orderly, NEW r \in Runs \X (1..MaxRows),
                      NEW j \in 1..Len(file), Begins(j, r), ~Complete(j, r)
               PROVE  /\ r \notin acked
                      /\ \A k \in (j + 1)..Len(file), m \in 1..MaxRows :
                           file[k][1] # <<r[1], m>>
    BY DEF TornIsLast
  <2>1. r \notin acked
    BY DEF CsvInv, FileInv, AckedStored, Once, Stored, Complete
  <2> QED BY <2>1 DEF CsvInv, FileInv, TornHasError
<1> QED BY <1>1, CsvInvariant, PTL

\* Close: an output that closes without an error has all its rows in the file.
THEOREM CloseReportsLoss == Spec => CloseTellsLoss
<1> DEFINE A == \A i \in Runs :
                  Orderly /\ pc[i] = "ready" /\ pc'[i] = "closed" =>
                    \A m \in 1..given[i] : Stored(<<i, m>>)
<1>1. TypeOK /\ CsvInv /\ [Next]_vars => [A]_vars
  <2> SUFFICES ASSUME TypeOK, CsvInv, Next, NEW i \in Runs, Orderly,
                      pc[i] = "ready", pc'[i] = "closed"
               PROVE  \A m \in 1..given[i] : Stored(<<i, m>>)
    OBVIOUS
  <2>1. ~err[i]
    BY DEF Next, Create, Output, Stat, OpenFile, OpenFails, FlushHeader, Write,
           FlushRows, Close, Kill, Goto, Outcome, AfterBuffering, TypeOK
  <2> QED BY <2>1 DEF CsvInv, FileInv, Kept, AllStored
<1> QED BY <1>1, CsvInvariant, PTL DEF Spec, CloseTellsLoss

-------------------------------------------------------------------------------
(***************************************************************************)
(* The header, in runs that follow each other. What CSVCreator saw of the  *)
(* file when it looked is still so when it opens it; a file that is empty  *)
(* gets the header first; and rows only go to a file that is not empty.    *)
(***************************************************************************)
HeadOf(i) ==
  /\ pc[i] = "open" => (header[i] <=> (~append[i] \/ file = <<>>))
  /\ pc[i] = "header" => file = <<>>
  /\ pc[i] \in {"ready", "flush"} => file # <<>>

HeaderInv == ~setup.overlap => HeaderOnTop /\ \A i \in Runs : HeadOf(i)

LEMMA OthersAreNotActive ==
  ASSUME Turns, ~setup.overlap, NEW i \in Runs, Active(i) \/ \A j \in Runs : ~Active(j),
         \A k \in Runs : k # i => pc'[k] = pc[k], HeadOf(i)'
  PROVE  \A k \in Runs : HeadOf(k)'
<1> TAKE k \in Runs
<1>1. CASE k = i
  BY <1>1
<1>2. CASE k # i
  <2>1. ~Active(k)
    BY <1>2 DEF Turns
  <2>2. pc'[k] \notin {"open", "header", "ready", "flush"}
    BY <1>2, <2>1 DEF Active, Ended
  <2> QED BY <2>2 DEF HeadOf
<1> QED BY <1>1, <1>2

LEMMA QuietStepKeepsHeader ==
  ASSUME Turns, ~setup.overlap, HeaderOnTop, file' = file,
         NEW i \in Runs, Active(i) \/ \A j \in Runs : ~Active(j),
         \A k \in Runs : k # i => pc'[k] = pc[k], HeadOf(i)'
  PROVE  HeaderOnTop' /\ \A k \in Runs : HeadOf(k)'
<1>1. HeaderOnTop'
  BY DEF HeaderOnTop, Begins
<1> QED BY <1>1, OthersAreNotActive

LEMMA StatKeepsHeader ==
  ASSUME TypeOK, Turns, ~setup.overlap, HeaderOnTop, NEW i \in Runs,
         NEW a \in setup.modes, Stat(i, a)
  PROVE  HeaderOnTop' /\ \A k \in Runs : HeadOf(k)'
<1>1. /\ \A j \in Runs : ~Active(j)
      /\ file' = file /\ pc'[i] = "open" /\ append'[i] = a
      /\ header'[i] = (~a \/ file = <<>>)
      /\ \A k \in Runs : k # i => pc'[k] = pc[k]
  BY DEF Stat, Goto, NeedHeader, TypeOK
<1>2. header'[i] <=> (~a \/ file = <<>>)
  BY <1>1, Zenon
<1>3. header'[i] <=> (~append'[i] \/ file' = <<>>)
  BY <1>1, <1>2
<1>4. HeadOf(i)'
  BY <1>1, <1>3 DEF HeadOf
<1> QED BY <1>1, <1>4, QuietStepKeepsHeader

LEMMA OpenFileKeepsHeader ==
  ASSUME TypeOK, Turns, ~setup.overlap, HeaderOnTop, NEW i \in Runs, HeadOf(i),
         OpenFile(i)
  PROVE  HeaderOnTop' /\ \A k \in Runs : HeadOf(k)'
<1>1. /\ pc[i] = "open" /\ Active(i)
      /\ \A k \in Runs : k # i => pc'[k] = pc[k]
      /\ append[i] => file' = file
      /\ ~append[i] => file' = <<>>
      /\ header[i] => pc'[i] = "header"
      /\ ~header[i] => pc'[i] = "ready"
  BY DEF OpenFile, Goto, TypeOK, Active, Ended
<1>2. header[i] <=> (~append[i] \/ file = <<>>)
  BY <1>1 DEF HeadOf
<1>3. HeadOf(i)'
  <2>1. CASE header[i]
    BY <1>1, <1>2, <2>1 DEF HeadOf
  <2>2. CASE ~header[i]
    BY <1>1, <1>2, <2>2 DEF HeadOf
  <2> QED BY <2>1, <2>2
<1>4. HeaderOnTop'
  BY <1>1 DEF HeaderOnTop, Begins
<1> QED BY <1>1, <1>3, <1>4, OthersAreNotActive

LEMMA FlushHeaderKeepsHeader ==
  ASSUME TypeOK, Turns, FileInv, ~setup.overlap, HeaderOnTop, NEW i \in Runs,
         HeadOf(i), NEW n, FlushHeader(i, n)
  PROVE  HeaderOnTop' /\ \A k \in Runs : HeadOf(k)'
<1> DEFINE d == SubSeq(buf[i], 1, n)
<1>1. /\ pc[i] = "header" /\ pc'[i] \in {"failed", "ready"} /\ Flush(i, n)
      /\ setup' = setup /\ append' = append
      /\ pc'[i] = "ready" => ~err'[i]
      /\ \A k \in Runs : k # i => pc'[k] = pc[k]
  BY DEF FlushHeader, Goto, TypeOK
<1>2. file = <<>> /\ buf[i] = Header /\ Active(i)
  BY <1>1 DEF HeadOf, FileInv, Kept, Active, Ended
<1>3. n \in 0..2 /\ Len(d) = n /\ \A k \in 1..n : d[k] = Header[k]
  <2>1. buf[i] \in Seq(Named \X {1, 2}) /\ n \in 0..Len(buf[i])
    BY <1>1 DEF TypeOK, Pieces, Flush
  <2>2. Len(d) = n /\ \A k \in 1..n : d[k] = buf[i][k]
    BY <2>1, Prefix
  <2> QED BY <1>2, <2>1, <2>2, Parts
<1>4. Grows(d) /\ (err'[i] <=> n < Len(buf[i]))
  <2>1. AtEnd /\ Writing(i) /\ pc'[i] \notin {"off", "open"} /\ Orderly
    BY <1>1 DEF FileInv, Writing, Orderly
  <2>2. d = SubSeq(buf[i], 1, n)
    OBVIOUS
  <2> HIDE DEF d
  <2> QED BY <1>1, <2>1, <2>2, FlushAppends
<1> HIDE DEF d
<1>5. Len(file) = 0 /\ Len(file') = n /\ \A k \in 1..n : file'[k] = Header[k]
  <2>1. Len(file) = 0
    BY <1>2
  <2>2. Len(file') = n /\ \A k \in 1..n : file'[0 + k] = d[k]
    BY <1>3, <1>4, <2>1 DEF Grows
  <2> QED BY <1>3, <2>1, <2>2
<1>6. HeaderOnTop'
  <2> SUFFICES ASSUME NEW j \in 1..Len(file')
               PROVE  file'[j] = <<Top, 1>> <=> j = 1
    BY DEF HeaderOnTop, Begins
  <2>1. j \in 1..n /\ (j = 1 \/ j = 2) /\ file'[j] = Header[j]
    BY <1>3, <1>5
  <2> QED BY <2>1, Parts
<1>7. HeadOf(i)'
  <2>1. CASE pc'[i] = "ready"
    <3>1. ~(n < Len(buf[i]))
      BY <1>1, <1>4, <2>1, Zenon
    <3>2. n = 2
      BY <1>2, <1>3, <3>1, Parts
    <3>3. Len(file') = 2
      BY <1>5, <3>2
    <3>4. file' # <<>>
      BY <3>3
    <3> QED BY <2>1, <3>4 DEF HeadOf
  <2>2. CASE pc'[i] = "failed"
    BY <2>2 DEF HeadOf
  <2> QED BY <1>1, <2>1, <2>2
<1> QED BY <1>1, <1>2, <1>6, <1>7, OthersAreNotActive

LEMMA FlushRowsKeepsHeader ==
  ASSUME TypeOK, Turns, FileInv, ~setup.overlap, HeaderOnTop, NEW i \in Runs,
         HeadOf(i), NEW n, FlushRows(i, n)
  PROVE  HeaderOnTop' /\ \A k \in Runs : HeadOf(k)'
<1> DEFINE d == SubSeq(buf[i], 1, n)
<1>1. /\ pc[i] = "flush" /\ pc'[i] = "ready" /\ Flush(i, n)
      /\ setup' = setup /\ append' = append
      /\ \A k \in Runs : k # i => pc'[k] = pc[k]
  BY DEF FlushRows, Goto, TypeOK
<1>2. file # <<>> /\ Buffered(i) /\ Active(i)
  BY <1>1 DEF HeadOf, FileInv, Kept, Active, Ended
<1>3. /\ n \in 0..Len(buf[i]) /\ Len(buf[i]) \in Nat
      /\ Len(d) = n /\ \A k \in 1..n : d[k] = buf[i][k]
  <2>1. buf[i] \in Seq(Named \X {1, 2}) /\ n \in 0..Len(buf[i])
    BY <1>1 DEF TypeOK, Pieces, Flush
  <2>2. Len(d) = n /\ \A k \in 1..n : d[k] = buf[i][k]
    BY <2>1, Prefix
  <2> QED BY <2>1, <2>2
<1>4. Grows(d)
  <2>1. AtEnd /\ Writing(i) /\ pc'[i] \notin {"off", "open"} /\ Orderly
    BY <1>1 DEF FileInv, Writing, Orderly
  <2>2. d = SubSeq(buf[i], 1, n)
    OBVIOUS
  <2> HIDE DEF d
  <2> QED BY <1>1, <2>1, <2>2, FlushAppends
<1> HIDE DEF d
<1>5. PICK g \in 0..MaxRows : given[i] \in {g + 1, g + 2} /\ buf[i] = Rows(i, g, given[i])
  BY <1>2 DEF Buffered
<1>6. ASSUME NEW k \in 1..n
      PROVE  d[k] # <<Top, 1>>
  <2>1. d[k] = buf[i][k] /\ k \in 1..Len(buf[i])
    BY <1>3
  <2>2. Lines(buf[i], i, g, given[i])
    BY <1>5, RowsAreLines
  <2>3. buf[i][k] \in ({i} \X ((g + 1)..given[i])) \X {1, 2}
    BY <2>1, <2>2 DEF Lines
  <2>4. PICK m \in (g + 1)..given[i] : buf[i][k][1] = <<i, m>>
    BY <2>3
  <2>5. m # 0
    BY <2>4, CsvAssumption
  <2> QED BY <2>1, <2>4, <2>5 DEF Top
<1>7. Len(file) \in Nat /\ Len(file) # 0
  <2>1. file \in Seq(Named \X {1, 2})
    BY DEF TypeOK, Pieces
  <2> QED BY <1>2, <2>1
<1>8. HeaderOnTop'
  <2> SUFFICES ASSUME NEW j \in 1..Len(file')
               PROVE  file'[j] = <<Top, 1>> <=> j = 1
    BY DEF HeaderOnTop, Begins
  <2>1. CASE j \in 1..Len(file) /\ file'[j] = file[j]
    BY <2>1 DEF HeaderOnTop, Begins
  <2>2. CASE /\ j > Len(file) /\ j - Len(file) \in 1..Len(d)
             /\ file'[j] = d[j - Len(file)]
    <3>1. j # 1
      BY <1>7, <2>2
    <3>2. file'[j] # <<Top, 1>>
      BY <1>3, <1>6, <2>2
    <3> QED BY <3>1, <3>2
  <2> QED BY <1>3, <1>4, <2>1, <2>2, OldOrNew
<1>9. HeadOf(i)'
  <2>1. Len(file') # 0
    BY <1>3, <1>4, <1>7 DEF Grows
  <2>2. file' # <<>>
    BY <2>1
  <2> QED BY <1>1, <2>2 DEF HeadOf
<1> QED BY <1>1, <1>2, <1>8, <1>9, OthersAreNotActive

LEMMA HeaderInit == Init => HeaderInv
BY DEF Init, HeaderInv, HeaderOnTop, HeadOf

LEMMA HeaderStep == TypeOK /\ CsvInv /\ HeaderInv /\ [Next]_vars => HeaderInv'
<1> SUFFICES ASSUME TypeOK, CsvInv, HeaderInv, [Next]_vars, ~setup'.overlap
             PROVE  HeaderOnTop' /\ \A k \in Runs : HeadOf(k)'
  BY DEF HeaderInv
<1>1. setup' = setup
  BY DEF Next, vars, Create, Output, Stat, OpenFile, OpenFails, FlushHeader, Write,
         FlushRows, Close, Kill
<1>2. /\ ~setup.overlap /\ Turns /\ FileInv /\ HeaderOnTop
      /\ \A k \in Runs : HeadOf(k)
  BY <1>1 DEF CsvInv, Orderly, HeaderInv
<1>3. ASSUME NEW i \in Runs, NEW a \in setup.modes, Stat(i, a)
      PROVE  HeaderOnTop' /\ \A k \in Runs : HeadOf(k)'
  BY <1>2, <1>3, StatKeepsHeader
<1>4. ASSUME NEW i \in Runs, NEW n,
             OpenFile(i) \/ FlushHeader(i, n) \/ FlushRows(i, n)
      PROVE  HeaderOnTop' /\ \A k \in Runs : HeadOf(k)'
  BY <1>2, <1>4, OpenFileKeepsHeader, FlushHeaderKeepsHeader, FlushRowsKeepsHeader
<1>5. ASSUME NEW i \in Runs, NEW rows \in 1..2, Write(i, rows)
      PROVE  HeaderOnTop' /\ \A k \in Runs : HeadOf(k)'
  <2>1. /\ pc[i] = "ready" /\ pc'[i] \in {"ready", "flush"} /\ file' = file
        /\ \A k \in Runs : k # i => pc'[k] = pc[k]
    BY <1>5 DEF Write, Goto, AfterBuffering, TypeOK
  <2>2. HeadOf(i)' /\ Active(i)
    BY <1>2, <2>1 DEF HeadOf, Active, Ended
  <2> QED BY <1>2, <2>1, <2>2, QuietStepKeepsHeader
<1>6. ASSUME NEW i \in Runs, OpenFails(i) \/ Close(i) \/ Kill(i)
      PROVE  HeaderOnTop' /\ \A k \in Runs : HeadOf(k)'
  <2>1. /\ Active(i) /\ file' = file
        /\ pc'[i] \in {"failed", "closed", "closedWithError", "killed"}
        /\ \A k \in Runs : k # i => pc'[k] = pc[k]
    BY <1>6 DEF OpenFails, Close, Kill, Outcome, Goto, Active, Ended, TypeOK
  <2>2. HeadOf(i)'
    BY <2>1 DEF HeadOf
  <2> QED BY <1>2, <2>1, <2>2, QuietStepKeepsHeader
<1>7. CASE UNCHANGED vars
  <2>1. file' = file /\ pc' = pc /\ append' = append /\ header' = header
    BY <1>7 DEF vars, run
  <2>2. HeaderOnTop'
    BY <1>2, <2>1 DEF HeaderOnTop, Begins
  <2>3. \A k \in Runs : HeadOf(k)'
    BY <1>2, <2>1 DEF HeadOf
  <2> QED BY <2>2, <2>3
<1> QED BY <1>3, <1>4, <1>5, <1>6, <1>7 DEF Next, Create, Output

\* CSVCreator: among runs that follow each other the header is written to a file
\* that is new or truncated, and to no other, whatever the end of each run.
THEOREM HeaderStaysOnTop == Spec => []HeaderOnTopInTurn
<1>1. HeaderInv => HeaderOnTopInTurn
  BY DEF HeaderInv, HeaderOnTopInTurn
<1> QED BY <1>1, CsvInvariant, HeaderInit, HeaderStep, PTL DEF Spec
===============================================================================
