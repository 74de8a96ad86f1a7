--------------------------- MODULE MqttOutput_proofs ---------------------------
(***************************************************************************)
(* Proofs about MqttOutput, for any runs and client ids, any number of     *)
(* batches and of lost connections.                                        *)
(***************************************************************************)
EXTENDS MqttOutput, FiniteSetTheorems, TLAPS

Packets == 1..MaxBatches

-------------------------------------------------------------------------------
(***************************************************************************)
(* Sequences of numbers that rise.                                         *)
(***************************************************************************)
Rising(s) == \A i, j \in DOMAIN s : i < j => s[i] < s[j]

LEMMA EmptyElements == Elements(<<>>) = {} /\ Rising(<<>>)
BY DEF Elements, Rising

LEMMA ElementsType ==
  ASSUME NEW S, NEW s \in Seq(S)
  PROVE  Elements(s) \subseteq S
BY DEF Elements

LEMMA Appended ==
  ASSUME NEW S, NEW s \in Seq(S), NEW x \in S
  PROVE  /\ Append(s, x) \in Seq(S)
         /\ Elements(Append(s, x)) = Elements(s) \cup {x}
<1>1. /\ Len(s) \in Nat
      /\ DOMAIN Append(s, x) = 1..(Len(s) + 1) /\ DOMAIN s = 1..Len(s)
      /\ \A i \in 1..(Len(s) + 1) : Append(s, x)[i] = IF i = Len(s) + 1 THEN x ELSE s[i]
  OBVIOUS
<1> QED BY <1>1 DEF Elements

LEMMA RisingAppended ==
  ASSUME NEW s \in Seq(Packets), NEW x \in Packets, Rising(s),
         \A y \in Elements(s) : y < x
  PROVE  Rising(Append(s, x))
<1>1. /\ Len(s) \in Nat
      /\ DOMAIN Append(s, x) = 1..(Len(s) + 1) /\ DOMAIN s = 1..Len(s)
      /\ \A i \in 1..(Len(s) + 1) : Append(s, x)[i] = IF i = Len(s) + 1 THEN x ELSE s[i]
  OBVIOUS
<1>2. \A i \in 1..Len(s) : s[i] < x
  BY <1>1 DEF Elements
<1> QED BY <1>1, <1>2 DEF Rising

LEMMA Removed ==
  ASSUME NEW S, NEW s \in Seq(S), s # <<>>
  PROVE  /\ Head(s) \in S /\ Tail(s) \in Seq(S)
         /\ Elements(s) = {Head(s)} \cup Elements(Tail(s))
<1>1. /\ Len(s) \in Nat \ {0} /\ DOMAIN s = 1..Len(s) /\ Head(s) = s[1]
      /\ Tail(s) \in Seq(S) /\ DOMAIN Tail(s) = 1..(Len(s) - 1)
      /\ \A i \in 1..(Len(s) - 1) : Tail(s)[i] = s[i + 1]
  OBVIOUS
<1>2. ASSUME NEW i \in 1..Len(s), i # 1
      PROVE  i - 1 \in 1..(Len(s) - 1) /\ s[i] = Tail(s)[i - 1]
  <2>1. i - 1 \in 1..(Len(s) - 1) /\ (i - 1) + 1 = i
    BY <1>1, <1>2
  <2> QED BY <1>1, <2>1
<1>3. \A i \in 1..(Len(s) - 1) : i + 1 \in 1..Len(s)
  BY <1>1
<1>4. 1 \in 1..Len(s)
  BY <1>1
<1>5. Elements(s) \subseteq {Head(s)} \cup Elements(Tail(s))
  <2> SUFFICES ASSUME NEW i \in 1..Len(s)
               PROVE  s[i] = Head(s) \/ s[i] \in Elements(Tail(s))
    BY <1>1 DEF Elements
  <2> QED BY <1>1, <1>2 DEF Elements
<1>6. {Head(s)} \cup Elements(Tail(s)) \subseteq Elements(s)
  BY <1>1, <1>3, <1>4 DEF Elements
<1> QED BY <1>1, <1>4, <1>5, <1>6

LEMMA RisingRemoved ==
  ASSUME NEW s \in Seq(Packets), s # <<>>, Rising(s)
  PROVE  Rising(Tail(s)) /\ \A y \in Elements(Tail(s)) : Head(s) < y
<1>1. /\ Len(s) \in Nat \ {0} /\ DOMAIN s = 1..Len(s) /\ Head(s) = s[1]
      /\ DOMAIN Tail(s) = 1..(Len(s) - 1)
      /\ \A i \in 1..(Len(s) - 1) : Tail(s)[i] = s[i + 1]
  OBVIOUS
<1>2. \A i \in 1..(Len(s) - 1) : i + 1 \in 1..Len(s) /\ 1 < i + 1
  BY <1>1
<1>3. \A i, j \in 1..(Len(s) - 1) : i < j => i + 1 < j + 1
  OBVIOUS
<1>4. 1 \in 1..Len(s)
  BY <1>1
<1> QED BY <1>1, <1>2, <1>3, <1>4 DEF Rising, Elements

-------------------------------------------------------------------------------
(***************************************************************************)
(* Types. That the client never has two packets in its hand needs that it  *)
(* takes one only when it has none.                                        *)
(***************************************************************************)
TypeInv ==
  /\ pc \in [Runs -> {"new", "connecting", "ready", "handing", "waiting",
                      "failed", "closed", "exited"}]
  /\ link \in [Runs -> {"none", "connecting", "up", "reconnecting", "closing"}]
  /\ n \in [Runs -> 0..MaxBatches]
  /\ token \in [Runs -> {"none", "pending", "done", "error"}]
  /\ sender \in [Runs -> SUBSET Packets]
  /\ \A r \in Runs : \A x, y \in sender[r] : x = y
  /\ \A r \in Runs : pc[r] \in {"handing", "waiting"} => n[r] \in Packets
  /\ wire \in [Runs -> Seq(Packets)]
  /\ outages \in 0..MaxOutages
  /\ delivered \in [Runs -> Seq(Packets)]
  /\ acked \in [Runs -> SUBSET Packets]
  /\ cut \in [Runs -> SUBSET Packets]

LEMMA TypeInvGives == TypeInv => TypeOK
<1> SUFFICES ASSUME TypeInv, NEW r \in Runs PROVE Cardinality(sender[r]) <= 1
  BY DEF TypeInv, TypeOK, Packets
<1>1. CASE sender[r] = {}
  BY <1>1, FS_EmptySet
<1>2. CASE sender[r] # {}
  <2>1. PICK k : k \in sender[r]
    BY <1>2
  <2>2. sender[r] = {k}
    BY <2>1 DEF TypeInv
  <2>3. Cardinality({k}) = 1
    BY FS_Singleton
  <2> QED BY <2>2, <2>3
<1> QED BY <1>1, <1>2

LEMMA NextPacket ==
  ASSUME TypeInv, NEW r \in Runs, n[r] < MaxBatches
  PROVE  n[r] + 1 \in Packets /\ n[r] + 1 \in 0..MaxBatches
BY MqttAssumption DEF TypeInv, Packets

LEMMA LostType ==
  ASSUME TypeInv, NEW S, Lost(S)
  PROVE  /\ wire' \in [Runs -> Seq(Packets)]
         /\ sender' \in [Runs -> SUBSET Packets]
         /\ \A r \in Runs : \A x, y \in sender'[r] : x = y
         /\ token' \in [Runs -> {"none", "pending", "done", "error"}]
         /\ cut' \in [Runs -> SUBSET Packets]
<1>1. \A r \in Runs : Elements(wire[r]) \subseteq Packets
  BY ElementsType DEF TypeInv
<1>2. wire' \in [Runs -> Seq(Packets)]
  BY DEF Lost, TypeInv
<1>3. sender' \in [Runs -> SUBSET Packets] /\ \A r \in Runs : \A x, y \in sender'[r] : x = y
  BY DEF Lost, TypeInv
<1>4. token' \in [Runs -> {"none", "pending", "done", "error"}]
  BY DEF Lost, TypeInv
<1>5. cut' \in [Runs -> SUBSET Packets]
  BY <1>1 DEF Lost, TypeInv
<1> QED BY <1>2, <1>3, <1>4, <1>5

LEMMA TypeStep == TypeInv /\ [Next]_vars => TypeInv'
<1> SUFFICES ASSUME TypeInv, [Next]_vars PROVE TypeInv'
  OBVIOUS
<1>u. CASE UNCHANGED vars
  BY <1>u DEF vars, client, log, TypeInv
<1>n. ASSUME NEW r \in Runs, Creating(r) \/ Writing(r) \/ Close(r) \/ Exit(r) \/ Network(r)
      PROVE  TypeInv'
  <2> USE DEF Goto, client, log
  <2>1. CASE Creating(r)
    BY <2>1 DEF Creating, Connect, Connected, ConnectFails, ConnectTimesOut, TypeInv
  <2>2. CASE PublishDropped(r)
    BY <2>2, NextPacket DEF PublishDropped, TypeInv
  <2>3. CASE Publish(r)
    <3>1. /\ n' = [n EXCEPT ![r] = @ + 1] /\ token' = [token EXCEPT ![r] = "pending"]
          /\ pc' = [pc EXCEPT ![r] = "handing"]
          /\ UNCHANGED <<outages, link, sender, wire, delivered, acked, cut>>
      BY <2>3 DEF Publish
    <3>2. n[r] + 1 \in Packets /\ n[r] + 1 \in 0..MaxBatches
      BY <2>3, NextPacket DEF Publish
    <3> QED BY <3>1, <3>2 DEF TypeInv
  <2>4. CASE HandOver(r)
    BY <2>4 DEF HandOver, SenderFree, TypeInv
  <2>5. CASE HandOverTimesOut(r) \/ WriteTimesOut(r)
    BY <2>5 DEF HandOverTimesOut, WriteTimesOut, TypeInv
  <2>11. CASE Close(r)
    BY <2>11 DEF Close, TypeInv
  <2>12. CASE Exit(r)
    BY <2>12 DEF Exit, TypeInv
  <2>6. CASE WriteReturns(r)
    BY <2>6 DEF WriteReturns, TypeInv
  <2>7. CASE BrokerAccepts(r)
    <3>1. link' \in [Runs -> {"none", "connecting", "up", "reconnecting", "closing"}]
      BY <2>7 DEF BrokerAccepts, TypeInv
    <3>2. UNCHANGED <<pc, n, outages, delivered, acked>>
      BY <2>7 DEF BrokerAccepts
    <3> QED BY <2>7, <3>1, <3>2, LostType DEF BrokerAccepts, TypeInv
  <2>8. CASE Outage(r)
    <3>1. link' \in [Runs -> {"none", "connecting", "up", "reconnecting", "closing"}]
      BY <2>8 DEF Outage, TypeInv
    <3>2. UNCHANGED <<pc, n, delivered, acked>> /\ outages' \in 0..MaxOutages
      BY <2>8, MqttAssumption DEF Outage, TypeInv
    <3> QED BY <2>8, <3>1, <3>2, LostType DEF Outage, TypeInv
  <2>9. CASE SenderWrites(r)
    <3>1. PICK k \in sender[r] :
            /\ wire' = [wire EXCEPT ![r] = Append(@, k)]
            /\ sender' = [sender EXCEPT ![r] = @ \ {k}]
            /\ token' = IF k = n[r] THEN [token EXCEPT ![r] = "done"] ELSE token
      BY <2>9 DEF SenderWrites
    <3>2. k \in Packets
      BY DEF TypeInv
    <3>3. Append(wire[r], k) \in Seq(Packets)
      BY <3>2, Appended DEF TypeInv
    <3>4. wire' \in [Runs -> Seq(Packets)]
      BY <3>1, <3>3 DEF TypeInv
    <3> QED BY <2>9, <3>1, <3>4 DEF SenderWrites, TypeInv
  <2>10. CASE Deliver(r)
    <3>1. Head(wire[r]) \in Packets /\ Tail(wire[r]) \in Seq(Packets)
      BY <2>10, Removed DEF Deliver, TypeInv
    <3>2. Append(delivered[r], Head(wire[r])) \in Seq(Packets)
      BY <3>1, Appended DEF TypeInv
    <3>3. wire' \in [Runs -> Seq(Packets)] /\ delivered' \in [Runs -> Seq(Packets)]
      BY <2>10, <3>1, <3>2 DEF Deliver, TypeInv
    <3> QED BY <2>10, <3>3 DEF Deliver, TypeInv
  <2> QED BY <1>n, <2>1, <2>2, <2>3, <2>4, <2>5, <2>6, <2>7, <2>8, <2>9, <2>10,
          <2>11, <2>12 DEF Writing, Network
<1> QED BY <1>u, <1>n DEF Next

LEMMA TypeInvariant == Spec => []TypeInv
<1>1. Init => TypeInv
  <2> SUFFICES ASSUME Init PROVE TypeInv
    OBVIOUS
  <2>1. 0 \in 0..MaxBatches /\ 0 \in 0..MaxOutages
    BY MqttAssumption
  <2>2. <<>> \in Seq(Packets)
    OBVIOUS
  <2> QED BY <2>1, <2>2 DEF Init, TypeInv
<1> QED BY <1>1, TypeStep, PTL DEF Spec

\* Every variable of the output keeps its type, and the client never has two
\* packets in its hand.
THEOREM TypeCorrect == Spec => []TypeOK
BY TypeInvariant, TypeInvGives, PTL

-------------------------------------------------------------------------------
(***************************************************************************)
(* Order. What the broker has got, the network, the client's hand and the  *)
(* batch that is being handed over hold rising numbers, in this order.     *)
(***************************************************************************)
Sent(r) == Elements(delivered[r]) \cup Elements(wire[r])

InLine(r) ==
  /\ Rising(delivered[r]) /\ Rising(wire[r])
  /\ \A x \in Elements(delivered[r]), y \in Elements(wire[r]) : x < y
  /\ \A x \in Sent(r), k \in sender[r] : x < k
  /\ \A x \in Sent(r) \cup sender[r] :
       x <= n[r] /\ (pc[r] = "handing" => x < n[r])

OrderInv == \A r \in Runs : InLine(r)

LEMMA PacketsAreNumbers ==
  ASSUME TypeInv, NEW r \in Runs
  PROVE  n[r] \in Int /\ Sent(r) \subseteq Packets /\ sender[r] \subseteq Packets
BY ElementsType, MqttAssumption DEF TypeInv, Sent

LEMMA NextIsHigher ==
  ASSUME TypeInv, NEW r \in Runs, InLine(r), NEW x \in Sent(r) \cup sender[r]
  PROVE  x < n[r] + 1 /\ x <= n[r] + 1
<1>1. x \in Int /\ n[r] \in Int
  BY PacketsAreNumbers DEF Packets
<1>2. x <= n[r]
  BY DEF InLine
<1> QED BY <1>1, <1>2

\* What a run loses with its connection leaves no gap that matters.
LEMMA LostKeepsOrder ==
  ASSUME OrderInv, NEW S, Lost(S), UNCHANGED <<pc, n, delivered>>
  PROVE  OrderInv'
<1> SUFFICES ASSUME NEW r \in Runs PROVE InLine(r)'
  BY DEF OrderInv
<1>1. InLine(r)
  BY DEF OrderInv
<1>2. CASE r \in S
  <2>1. wire'[r] = <<>> /\ sender'[r] = {}
    BY <1>2 DEF Lost
  <2> QED BY <1>1, <2>1, EmptyElements DEF InLine, Sent
<1>3. CASE r \notin S
  <2>1. wire'[r] = wire[r] /\ sender'[r] = sender[r]
    BY <1>3 DEF Lost
  <2> QED BY <1>1, <2>1 DEF InLine, Sent
<1> QED BY <1>2, <1>3

LEMMA OrderStep == TypeInv /\ OrderInv /\ [Next]_vars => OrderInv'
<1> SUFFICES ASSUME TypeInv, OrderInv, [Next]_vars PROVE OrderInv'
  OBVIOUS
<1>a. \A q \in Runs : InLine(q) /\ n[q] \in Int /\ Sent(q) \subseteq Packets
                      /\ sender[q] \subseteq Packets
  BY PacketsAreNumbers DEF OrderInv
<1>b. Packets \subseteq Int
  BY DEF Packets
<1>u. CASE UNCHANGED vars
  BY <1>u DEF vars, client, log, OrderInv, InLine, Sent
<1>n. ASSUME NEW r \in Runs, Creating(r) \/ Writing(r) \/ Close(r) \/ Exit(r) \/ Network(r)
      PROVE  OrderInv'
  \* It is enough to look at the run that takes the step.
  <2>a. ASSUME \A q \in Runs \ {r} : /\ pc'[q] = pc[q] /\ n'[q] = n[q]
                                     /\ wire'[q] = wire[q] /\ sender'[q] = sender[q]
                                     /\ delivered'[q] = delivered[q],
               InLine(r)'
        PROVE  OrderInv'
    BY <1>a, <2>a DEF OrderInv, InLine, Sent
  <2> USE DEF Goto, client, log
  <2>1. ASSUME pc'[r] # "handing", \A q \in Runs \ {r} : pc'[q] = pc[q],
               UNCHANGED <<n, sender, wire, delivered>>
        PROVE  OrderInv'
    BY <1>a, <2>1, <2>a DEF InLine, Sent
  <2>2. CASE Creating(r)
    BY <2>1, <2>2 DEF Creating, Connect, Connected, ConnectFails, ConnectTimesOut, TypeInv
  <2>3. CASE PublishDropped(r)
    <3>1. n'[r] = n[r] + 1 /\ UNCHANGED <<pc, sender, wire, delivered>>
          /\ \A q \in Runs \ {r} : n'[q] = n[q]
      BY <2>3 DEF PublishDropped, TypeInv
    <3>2. pc'[r] = "ready"
      BY <2>3, <3>1 DEF PublishDropped
    <3>3. \A x \in Sent(r) \cup sender[r] : x <= n'[r]
      BY <1>a, <3>1, NextIsHigher
    <3>4. InLine(r)'
      BY <1>a, <3>1, <3>2, <3>3 DEF InLine, Sent
    <3> QED BY <2>a, <3>1, <3>4
  <2>4. CASE Publish(r)
    <3>1. n'[r] = n[r] + 1 /\ UNCHANGED <<sender, wire, delivered>>
          /\ \A q \in Runs \ {r} : n'[q] = n[q] /\ pc'[q] = pc[q]
      BY <2>4 DEF Publish, TypeInv
    <3>2. \A x \in Sent(r) \cup sender[r] : x < n'[r] /\ x <= n'[r]
      BY <1>a, <3>1, NextIsHigher
    <3>3. InLine(r)'
      BY <1>a, <3>1, <3>2 DEF InLine, Sent
    <3> QED BY <2>a, <3>1, <3>3
  <2>5. CASE HandOver(r)
    <3>1. /\ pc[r] = "handing" /\ pc'[r] = "waiting" /\ UNCHANGED <<n, wire, delivered>>
          /\ \A q \in Runs \ {r} : pc'[q] = pc[q] /\ sender'[q] = sender[q]
          /\ sender'[r] = {n[r]}
      BY <2>5 DEF HandOver, SenderFree, TypeInv
    <3>2. InLine(r)'
      BY <1>a, <1>b, <3>1 DEF InLine, Sent
    <3> QED BY <2>a, <3>1, <3>2
  <2>6. CASE HandOverTimesOut(r) \/ WriteReturns(r) \/ WriteTimesOut(r) \/ Close(r)
    BY <2>1, <2>6 DEF HandOverTimesOut, WriteReturns, WriteTimesOut, Close, TypeInv
  <2>7. CASE Exit(r)
    <3>1. /\ pc'[r] = "exited" /\ UNCHANGED <<n, wire, delivered>>
          /\ \A q \in Runs \ {r} : pc'[q] = pc[q] /\ sender'[q] = sender[q]
          /\ sender'[r] = {}
      BY <2>7 DEF Exit, TypeInv
    <3>2. InLine(r)'
      BY <1>a, <3>1 DEF InLine, Sent
    <3> QED BY <2>a, <3>1, <3>2
  <2>8. CASE BrokerAccepts(r)
    BY <2>8, LostKeepsOrder DEF BrokerAccepts
  <2>9. CASE Outage(r)
    BY <2>9, LostKeepsOrder DEF Outage
  <2>10. CASE SenderWrites(r)
    <3>1. PICK k \in sender[r] : wire' = [wire EXCEPT ![r] = Append(@, k)]
                                 /\ sender' = [sender EXCEPT ![r] = @ \ {k}]
      BY <2>10 DEF SenderWrites
    <3>2. UNCHANGED <<pc, n, delivered>>
      BY <2>10 DEF SenderWrites
    <3>3. wire'[r] = Append(wire[r], k) /\ sender'[r] = {}
          /\ \A q \in Runs \ {r} : wire'[q] = wire[q] /\ sender'[q] = sender[q]
      BY <3>1 DEF TypeInv
    <3>4. k \in Packets /\ wire[r] \in Seq(Packets)
      BY DEF TypeInv
    <3>5. Elements(wire'[r]) = Elements(wire[r]) \cup {k}
      BY <3>3, <3>4, Appended
    <3>6. Rising(wire'[r])
      BY <1>a, <3>3, <3>4, RisingAppended DEF InLine, Sent
    <3>7. InLine(r)'
      BY <1>a, <3>2, <3>3, <3>5, <3>6 DEF InLine, Sent
    <3> QED BY <2>a, <3>2, <3>3, <3>7
  <2>11. CASE Deliver(r)
    <3> DEFINE h == Head(wire[r])
    <3>1. /\ wire[r] # <<>> /\ UNCHANGED <<pc, n, sender>>
          /\ delivered'[r] = Append(delivered[r], h) /\ wire'[r] = Tail(wire[r])
          /\ \A q \in Runs \ {r} : delivered'[q] = delivered[q] /\ wire'[q] = wire[q]
      BY <2>11 DEF Deliver, TypeInv
    <3>2. wire[r] \in Seq(Packets) /\ delivered[r] \in Seq(Packets)
      BY DEF TypeInv
    <3>3. h \in Packets /\ Elements(wire[r]) = {h} \cup Elements(wire'[r])
      BY <3>1, <3>2, Removed
    <3>4. Rising(wire'[r]) /\ \A y \in Elements(wire'[r]) : h < y
      BY <1>a, <3>1, <3>2, RisingRemoved DEF InLine
    <3> HIDE DEF h
    <3>5. Elements(delivered'[r]) = Elements(delivered[r]) \cup {h}
      BY <3>1, <3>2, <3>3, Appended
    <3>6. Rising(delivered'[r])
      BY <1>a, <3>1, <3>2, <3>3, RisingAppended DEF InLine
    <3>7. InLine(r)'
      BY <1>a, <3>1, <3>3, <3>4, <3>5, <3>6 DEF InLine, Sent
    <3> QED BY <2>a, <3>1, <3>7
  <2> QED BY <1>n, <2>2, <2>3, <2>4, <2>5, <2>6, <2>7, <2>8, <2>9, <2>10, <2>11
          DEF Writing, Network
<1> QED BY <1>u, <1>n DEF Next

LEMMA OrderInvariant == Spec => []OrderInv
<1>1. Init => OrderInv
  BY EmptyElements DEF Init, OrderInv, InLine, Sent
<1> QED BY <1>1, OrderStep, TypeInvariant, PTL DEF Spec

\* Subscribers get the batches of a run in the order they were measured and none
\* twice, however many waits end early and connections are lost.
THEOREM BatchesComeInOrder == Spec => []AtMostOnceInOrder
<1>1. OrderInv => AtMostOnceInOrder
  BY DEF OrderInv, InLine, Rising, AtMostOnceInOrder
<1> QED BY <1>1, OrderInvariant, PTL

-------------------------------------------------------------------------------
(***************************************************************************)
(* Acknowledgement. A token that is done belongs to a packet that has been *)
(* written to the socket.                                                  *)
(***************************************************************************)
Out(r) == Sent(r) \cup cut[r]

AckInv ==
  \A r \in Runs :
    /\ acked[r] \subseteq Out(r)
    /\ pc[r] = "handing" => token[r] = "pending"
    /\ pc[r] = "waiting" /\ token[r] = "done" => n[r] \in Out(r)

LEMMA LostKeepsAcks ==
  ASSUME TypeInv, OrderInv, AckInv, NEW S, Lost(S),
         UNCHANGED <<pc, n, delivered, acked>>
  PROVE  AckInv'
<1> SUFFICES ASSUME NEW r \in Runs
             PROVE  /\ acked'[r] \subseteq Out(r)'
                    /\ pc'[r] = "handing" => token'[r] = "pending"
                    /\ pc'[r] = "waiting" /\ token'[r] = "done" => n'[r] \in Out(r)'
  BY DEF AckInv
<1>1. Out(r) \subseteq Out(r)'
  <2>1. CASE r \in S
    BY <2>1 DEF Lost, Out, Sent
  <2>2. CASE r \notin S
    BY <2>2 DEF Lost, Out, Sent
  <2> QED BY <2>1, <2>2
<1>2. token'[r] \in {token[r], "error"}
  BY DEF Lost
<1>3. pc[r] = "handing" => n[r] \notin sender[r]
  BY PacketsAreNumbers DEF OrderInv, InLine
<1>4. pc[r] = "handing" => token'[r] = token[r]
  BY <1>3 DEF Lost
<1> QED BY <1>1, <1>2, <1>4 DEF AckInv

LEMMA AckStep == TypeInv /\ OrderInv /\ AckInv /\ [Next]_vars => AckInv'
<1> SUFFICES ASSUME TypeInv, OrderInv, AckInv, [Next]_vars PROVE AckInv'
  OBVIOUS
<1>u. CASE UNCHANGED vars
  BY <1>u DEF vars, client, log, AckInv, Out, Sent
<1>n. ASSUME NEW r \in Runs, Creating(r) \/ Writing(r) \/ Close(r) \/ Exit(r) \/ Network(r)
      PROVE  AckInv'
  <2> USE DEF Goto, client, log
  \* A step of r that takes it out of Write, or begins one.
  <2>1. ASSUME pc'[r] \notin {"handing", "waiting"}, \A q \in Runs \ {r} : pc'[q] = pc[q],
               UNCHANGED <<n, wire, delivered, acked, cut>>,
               \A q \in Runs \ {r} : token'[q] = token[q]
        PROVE  AckInv'
    BY <2>1 DEF AckInv, Out, Sent
  <2>2. CASE Creating(r)
    BY <2>1, <2>2 DEF Creating, Connect, Connected, ConnectFails, ConnectTimesOut, TypeInv
  <2>3. CASE PublishDropped(r)
    <3>1. /\ acked' = [acked EXCEPT ![r] = @ \cup {n'[r]}]
          /\ cut' = [cut EXCEPT ![r] = @ \cup {n'[r]}]
          /\ pc[r] = "ready" /\ UNCHANGED <<pc, token, wire, delivered>>
          /\ \A q \in Runs \ {r} : n'[q] = n[q]
      BY <2>3 DEF PublishDropped, TypeInv
    <3> QED BY <3>1 DEF AckInv, Out, Sent, TypeInv
  <2>4. CASE Publish(r)
    <3>1. /\ pc'[r] = "handing" /\ token'[r] = "pending"
          /\ UNCHANGED <<wire, delivered, acked, cut>>
          /\ \A q \in Runs \ {r} : n'[q] = n[q] /\ pc'[q] = pc[q] /\ token'[q] = token[q]
      BY <2>4 DEF Publish, TypeInv
    <3> QED BY <3>1 DEF AckInv, Out, Sent
  <2>5. CASE HandOver(r)
    <3>1. /\ pc[r] = "handing" /\ pc'[r] = "waiting"
          /\ UNCHANGED <<n, token, wire, delivered, acked, cut>>
          /\ \A q \in Runs \ {r} : pc'[q] = pc[q]
      BY <2>5 DEF HandOver, TypeInv
    <3> QED BY <3>1 DEF AckInv, Out, Sent
  <2>6. CASE HandOverTimesOut(r) \/ WriteTimesOut(r) \/ Close(r) \/ Exit(r)
    <3>1. CASE HandOverTimesOut(r)
      BY <2>1, <3>1 DEF HandOverTimesOut, TypeInv
    <3>2. CASE WriteTimesOut(r) \/ Close(r) \/ Exit(r)
      BY <2>1, <3>2 DEF WriteTimesOut, Close, Exit, TypeInv
    <3> QED BY <2>6, <3>1, <3>2
  <2>7. CASE WriteReturns(r)
    <3>1. /\ pc[r] = "waiting" /\ pc'[r] = "ready"
          /\ UNCHANGED <<n, token, wire, delivered, cut>>
          /\ acked' = IF token[r] = "done" THEN [acked EXCEPT ![r] = @ \cup {n[r]}] ELSE acked
          /\ \A q \in Runs \ {r} : pc'[q] = pc[q]
      BY <2>7 DEF WriteReturns, TypeInv
    <3> QED BY <3>1 DEF AckInv, Out, Sent, TypeInv
  <2>8. CASE BrokerAccepts(r)
    BY <2>8, LostKeepsAcks DEF BrokerAccepts
  <2>9. CASE Outage(r)
    BY <2>9, LostKeepsAcks DEF Outage
  <2>10. CASE SenderWrites(r)
    <3>1. PICK k \in sender[r] :
            /\ wire' = [wire EXCEPT ![r] = Append(@, k)]
            /\ token' = IF k = n[r] THEN [token EXCEPT ![r] = "done"] ELSE token
      BY <2>10 DEF SenderWrites
    <3>2. UNCHANGED <<pc, n, delivered, acked, cut>>
      BY <2>10 DEF SenderWrites
    <3>3. Elements(wire'[r]) = Elements(wire[r]) \cup {k}
      <4>1. k \in Packets /\ wire[r] \in Seq(Packets) /\ wire'[r] = Append(wire[r], k)
        BY <3>1 DEF TypeInv
      <4> QED BY <4>1, Appended
    <3>4. \A q \in Runs \ {r} : wire'[q] = wire[q] /\ token'[q] = token[q]
      BY <3>1 DEF TypeInv
    <3>5. pc[r] = "handing" => k # n[r]
      BY PacketsAreNumbers DEF OrderInv, InLine
    <3>6. k # n[r] => token'[r] = token[r]
      BY <3>1
    <3>7. k = n[r] => n[r] \in Out(r)'
      BY <3>2, <3>3 DEF Out, Sent
    <3>8. Out(r) \subseteq Out(r)'
      BY <3>2, <3>3 DEF Out, Sent
    <3> QED BY <3>2, <3>4, <3>5, <3>6, <3>7, <3>8 DEF AckInv, Out, Sent
  <2>11. CASE Deliver(r)
    <3> DEFINE h == Head(wire[r])
    <3>1. /\ wire[r] # <<>> /\ UNCHANGED <<pc, n, token, acked, cut>>
          /\ delivered'[r] = Append(delivered[r], h) /\ wire'[r] = Tail(wire[r])
          /\ \A q \in Runs \ {r} : delivered'[q] = delivered[q] /\ wire'[q] = wire[q]
      BY <2>11 DEF Deliver, TypeInv
    <3>2. wire[r] \in Seq(Packets) /\ delivered[r] \in Seq(Packets)
      BY DEF TypeInv
    <3>3. h \in Packets /\ Elements(wire[r]) = {h} \cup Elements(wire'[r])
      BY <3>1, <3>2, Removed
    <3> HIDE DEF h
    <3>4. Elements(delivered'[r]) = Elements(delivered[r]) \cup {h}
      BY <3>1, <3>2, <3>3, Appended
    <3>5. Out(r)' = Out(r)
      BY <3>1, <3>3, <3>4 DEF Out, Sent
    <3> QED BY <3>1, <3>5 DEF AckInv, Out, Sent
  <2> QED BY <1>n, <2>2, <2>3, <2>4, <2>5, <2>6, <2>7, <2>8, <2>9, <2>10, <2>11
          DEF Writing, Network
<1> QED BY <1>u, <1>n DEF Next

\* What Write has acknowledged is with the broker or on its way, or met a lost
\* connection: an error of the client, or a wait that ends early, acknowledges
\* nothing.
THEOREM AcknowledgedIsOut == Spec => []AckedUnlessCut
<1>1. Init => AckInv
  BY DEF Init, AckInv, Out
<1>2. AckInv => AckedUnlessCut
  BY DEF AckInv, Out, Sent, AckedUnlessCut
<1> QED BY <1>1, <1>2, AckStep, TypeInvariant, OrderInvariant, PTL DEF Spec

-------------------------------------------------------------------------------
(***************************************************************************)
(* Close. Only the creator leaves a client connecting, and a closed one    *)
(* has nothing left to connect.                                            *)
(***************************************************************************)
LinkInv ==
  \A r \in Runs :
    /\ link[r] = "connecting" => pc[r] \in {"connecting", "failed"}
    /\ pc[r] = "closed" => link[r] \in {"none", "closing"}
    /\ pc[r] = "exited" => link[r] = "none"

LEMMA LinkStep == TypeInv /\ LinkInv /\ [Next]_vars => LinkInv'
<1> SUFFICES ASSUME TypeInv, LinkInv, [Next]_vars PROVE LinkInv'
  OBVIOUS
<1>u. CASE UNCHANGED vars
  BY <1>u DEF vars, client, LinkInv
<1>n. ASSUME NEW r \in Runs, Creating(r) \/ Writing(r) \/ Close(r) \/ Exit(r) \/ Network(r)
      PROVE  LinkInv'
  <2> USE DEF Goto, client, LinkInv
  <2>1. CASE Creating(r)
    <3>1. CASE Connect(r)
      BY <3>1 DEF Connect, TypeInv
    <3>2. CASE Connected(r)
      BY <3>2 DEF Connected, TypeInv
    <3>3. CASE ConnectFails(r)
      BY <3>3 DEF ConnectFails, TypeInv
    <3>4. CASE ConnectTimesOut(r)
      BY <3>4 DEF ConnectTimesOut, TypeInv
    <3> QED BY <2>1, <3>1, <3>2, <3>3, <3>4 DEF Creating
  <2>2. CASE Writing(r)
    <3>1. link' = link /\ pc[r] \in {"ready", "handing", "waiting"}
          /\ pc'[r] \in {"ready", "handing", "waiting"}
          /\ \A q \in Runs \ {r} : pc'[q] = pc[q]
      BY <2>2 DEF Writing, PublishDropped, Publish, HandOver, HandOverTimesOut,
                  WriteReturns, WriteTimesOut, TypeInv
    <3> QED BY <3>1
  <2>3. CASE Close(r)
    <3>1. /\ pc[r] = "ready" /\ pc'[r] = "closed"
          /\ \A q \in Runs \ {r} : pc'[q] = pc[q] /\ link'[q] = link[q]
          /\ link'[r] = IF link[r] = "up" THEN "closing"
                        ELSE IF link[r] = "reconnecting" THEN "none" ELSE link[r]
      BY <2>3 DEF Close, IsConnected, TypeInv
    <3>2. link[r] \in {"none", "up", "reconnecting", "closing"}
      BY <3>1 DEF TypeInv
    <3> QED BY <3>1, <3>2
  <2>4. CASE Exit(r)
    BY <2>4 DEF Exit, TypeInv
  <2>5. CASE BrokerAccepts(r)
    <3>1. \A q \in Runs : link'[q] = IF q = r THEN "up"
                                     ELSE IF q \notin Rivals(r) THEN link[q]
                                     ELSE IF link[q] = "up" THEN "reconnecting" ELSE "none"
      BY <2>5 DEF BrokerAccepts
    <3>2. pc' = pc /\ link[r] \in {"connecting", "reconnecting"}
      BY <2>5 DEF BrokerAccepts
    <3> HIDE DEF LinkInv
    <3>3. \A q \in Runs : link'[q] = "connecting" => link[q] = "connecting"
      BY <3>1
    <3>4. \A q \in Runs : /\ pc[q] = "closed" => link'[q] \in {"none", "closing"}
                          /\ pc[q] = "exited" => link'[q] = "none"
      BY <3>1, <3>2 DEF LinkInv, Rivals
    <3> QED BY <3>2, <3>3, <3>4 DEF LinkInv
  <2>6. CASE Outage(r)
    BY <2>6 DEF Outage, TypeInv
  <2>7. CASE SenderWrites(r) \/ Deliver(r)
    BY <2>7 DEF SenderWrites, Deliver
  <2> QED BY <1>n, <2>1, <2>2, <2>3, <2>4, <2>5, <2>6, <2>7 DEF Network
<1> QED BY <1>u, <1>n DEF Next

\* After Close a run never has a connection again, so that it cuts no other run
\* with its id, even if it was reconnecting when Close was called.
THEOREM ClosedNeverConnects == Spec => ClosedStaysOut
<1>1. Init => LinkInv
  BY DEF Init, LinkInv
<1>2. TypeInv /\ LinkInv /\ [Next]_vars =>
        [\A r \in Runs : pc[r] = "closed" => link'[r] # "up"]_vars
  <2> SUFFICES ASSUME TypeInv, LinkInv, Next, NEW r \in Runs, pc[r] = "closed"
               PROVE  link'[r] # "up"
    OBVIOUS
  <2>1. LinkInv'
    BY LinkStep
  <2>2. pc'[r] \in {"closed", "exited"}
    BY DEF Next, Creating, Writing, Network, Connect, Connected, ConnectFails,
           ConnectTimesOut, PublishDropped, Publish, HandOver, HandOverTimesOut,
           WriteReturns, WriteTimesOut, Close, Exit, BrokerAccepts, Outage,
           SenderWrites, Deliver, Goto, TypeInv
  <2> QED BY <2>1, <2>2 DEF LinkInv
<1> QED BY <1>1, <1>2, LinkStep, TypeInvariant, PTL DEF Spec, ClosedStaysOut
===============================================================================
