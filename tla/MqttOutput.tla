------------------------------ MODULE MqttOutput ------------------------------
(***************************************************************************)
(* The MQTT output (outputs/mqtt/mqtt.go): the creator connects, Write     *)
(* publishes a batch at QoS 0 and Close disconnects. Connecting and        *)
(* publishing wait for a token of the Paho client for a limited time; what *)
(* the client does behind the token goes on, and it reconnects by itself.  *)
(* Client, network and broker are external.                                *)
(*                                                                         *)
(* Several runs of ecofloc may use one broker. A client id belongs to one  *)
(* connection: the broker cuts the one that had it. Unless mqtt.json gives *)
(* another, all runs have the id "ecofloc".                                *)
(*                                                                         *)
(* The batches of a run are numbered; a packet is the number of its batch. *)
(***************************************************************************)
EXTENDS Naturals, Sequences, FiniteSets

CONSTANTS
  Runs,
  ClientID,    \* ClientID[r]: the id of run r
  MaxBatches,  \* bound: batches a run writes
  MaxOutages   \* bound: connections lost for other reasons than their id

ASSUME MqttAssumption ==
  /\ IsFiniteSet(Runs)
  /\ DOMAIN ClientID = Runs
  /\ MaxBatches \in Nat /\ MaxOutages \in Nat

VARIABLES
  pc,         \* pc[r]: where run r is in the creator, Write and Close
  link,       \* link[r]: the state of o.client
  n,          \* n[r]: batches given to Write
  token,      \* token[r]: the handle of the publish in progress
  sender,     \* sender[r]: the packet the client is writing to the socket
  wire,       \* wire[r]: packets in the socket and the network
  outages,
  delivered,  \* delivered[r]: what the broker has got, in order
  acked,      \* history: batches whose Write returned nil
  cut         \* history: batches that met a lost connection

client == <<link, token, sender, wire>>
log    == <<delivered, acked, cut>>
vars   == <<pc, n, outages, client, log>>

Init ==
  /\ pc = [r \in Runs |-> "new"]
  /\ link = [r \in Runs |-> "none"]
  /\ n = [r \in Runs |-> 0]
  /\ token = [r \in Runs |-> "none"]
  /\ sender = [r \in Runs |-> {}]
  /\ wire = [r \in Runs |-> <<>>]
  /\ outages = 0
  /\ delivered = [r \in Runs |-> <<>>]
  /\ acked = [r \in Runs |-> {}] /\ cut = [r \in Runs |-> {}]

Goto(r, label) == pc' = [pc EXCEPT ![r] = label]
Elements(s) == {s[i] : i \in DOMAIN s}

-------------------------------------------------------------------------------
(***************************************************************************)
(* MQTTCreator.                                                            *)
(***************************************************************************)
Connect(r) ==
  /\ pc[r] = "new"
  /\ link' = [link EXCEPT ![r] = "connecting"]
  /\ Goto(r, "connecting")
  /\ UNCHANGED <<n, token, sender, wire, outages, log>>

\* The token is complete, even if the connection has been lost since.
Connected(r) ==
  /\ pc[r] = "connecting" /\ link[r] # "connecting"
  /\ Goto(r, "ready")
  /\ UNCHANGED <<n, outages, client, log>>

ConnectFails(r) ==
  /\ pc[r] = "connecting" /\ link[r] = "connecting"
  /\ link' = [link EXCEPT ![r] = "none"]
  /\ Goto(r, "failed")
  /\ UNCHANGED <<n, token, sender, wire, outages, log>>

\* handle.WaitTimeout: the creator fails, the client goes on connecting.
ConnectTimesOut(r) ==
  /\ pc[r] = "connecting"
  /\ Goto(r, "failed")
  /\ UNCHANGED <<n, outages, client, log>>

-------------------------------------------------------------------------------
(***************************************************************************)
(* Write.                                                                  *)
(***************************************************************************)
\* Publish. A client that is reconnecting drops a packet of QoS 0 and completes
\* its token at once, without error.
PublishDropped(r) ==
  /\ pc[r] = "ready" /\ n[r] < MaxBatches /\ link[r] = "reconnecting"
  /\ n' = [n EXCEPT ![r] = @ + 1]
  /\ acked' = [acked EXCEPT ![r] = @ \cup {n'[r]}]
  /\ cut' = [cut EXCEPT ![r] = @ \cup {n'[r]}]
  /\ UNCHANGED <<pc, outages, client, delivered>>

\* Otherwise the packet goes to the goroutine that writes to the socket.
Publish(r) ==
  /\ pc[r] = "ready" /\ n[r] < MaxBatches /\ link[r] = "up"
  /\ n' = [n EXCEPT ![r] = @ + 1]
  /\ token' = [token EXCEPT ![r] = "pending"]
  /\ Goto(r, "handing")
  /\ UNCHANGED <<outages, link, sender, wire, log>>

SenderFree_Always(r) == TRUE
SenderFree(r) == sender[r] = {}

HandOver(r) ==
  /\ pc[r] = "handing" /\ link[r] = "up" /\ SenderFree(r)
  /\ sender' = [sender EXCEPT ![r] = @ \cup {n[r]}]
  /\ Goto(r, "waiting")
  /\ UNCHANGED <<n, outages, link, token, wire, log>>

\* Publish itself gives up, with an error, when nobody takes the packet.
HandOverTimesOut(r) ==
  /\ pc[r] = "handing"
  /\ token' = [token EXCEPT ![r] = "error"]
  /\ Goto(r, "ready")
  /\ UNCHANGED <<n, outages, link, sender, wire, log>>

\* handle.Error() is what Write returns.
WriteReturns(r) ==
  /\ pc[r] = "waiting" /\ token[r] # "pending"
  /\ acked' = IF token[r] = "done" THEN [acked EXCEPT ![r] = @ \cup {n[r]}] ELSE acked
  /\ Goto(r, "ready")
  /\ UNCHANGED <<n, outages, client, delivered, cut>>

\* handle.WaitTimeout: Write returns an error; the packet stays where it is.
WriteTimesOut_Never(r) == FALSE /\ UNCHANGED vars

WriteTimesOut_Retries(r) ==
  /\ pc[r] = "waiting"
  /\ Goto(r, "handing")
  /\ UNCHANGED <<n, outages, client, log>>

WriteTimesOut_Succeeds(r) ==
  /\ pc[r] = "waiting"
  /\ acked' = [acked EXCEPT ![r] = @ \cup {n[r]}]
  /\ Goto(r, "ready")
  /\ UNCHANGED <<n, outages, client, delivered, cut>>

WriteTimesOut(r) ==
  /\ pc[r] = "waiting"
  /\ Goto(r, "ready")
  /\ UNCHANGED <<n, outages, client, log>>

-------------------------------------------------------------------------------
(***************************************************************************)
(* Close, and the end of the process.                                      *)
(***************************************************************************)
\* Disconnect(200): what is being written may still get out.
IsConnected_Up(r) == link[r] = "up"
IsConnected(r) == link[r] \in {"up", "reconnecting"}

Close(r) ==
  /\ pc[r] = "ready"
  /\ link' = IF IsConnected(r)
               THEN [link EXCEPT ![r] = IF @ = "up" THEN "closing" ELSE "none"]
               ELSE link
  /\ Goto(r, "closed")
  /\ UNCHANGED <<n, token, sender, wire, outages, log>>

\* The process ends, at its end or by a signal. The system sends what has been
\* written to the socket.
Exit(r) ==
  /\ pc[r] # "exited"
  /\ link' = [link EXCEPT ![r] = "none"]
  /\ sender' = [sender EXCEPT ![r] = {}]
  /\ Goto(r, "exited")
  /\ UNCHANGED <<n, token, wire, outages, log>>

-------------------------------------------------------------------------------
(***************************************************************************)
(* Client, network and broker.                                             *)
(***************************************************************************)
\* What the runs of S lose with their connection; a write that fails completes
\* its token with an error.
Lost(S) ==
  /\ wire' = [r \in Runs |-> IF r \in S THEN <<>> ELSE wire[r]]
  /\ sender' = [r \in Runs |-> IF r \in S THEN {} ELSE sender[r]]
  /\ token' = [r \in Runs |-> IF r \in S /\ n[r] \in sender[r] THEN "error"
                                                             ELSE token[r]]
  /\ cut' = [r \in Runs |-> IF r \in S THEN cut[r] \cup sender[r] \cup Elements(wire[r])
                                       ELSE cut[r]]

Rivals(r) == {q \in Runs \ {r} : ClientID[q] = ClientID[r] /\ link[q] \in {"up", "closing"}}

BrokerAccepts(r) ==
  /\ link[r] \in {"connecting", "reconnecting"}
  /\ link' = [q \in Runs |-> IF q = r THEN "up"
                             ELSE IF q \notin Rivals(r) THEN link[q]
                             ELSE IF link[q] = "up" THEN "reconnecting" ELSE "none"]
  /\ Lost(Rivals(r))
  /\ UNCHANGED <<pc, n, outages, delivered, acked>>

Outage(r) ==
  /\ link[r] = "up" /\ outages < MaxOutages
  /\ outages' = outages + 1
  /\ link' = [link EXCEPT ![r] = "reconnecting"]
  /\ Lost({r})
  /\ UNCHANGED <<pc, n, delivered, acked>>

SenderWrites(r) ==
  /\ link[r] \in {"up", "closing"}
  /\ \E k \in sender[r] :
       /\ wire' = [wire EXCEPT ![r] = Append(@, k)]
       /\ sender' = [sender EXCEPT ![r] = @ \ {k}]
       /\ token' = IF k = n[r] THEN [token EXCEPT ![r] = "done"] ELSE token
  /\ UNCHANGED <<pc, n, outages, link, log>>

Deliver(r) ==
  /\ wire[r] # <<>>
  /\ delivered' = [delivered EXCEPT ![r] = Append(@, Head(wire[r]))]
  /\ wire' = [wire EXCEPT ![r] = Tail(@)]
  /\ UNCHANGED <<pc, n, outages, link, token, sender, acked, cut>>

Creating(r) == \/ Connect(r) \/ Connected(r) \/ ConnectFails(r) \/ ConnectTimesOut(r)
Writing(r)  == \/ PublishDropped(r) \/ Publish(r) \/ HandOver(r) \/ HandOverTimesOut(r)
               \/ WriteReturns(r) \/ WriteTimesOut(r)
Network(r)  == \/ BrokerAccepts(r) \/ Outage(r) \/ SenderWrites(r) \/ Deliver(r)

Next == \E r \in Runs : Creating(r) \/ Writing(r) \/ Close(r) \/ Exit(r) \/ Network(r)

\* The timers of the three waits run out. Nothing else need happen: the broker
\* may never answer and the socket never take a byte.
Fairness ==
  \A r \in Runs : /\ WF_vars(ConnectTimesOut(r))
                  /\ WF_vars(HandOverTimesOut(r))
                  /\ WF_vars(WriteTimesOut(r))

Spec == Init /\ [][Next]_vars /\ Fairness

-------------------------------------------------------------------------------
(***************************************************************************)
(* Properties.                                                             *)
(***************************************************************************)
\* Every variable has its type; the client never has two packets in its hand.
TypeOK ==
  /\ pc \in [Runs -> {"new", "connecting", "ready", "handing", "waiting",
                      "failed", "closed", "exited"}]
  /\ link \in [Runs -> {"none", "connecting", "up", "reconnecting", "closing"}]
  /\ n \in [Runs -> 0..MaxBatches]
  /\ token \in [Runs -> {"none", "pending", "done", "error"}]
  /\ sender \in [Runs -> SUBSET (1..MaxBatches)]
  /\ \A r \in Runs : Cardinality(sender[r]) <= 1
  /\ wire \in [Runs -> Seq(1..MaxBatches)]
  /\ outages \in 0..MaxOutages
  /\ delivered \in [Runs -> Seq(1..MaxBatches)]
  /\ acked \in [Runs -> SUBSET (1..MaxBatches)]
  /\ cut \in [Runs -> SUBSET (1..MaxBatches)]

\* mqtt.go:129: subscribers get the batches in the order they were measured and
\* none of them twice, though Write gives up on packets that are still on their
\* way and the client reconnects behind its back.
AtMostOnceInOrder ==
  \A r \in Runs : \A i, j \in DOMAIN delivered[r] :
    i < j => delivered[r][i] < delivered[r][j]

\* mqtt.go:131-135: a batch that Write has acknowledged is with the broker or on
\* its way, unless a lost connection took it: Write does not tell of those.
AckedUnlessCut ==
  \A r \in Runs :
    acked[r] \subseteq Elements(delivered[r]) \cup Elements(wire[r]) \cup cut[r]

\* mqtt.go:139-145: after Close a run does not connect any more, so that it does
\* not cut the connection of another run with its id.
ClosedStaysOut ==
  [][\A r \in Runs : pc[r] = "closed" => link'[r] # "up"]_vars

\* mqtt.go:66 and 131: the creator and Write return, whatever broker and network
\* do; this is what Engine assumes of its outputs (Engine!Fairness).
CallsReturn ==
  \A r \in Runs :
    pc[r] \in {"connecting", "handing", "waiting"} ~> pc[r] \in {"ready", "failed", "exited"}
===============================================================================
