---------------------------- MODULE DeviceStatus ----------------------------
(***************************************************************************)
(* mqtt::DeviceStatusService and MqttClient (src/mqtt) with the broker     *)
(* they talk to: a retained status topic whose value must tell the truth   *)
(* in the end, although connections break, CONNACKs come too late, old     *)
(* sockets are read after new ones and the process may die.                *)
(*                                                                         *)
(* The broker (external) knows MQTT 3.1.1: one connection holds the client *)
(* id, a second CONNECT takes it over, and a holder that goes without      *)
(* DISCONNECT has its will published.  TCP keeps the order of one          *)
(* connection and loses at most the end of it.                             *)
(***************************************************************************)
EXTENDS Naturals, Sequences

CONSTANTS MaxConnections, \* bound: sockets ever opened
          MaxTrouble      \* bound: links that die, calls that time out

VARIABLES pc,       \* where DeviceStatusService::run is
          socket,   \* socket_: the connection in use, or 0
          opened,   \* connections opened so far
          stop,     \* stop_
          wire,     \* packets of each connection the broker has not read
          dead,     \* connections that carry nothing any more
          holder,   \* broker: the connection that holds the client id, or 0
          acked,    \* broker: connections it sent CONNACK on
          retained, \* broker: the retained status
          trouble   \* troubles so far

vars == <<pc, socket, opened, stop, wire, dead, holder, acked, retained, trouble>>

ASSUME ConnectionAssumption ==
  /\ MaxConnections \in Nat /\ MaxTrouble \in Nat
  /\ MaxConnections > 2 * MaxTrouble + 1

Connection == 1..MaxConnections

Init ==
  /\ pc = "loop" /\ socket = 0 /\ opened = 0 /\ stop = FALSE
  /\ wire = [c \in Connection |-> <<>>]
  /\ dead = {} /\ holder = 0 /\ acked = {}
  /\ retained = "none" /\ trouble = 0

Client == <<pc, socket, opened>>
Broker == <<holder, acked, retained>>

\* What the broker gets to read when the client sends packets on c.
Send(c, packets) == wire' = [wire EXCEPT ![c] = IF c \in dead THEN @ ELSE @ \o packets]

-----------------------------------------------------------------------------
\* DeviceStatusService::run

\* connect: the will says offline.
Connect ==
  /\ pc = "loop" /\ ~stop /\ socket = 0 /\ opened < MaxConnections
  /\ pc' = "connack"
  /\ opened' = opened + 1 /\ socket' = opened'
  /\ Send(opened', <<"connect">>)
  /\ UNCHANGED <<stop, dead, Broker, trouble>>

Connected ==
  /\ pc = "connack" /\ socket \in acked
  /\ pc' = "loop"
  /\ UNCHANGED <<socket, opened, stop, wire, dead, Broker, trouble>>

\* "MQTT CONNACK timeout": on a dead connection, or because the broker is slow.
ConnackTimeout ==
  /\ pc = "connack"
  /\ socket \in dead \/ trouble < MaxTrouble
  /\ trouble' = IF socket \in dead THEN trouble ELSE trouble + 1
  /\ Send(socket, <<"closed">>)
  /\ pc' = "loop" /\ socket' = 0
  /\ UNCHANGED <<opened, stop, dead, Broker>>

\* The periodic status; a dead connection may swallow it.  Statuses the broker
\* has yet to read count as one.
Publish ==
  /\ pc = "loop" /\ ~stop /\ socket # 0
  /\ wire[socket] = <<>>
  /\ Send(socket, <<"online">>)
  /\ UNCHANGED <<Client, stop, dead, Broker, trouble>>

\* Mutant: DISCONNECT alone, which makes the broker forget the will.
Disconnect_Silent(c) ==
  /\ \E packets \in {<<"bye", "closed">>, <<"closed">>} : Send(c, packets)
  /\ socket' = 0

\* disconnect(offline_payload): publish, DISCONNECT, close; what throws is
\* followed by close.
Disconnect(c) ==
  /\ \E packets \in {<<"offline", "bye", "closed">>, <<"offline", "closed">>, <<"closed">>} :
       Send(c, packets)
  /\ socket' = 0

\* Mutant: the handler leaves the socket as it is.
PublishFails_KeepsSocket ==
  /\ pc = "loop" /\ ~stop /\ socket # 0
  /\ socket \in dead \/ trouble < MaxTrouble
  /\ trouble' = IF socket \in dead THEN trouble ELSE trouble + 1
  /\ UNCHANGED <<pc, socket, opened, stop, wire, dead, Broker>>

\* send fails or times out: disconnect, then retry later.
PublishFails ==
  /\ pc = "loop" /\ ~stop /\ socket # 0
  /\ socket \in dead \/ trouble < MaxTrouble
  /\ trouble' = IF socket \in dead THEN trouble ELSE trouble + 1
  /\ Disconnect(socket)
  /\ UNCHANGED <<pc, opened, stop, dead, Broker>>

\* The loop ends; disconnect does nothing without a socket.
Finish ==
  /\ pc = "loop" /\ stop
  /\ pc' = "ended"
  /\ IF socket = 0 THEN UNCHANGED <<socket, wire>> ELSE Disconnect(socket)
  /\ UNCHANGED <<opened, stop, dead, Broker, trouble>>

RequestStop ==
  /\ ~stop /\ pc # "crashed"
  /\ stop' = TRUE
  /\ UNCHANGED <<Client, wire, dead, Broker, trouble>>

\* The process dies (the kernel closes its socket) or the power fails.
Crash ==
  /\ pc \in {"loop", "connack"}
  /\ pc' = "crashed" /\ socket' = 0
  /\ IF socket = 0 THEN UNCHANGED <<wire, dead>>
     ELSE \/ Send(socket, <<"closed">>) /\ UNCHANGED dead
          \/ dead' = dead \cup {socket} /\ UNCHANGED wire
  /\ UNCHANGED <<opened, stop, Broker, trouble>>

Run == Connect \/ Connected \/ Publish \/ Finish

-----------------------------------------------------------------------------
\* Network and broker

\* A link dies with any part of what is under way.
LinkDies(c) ==
  /\ c <= opened /\ c \notin dead /\ trouble < MaxTrouble
  /\ trouble' = trouble + 1
  /\ dead' = dead \cup {c}
  /\ \E kept \in 0..Len(wire[c]) : wire' = [wire EXCEPT ![c] = SubSeq(@, 1, kept)]
  /\ UNCHANGED <<Client, stop, Broker>>

Reads(c, packet) == wire[c] # <<>> /\ Head(wire[c]) = packet

Read(c) == wire' = [wire EXCEPT ![c] = Tail(@)]

\* A CONNECT takes the client id over: the old holder's will is published and
\* its socket closed.
BrokerConnects(c) ==
  /\ Reads(c, "connect")
  /\ holder' = c /\ acked' = acked \cup {c}
  /\ IF holder = 0
     THEN Read(c) /\ UNCHANGED <<dead, retained>>
     ELSE /\ retained' = "offline"
          /\ dead' = dead \cup {holder}
          /\ wire' = [wire EXCEPT ![c] = Tail(@), ![holder] = <<>>]
  /\ UNCHANGED <<Client, stop, trouble>>

BrokerStores(c, status) ==
  /\ Reads(c, status) /\ holder = c
  /\ retained' = status
  /\ Read(c)
  /\ UNCHANGED <<Client, stop, dead, holder, acked, trouble>>

\* DISCONNECT: the session ends and the will is dropped.
BrokerGoodbye(c) ==
  /\ Reads(c, "bye") /\ holder = c
  /\ holder' = 0
  /\ dead' = dead \cup {c}
  /\ wire' = [wire EXCEPT ![c] = <<>>]
  /\ UNCHANGED <<Client, stop, acked, retained, trouble>>

\* The holder's socket is closed, or its keepalive runs out.
BrokerMisses(c) ==
  /\ Reads(c, "closed") \/ (wire[c] = <<>> /\ c \in dead)
  /\ holder = c
  /\ holder' = 0 /\ retained' = "offline"
  /\ dead' = dead \cup {c}
  /\ wire' = [wire EXCEPT ![c] = <<>>]
  /\ UNCHANGED <<Client, stop, acked, trouble>>

BrokerReads(c) ==
  \/ BrokerConnects(c)
  \/ BrokerStores(c, "online") \/ BrokerStores(c, "offline")
  \/ BrokerGoodbye(c) \/ BrokerMisses(c)

Next ==
  \/ Run \/ ConnackTimeout \/ PublishFails \/ RequestStop \/ Crash
  \/ \E c \in Connection : LinkDies(c) \/ BrokerReads(c)
  \/ pc \in {"ended", "crashed"} /\ UNCHANGED vars

\* The worker runs; the broker reads every socket in some order and enforces
\* keepalives; a call on a dead connection fails in the end (SO_SNDTIMEO,
\* SO_RCVTIMEO and TCP's own timeout).
Fairness ==
  /\ WF_vars(Run)
  /\ WF_vars(ConnackTimeout /\ socket \in dead)
  /\ WF_vars(PublishFails /\ socket \in dead)
  /\ \A c \in Connection : WF_vars(BrokerReads(c))

Spec == Init /\ [][Next]_vars /\ Fairness

-----------------------------------------------------------------------------
TypeOK ==
  /\ pc \in {"loop", "connack", "ended", "crashed"}
  /\ opened \in 0..MaxConnections /\ socket \in {0, opened}
  /\ pc = "connack" => socket # 0
  /\ pc \in {"ended", "crashed"} => socket = 0
  /\ stop \in BOOLEAN
  /\ wire \in [Connection -> Seq({"connect", "online", "offline", "bye", "closed"})]
  /\ dead \subseteq Connection /\ acked \subseteq 1..opened
  /\ holder \in {0} \cup acked
  /\ retained \in {"none", "online", "offline"}
  /\ trouble \in 0..MaxTrouble

\* A device that stopped or crashed ends up shown offline for good, or was
\* never shown at all.
OfflineInTheEnd == pc \in {"ended", "crashed"} ~> [](retained # "online")

\* A device that is never stopped ends up shown online for good once the
\* troubles are over: no late will, CONNECT or goodbye of an earlier connection
\* stays on the topic.
OnlineInTheEnd == <>[](retained = "online" \/ stop \/ pc = "crashed")
=============================================================================
