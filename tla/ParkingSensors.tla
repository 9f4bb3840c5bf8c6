---------------------------- MODULE ParkingSensors ----------------------------
(****************************************************************************)
(* From a parking spot to its row in the database.  The sensor node,        *)
(* arduino/mini_project.ino, reports every change of a spot once, over a    *)
(* TCP connection that it makes again when it finds it closed; the server   *)
(* (iot_server.c) routes the first line of what one read() returns, and     *)
(* the gateway (iot_client_sql.c) applies the first line of what it reads.  *)
(*                                                                          *)
(* The server is here what IotServer shows of it for one id: a login while  *)
(* an older session is in the table is refused and takes that session out;  *)
(* threads read the connection they find in the table, and one that ends    *)
(* closes the connection it finds there, which is not over for a thread     *)
(* that is reading it.                                                      *)
(****************************************************************************)
EXTENDS Integers, Sequences, SequencesExt

CONSTANTS
    N,          \* spots
    MaxChanges, \* bound: times a sensor changes its level
    MaxFaults   \* bound: connections lost and restarts of the node

ASSUME SensorsAssumption == N \in Nat \ {0} /\ MaxChanges \in Nat /\ MaxFaults \in Nat

Spots == 1 .. N

\* An event carries (history) its number among the changes of its spot.
Event(c, s, k) == [cmd |-> c, id |-> s, no |-> k]
Events == [cmd : {"IN", "OUT"}, id : Spots, no : Nat]
Login == [cmd |-> "LOGIN", id |-> 0, no |-> 0]

VARIABLES
    pin,        \* a spot's sensor is LOW: something stands there
    last,       \* lastSensorStates, as pin
    pc, i,      \* loop(): where it is, and its spot
    link,       \* client: "up", "dead" and not noticed, or "down"
    wire,       \* lines on their way to the server over the current connection
    session,    \* the server's table: the current connection, an earlier one, or none
    readers,    \* threads that read the current connection
    older,      \* threads that read an earlier one, or are about to end
    held,       \* lines that threads have read and not yet routed
    crowded,    \* history: two threads have had to do with the node's lines at a time
    toGateway,  \* lines on their way to the gateway
    row,        \* parking.state, as pin
    sent,       \* history: changes of each spot the node has seen, or slept through
    seen,       \* history: the number of the last one its row was set by
    changes, faults

node    == <<last, pc, i, sent>>
net     == <<link, wire>>
server  == <<session, readers, older, held, crowded>>
board   == <<row, seen>>
bounds  == <<changes, faults>>
vars    == <<pin, node, net, server, toGateway, board, bounds>>

TypeOK ==
    /\ {pin, last, row} \subseteq [Spots -> BOOLEAN]
    /\ pc \in {"top", "scan", "settle"} /\ i \in Spots
    /\ link \in {"up", "dead", "down"} /\ session \in {"current", "earlier", "none"}
    /\ readers \in Nat /\ older \in Nat /\ held \in Seq(Events) /\ crowded \in BOOLEAN
    /\ wire \in Seq(Events \cup {Login}) /\ toGateway \in Seq(Events)
    /\ sent \in [Spots -> Nat] /\ seen \in [Spots -> Nat] /\ {changes, faults} \subseteq Nat

\* All spots free, as setup() takes for granted; the row of one may say otherwise.
Init ==
    /\ pin \in [Spots -> BOOLEAN] /\ last = [s \in Spots |-> FALSE]
    /\ pc = "top" /\ i = 1
    /\ link = "down" /\ wire = <<>> /\ toGateway = <<>>
    /\ session = "none" /\ readers = 0 /\ older = 0 /\ held = <<>> /\ crowded = FALSE
    /\ row \in [Spots -> BOOLEAN]
    /\ sent = [s \in Spots |-> 1] /\ seen = [s \in Spots |-> 0]
    /\ changes = 0 /\ faults = 0

-----------------------------------------------------------------------------
(* loop() *)

\* Mutant: the loop waits for a connection.
Proceed_Connected ==
    /\ pc = "top" /\ link # "down"
    /\ pc' = "scan" /\ i' = 1
    /\ UNCHANGED <<pin, last, sent, net, server, toGateway, board, bounds>>

\* client.connected(), or one try of server_Connect.
Connect ==
    /\ pc = "top" /\ link = "down"
    /\ link' = "up" /\ wire' = Append(wire, Login)
    /\ pc' = "scan" /\ i' = 1
    /\ UNCHANGED <<pin, last, sent, server, toGateway, board, bounds>>

Proceed ==
    /\ pc = "top"
    /\ pc' = "scan" /\ i' = 1
    /\ UNCHANGED <<pin, last, sent, net, server, toGateway, board, bounds>>

NextSpot == IF i = N THEN pc' = "top" /\ i' = i ELSE pc' = "scan" /\ i' = i + 1

\* digitalRead(); a change is looked at again after 200 ms.
Scan ==
    /\ pc = "scan"
    /\ IF pin[i] = last[i] THEN NextSpot ELSE pc' = "settle" /\ i' = i
    /\ UNCHANGED <<pin, last, sent, net, server, toGateway, board, bounds>>

\* client.write(): on a connection that is gone the line is lost, and nobody looks.
Write(e) == wire' = IF link = "up" THEN Append(wire, e) ELSE wire

\* Mutant: the event tells what was read before the delay.
Settle_FirstRead ==
    /\ pc = "settle"
    /\ last' = [last EXCEPT ![i] = pin[i]]
    /\ sent' = [sent EXCEPT ![i] = @ + 1]
    /\ Write(Event(IF last[i] THEN "OUT" ELSE "IN", i, sent'[i]))
    /\ NextSpot
    /\ UNCHANGED <<pin, link, server, toGateway, board, bounds>>

Settle ==
    /\ pc = "settle"
    /\ IF pin[i] = last[i]
       THEN UNCHANGED <<last, sent, wire>>
       ELSE /\ last' = [last EXCEPT ![i] = pin[i]]
            /\ sent' = [sent EXCEPT ![i] = @ + 1]
            /\ Write(Event(IF pin[i] THEN "IN" ELSE "OUT", i, sent'[i]))
    /\ NextSpot
    /\ UNCHANGED <<pin, link, server, toGateway, board, bounds>>

\* The current connection becomes an earlier one.  Its lines that are still to be handled
\* are those a thread has read: nothing tells such a line from one that waits to be read.
ConnectionLost ==
    /\ wire' = <<>>
    /\ session' = IF session = "current" THEN "earlier" ELSE session
    /\ readers' = 0 /\ older' = older + readers
    /\ UNCHANGED <<held, crowded>>

\* Reset: all spots are taken to be free, and a car that left meanwhile is not reported.
Restart ==
    /\ faults < MaxFaults /\ faults' = faults + 1
    /\ last' = [s \in Spots |-> FALSE] /\ sent' = [s \in Spots |-> sent[s] + 1]
    /\ pc' = "top" /\ i' = 1
    /\ link' = "down" /\ ConnectionLost
    /\ UNCHANGED <<pin, toGateway, board, changes>>

-----------------------------------------------------------------------------
(* The spots, and the connection. *)

PinChanges ==
    /\ changes < MaxChanges /\ changes' = changes + 1
    /\ \E s \in Spots : pin' = [pin EXCEPT ![s] = ~ @]
    /\ UNCHANGED <<node, net, server, toGateway, board, faults>>

LinkBreaks ==
    /\ faults < MaxFaults /\ faults' = faults + 1
    /\ link = "up" /\ link' = "dead" /\ ConnectionLost
    /\ UNCHANGED <<pin, node, toGateway, board, changes>>

NodeNotices ==
    /\ link = "dead" /\ link' = "down"
    /\ UNCHANGED <<pin, node, wire, server, toGateway, board, bounds>>

-----------------------------------------------------------------------------
(* iot_server.c, for the id of the sensor node. *)

\* One read(): k lines, of which the first is handled.
Rest(k) == SubSeq(wire, k + 1, Len(wire))
Crowds  == crowded' = (crowded \/ readers' + Len(held') > 1)

\* The server has shut the connection down, or closed it with no thread reading it.
Over == link' = "dead" /\ wire' = <<>>

\* Mutant: the refused login leaves the older session in the table.
ServerLogin_NoKick ==
    \E k \in 1 .. Len(wire) :
        /\ Head(wire) = Login
        /\ IF session = "none"
           THEN session' = "current" /\ readers' = readers + 1 /\ wire' = Rest(k) /\ link' = link
           ELSE session' = session /\ readers' = readers /\ Over
        /\ UNCHANGED <<pin, node, older, held, toGateway, board, bounds>> /\ Crowds

\* Accepted, or refused and the older session taken out of the table.
ServerLogin ==
    \E k \in 1 .. Len(wire) :
        /\ Head(wire) = Login
        /\ IF session = "none"
           THEN session' = "current" /\ readers' = readers + 1 /\ wire' = Rest(k) /\ link' = link
           ELSE session' = "none" /\ readers' = readers /\ Over
        /\ UNCHANGED <<pin, node, older, held, toGateway, board, bounds>> /\ Crowds

\* Mutant: of the lines of one read() the last is handled, and the others afterwards.
ServerReads_LastFirst ==
    \E k \in 1 .. Len(wire) :
        /\ wire[k] # Login /\ Head(wire) # Login /\ readers > 0
        /\ held' = Append(held, wire[k]) /\ readers' = readers - 1
        /\ IF session # "current" /\ readers' = 0 THEN Over ELSE wire' = RemoveAt(wire, k) /\ link' = link
        /\ UNCHANGED <<pin, node, session, older, toGateway, board, bounds>> /\ Crowds

ServerReads ==
    \E k \in 1 .. Len(wire) :
        /\ Head(wire) # Login /\ readers > 0
        /\ held' = Append(held, Head(wire)) /\ readers' = readers - 1
        /\ IF session # "current" /\ readers' = 0 THEN Over ELSE wire' = Rest(k) /\ link' = link
        /\ UNCHANGED <<pin, node, session, older, toGateway, board, bounds>> /\ Crowds

\* send_msg; the thread goes on with the connection that is in the table now.
ServerRoutes ==
    \E j \in DOMAIN held :
        /\ toGateway' = Append(toGateway, held[j]) /\ held' = RemoveAt(held, j)
        /\ IF session = "current" THEN readers' = readers + 1 /\ older' = older
           ELSE older' = older + 1 /\ readers' = readers
        /\ UNCHANGED <<pin, node, net, session, board, bounds>> /\ Crowds

\* A thread whose connection is over closes the one the table holds now.
ThreadEnds ==
    /\ older > 0 /\ older' = older - 1
    /\ session' = "none"
    /\ IF session = "current" /\ readers = 0 THEN Over ELSE UNCHANGED net
    /\ UNCHANGED <<pin, node, readers, held, crowded, toGateway, board, bounds>>

-----------------------------------------------------------------------------
(* iot_client_sql.c: the first line of what is read, unless another client's is before it. *)

Applied(e) ==
    /\ row' = [row EXCEPT ![e.id] = (e.cmd = "IN")]
    /\ seen' = [seen EXCEPT ![e.id] = e.no]

GatewayReads ==
    \E k \in 1 .. Len(toGateway) :
        /\ toGateway' = SubSeq(toGateway, k + 1, Len(toGateway))
        /\ Applied(Head(toGateway)) \/ UNCHANGED board
        /\ UNCHANGED <<pin, node, net, server, bounds>>

-----------------------------------------------------------------------------
Loop   == Connect \/ Proceed \/ Scan \/ Settle
Server == ServerLogin \/ ServerReads \/ ServerRoutes \/ ThreadEnds
Faults == Restart \/ LinkBreaks

Next == Loop \/ PinChanges \/ NodeNotices \/ Server \/ GatewayReads \/ Faults

Spec == Init /\ [][Next]_vars

\* The loop goes round; there may never be a server.
LoopSpec == Spec /\ WF_vars(Proceed \/ Scan \/ Settle)

\* A try to connect succeeds now and then, and what has arrived is read.
Served ==
    /\ WF_vars(Loop) /\ SF_vars(Connect) /\ WF_vars(NodeNotices)
    /\ WF_vars(ServerLogin) /\ WF_vars(ServerReads) /\ WF_vars(ServerRoutes)
    /\ WF_vars(GatewayReads)

-----------------------------------------------------------------------------
(* Properties. *)

\* A row that was set by the last change of its spot tells what the node saw: what an
\* event lost on the way leaves wrong, the next one that arrives puts right.
RowFollowsSensor == \A s \in Spots : seen[s] = sent[s] => row[s] = last[s]

\* No event overtakes a later one of its spot, over any number of connections, as long as
\* the threads of two sessions have not been at work at a time.
NeverBack == [][~ crowded => \A s \in Spots : seen'[s] >= seen[s]]_vars

\* With or without a server, the node comes to know where its sensors stay.
SensorsSeen == <>[](\A s \in Spots : last[s] = pin[s])

\* After the last fault the node is connected for good, with a thread of the server that
\* will read its next line, whatever sessions and threads were left behind: if it is
\* served at all.
GetsBackIn == Served => <>[](link = "up" /\ (session = "current" \/ readers > 0))
=============================================================================
