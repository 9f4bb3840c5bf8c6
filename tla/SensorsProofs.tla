----------------------------- MODULE SensorsProofs -----------------------------
(****************************************************************************)
(* Proofs about ParkingSensors, for any number of spots, changes, lost      *)
(* connections and threads of the server: what a row tells of its sensor,   *)
(* and the order in which events reach it.                                  *)
(****************************************************************************)
EXTENDS ParkingSensors, TLAPS

Types ==
    /\ pin \in [Spots -> BOOLEAN] /\ last \in [Spots -> BOOLEAN] /\ row \in [Spots -> BOOLEAN]
    /\ i \in Spots
    /\ wire \in Seq(Events \cup {Login}) /\ held \in Seq(Events) /\ toGateway \in Seq(Events)
    /\ sent \in [Spots -> Nat] /\ seen \in [Spots -> Nat]

\* An event is not from the future, and one with the last number of its spot tells what
\* the node saw last.
Fresh(e, n, l) ==
    /\ e.no <= n[e.id]
    /\ e.no = n[e.id] => l[e.id] = (e.cmd = "IN")

Travelling ==
    /\ \A k \in 1 .. Len(wire) : wire[k] # Login => Fresh(wire[k], sent, last)
    /\ \A k \in 1 .. Len(held) : Fresh(held[k], sent, last)
    /\ \A k \in 1 .. Len(toGateway) : Fresh(toGateway[k], sent, last)

Shown == \A s \in Spots : seen[s] <= sent[s]

RowInv == Types /\ Travelling /\ Shown /\ RowFollowsSensor

LEMMA Joined ==
  ASSUME NEW S, NEW a \in Seq(S), NEW b \in Seq(S)
  PROVE  /\ a \o b \in Seq(S) /\ Len(a \o b) = Len(a) + Len(b)
         /\ \A j \in 1 .. Len(a) : (a \o b)[j] = a[j]
         /\ \A j \in Len(a) + 1 .. Len(a) + Len(b) : (a \o b)[j] = b[j - Len(a)]
  OBVIOUS

\* A queue loses its first k elements, or one of them, or all.
LEMMA Shortened ==
  ASSUME NEW S, NEW q \in Seq(S), NEW k \in 1 .. Len(q)
  PROVE  /\ SubSeq(q, k + 1, Len(q)) \in Seq(S)
         /\ \A j \in 1 .. Len(SubSeq(q, k + 1, Len(q))) :
               j + k \in 1 .. Len(q) /\ SubSeq(q, k + 1, Len(q))[j] = q[j + k]
         /\ RemoveAt(q, k) \in Seq(S)
         /\ \A j \in 1 .. Len(RemoveAt(q, k)) :
               \E m \in 1 .. Len(q) : RemoveAt(q, k)[j] = q[m]
         /\ Head(q) = q[1] /\ 1 \in 1 .. Len(q) /\ q # <<>>
<1>1. /\ SubSeq(q, k + 1, Len(q)) \in Seq(S) /\ Len(SubSeq(q, k + 1, Len(q))) = Len(q) - k
      /\ \A j \in 1 .. Len(q) - k : SubSeq(q, k + 1, Len(q))[j] = q[j + k]
  OBVIOUS
<1>2. /\ SubSeq(q, 1, k - 1) \in Seq(S) /\ Len(SubSeq(q, 1, k - 1)) = k - 1
      /\ \A j \in 1 .. k - 1 : SubSeq(q, 1, k - 1)[j] = q[j]
  OBVIOUS
<1>3. /\ RemoveAt(q, k) \in Seq(S) /\ Len(RemoveAt(q, k)) = (k - 1) + (Len(q) - k)
      /\ \A j \in 1 .. k - 1 : RemoveAt(q, k)[j] = q[j]
      /\ \A j \in k .. Len(q) - 1 : RemoveAt(q, k)[j] = q[j + 1]
  <2> DEFINE a == SubSeq(q, 1, k - 1)
             b == SubSeq(q, k + 1, Len(q))
  <2>1. RemoveAt(q, k) = a \o b
    BY DEF RemoveAt
  <2>2. /\ a \in Seq(S) /\ Len(a) = k - 1 /\ \A j \in 1 .. k - 1 : a[j] = q[j]
        /\ b \in Seq(S) /\ Len(b) = Len(q) - k /\ \A j \in 1 .. Len(q) - k : b[j] = q[j + k]
    BY <1>1, <1>2
  <2> HIDE DEF a, b
  <2>3. /\ a \o b \in Seq(S) /\ Len(a \o b) = (k - 1) + (Len(q) - k)
        /\ \A j \in 1 .. k - 1 : (a \o b)[j] = a[j]
        /\ \A j \in k .. Len(q) - 1 : (a \o b)[j] = b[j - (k - 1)]
    <3>1. /\ a \o b \in Seq(S) /\ Len(a \o b) = Len(a) + Len(b)
          /\ \A j \in 1 .. Len(a) : (a \o b)[j] = a[j]
          /\ \A j \in Len(a) + 1 .. Len(a) + Len(b) : (a \o b)[j] = b[j - Len(a)]
      BY <2>2, Joined
    <3>2. Len(a) = k - 1 /\ Len(b) = Len(q) - k /\ k \in Int /\ Len(q) \in Int
      BY <2>2
    <3>. QED BY <3>1, <3>2
  <2>4. ASSUME NEW j \in k .. Len(q) - 1 PROVE (a \o b)[j] = q[j + 1]
    BY <2>2, <2>3
  <2>. QED BY <2>1, <2>2, <2>3, <2>4
<1>4. ASSUME NEW j \in 1 .. Len(RemoveAt(q, k)) PROVE \E m \in 1 .. Len(q) : RemoveAt(q, k)[j] = q[m]
  <2>1. CASE j <= k - 1
    BY <1>3, <2>1
  <2>2. CASE j > k - 1
    <3>1. j + 1 \in 1 .. Len(q) /\ j \in k .. Len(q) - 1
      BY <1>3, <2>2
    <3>. QED BY <1>3, <3>1
  <2>. QED BY <2>1, <2>2
<1>. QED BY <1>1, <1>3, <1>4

LEMMA Appended ==
  ASSUME NEW S, NEW q \in Seq(S), NEW e \in S
  PROVE  /\ Append(q, e) \in Seq(S) /\ Len(Append(q, e)) = Len(q) + 1
         /\ \A k \in 1 .. Len(q) : Append(q, e)[k] = q[k]
         /\ Append(q, e)[Len(q) + 1] = e
  OBVIOUS

LEMMA InitRow == Init => RowInv
<1>. SUFFICES ASSUME Init PROVE RowInv
  OBVIOUS
<1>1. pin \in [Spots -> BOOLEAN] /\ row \in [Spots -> BOOLEAN]
  BY DEF Init
<1>2. last \in [Spots -> BOOLEAN]
  BY DEF Init
<1>3. Types
  BY <1>1, <1>2, SensorsAssumption DEF Init, Types, Spots
<1>4. Travelling /\ Shown /\ RowFollowsSensor
  BY DEF Init, Travelling, Shown, RowFollowsSensor
<1>. QED BY <1>3, <1>4 DEF RowInv

\* Lines travel: none is made, and the node and the board stay as they are.
LEMMA Moves ==
  ASSUME RowInv, UNCHANGED <<last, sent, row, seen>>,
         pin' \in [Spots -> BOOLEAN], i' \in Spots,
         wire' \in Seq(Events \cup {Login}), held' \in Seq(Events), toGateway' \in Seq(Events),
         \A k \in 1 .. Len(wire') :
            wire'[k] = Login \/ \E j \in 1 .. Len(wire) : wire'[k] = wire[j],
         \A k \in 1 .. Len(held') :
            \/ \E j \in 1 .. Len(held) : held'[k] = held[j]
            \/ \E j \in 1 .. Len(wire) : wire[j] # Login /\ held'[k] = wire[j],
         \A k \in 1 .. Len(toGateway') :
            \/ \E j \in 1 .. Len(toGateway) : toGateway'[k] = toGateway[j]
            \/ \E j \in 1 .. Len(held) : toGateway'[k] = held[j]
  PROVE  RowInv'
<1>2. Travelling'
  BY DEF RowInv, Travelling
<1>3. Types'
  BY DEF RowInv, Types
<1>. QED BY <1>2, <1>3 DEF RowInv, Shown, RowFollowsSensor

\* What the threads and the gateway leave of the events.
LEMMA Same ==
  /\ UNCHANGED wire => \A k \in 1 .. Len(wire') : \E j \in 1 .. Len(wire) : wire'[k] = wire[j]
  /\ UNCHANGED held => \A k \in 1 .. Len(held') : \E j \in 1 .. Len(held) : held'[k] = held[j]
  /\ UNCHANGED toGateway => \A k \in 1 .. Len(toGateway') :
                                \E j \in 1 .. Len(toGateway) : toGateway'[k] = toGateway[j]
  OBVIOUS

\* What is on the wire after the server read from it, or after it was lost.
LEMMA Shrinks ==
  ASSUME wire \in Seq(Events \cup {Login}),
         \/ wire' = wire
         \/ wire' = <<>>
         \/ \E k \in 1 .. Len(wire) : wire' = SubSeq(wire, k + 1, Len(wire))
  PROVE  /\ wire' \in Seq(Events \cup {Login})
         /\ \A m \in 1 .. Len(wire') : \E j \in 1 .. Len(wire) : wire'[m] = wire[j]
<1>. DEFINE S == Events \cup {Login}
<1>. HIDE DEF S
<1>0. wire \in Seq(S)
  BY DEF S
<1>1. CASE wire' = wire
  BY <1>0, <1>1, Zenon DEF S
<1>2. CASE wire' = <<>>
  <2>1. wire' \in Seq(S) /\ Len(wire') = 0
    BY <1>2
  <2>. QED BY <2>1 DEF S
<1>3. CASE \E k \in 1 .. Len(wire) : wire' = SubSeq(wire, k + 1, Len(wire))
  <2>1. PICK k \in 1 .. Len(wire) : wire' = SubSeq(wire, k + 1, Len(wire))
    BY <1>3
  <2>2. /\ SubSeq(wire, k + 1, Len(wire)) \in Seq(S)
        /\ \A j \in 1 .. Len(SubSeq(wire, k + 1, Len(wire))) :
              j + k \in 1 .. Len(wire) /\ SubSeq(wire, k + 1, Len(wire))[j] = wire[j + k]
    BY <1>0, Shortened
  <2>3. wire' \in Seq(S) /\ \A j \in 1 .. Len(wire') : j + k \in 1 .. Len(wire) /\ wire'[j] = wire[j + k]
    BY <2>1, <2>2, Zenon
  <2>. QED BY <2>3, Zenon DEF S
<1>. QED BY <1>1, <1>2, <1>3

LEMMA LoopStep ==
  ASSUME RowInv, Connect \/ Proceed \/ Scan
  PROVE  RowInv'
<1>0. i \in Int /\ 1 <= i /\ i <= N /\ N \in Nat \ {0} /\ wire \in Seq(Events \cup {Login})
  BY SensorsAssumption DEF RowInv, Types, Spots
<1>1. /\ UNCHANGED <<pin, last, sent, row, seen, held, toGateway>>
      /\ UNCHANGED wire \/ wire' = Append(wire, Login)
  BY DEF Connect, Proceed, Scan, net, server, board
<1>2. i' \in Spots
  BY <1>0, SensorsAssumption DEF Connect, Proceed, Scan, NextSpot, Spots
<1>3. /\ wire' \in Seq(Events \cup {Login})
      /\ \A k \in 1 .. Len(wire') : wire'[k] = Login \/ \E j \in 1 .. Len(wire) : wire'[k] = wire[j]
  <2>1. CASE UNCHANGED wire
    BY <1>0, <2>1
  <2>2. CASE wire' = Append(wire, Login)
    BY <1>0, <2>2
  <2>. QED BY <1>1, <2>1, <2>2
<1>. QED BY <1>1, <1>2, <1>3, Moves, Same DEF RowInv, Types

LEMMA SettleStep ==
  ASSUME RowInv, Settle
  PROVE  RowInv'
<1>0. /\ i \in Spots /\ i \in Int /\ 1 <= i /\ i <= N /\ N \in Nat \ {0}
      /\ wire \in Seq(Events \cup {Login}) /\ sent \in [Spots -> Nat]
  BY SensorsAssumption DEF RowInv, Types, Spots
<1>1. UNCHANGED <<pin, row, seen, held, toGateway, link>>
  BY DEF Settle, server, board
<1>2. i' \in Spots
  BY <1>0 DEF Settle, NextSpot, Spots
<1>3. CASE UNCHANGED <<last, sent, wire>>
  BY <1>1, <1>2, <1>3, Moves, Same DEF RowInv, Types
<1>4. CASE /\ last' = [last EXCEPT ![i] = pin[i]]
           /\ sent' = [sent EXCEPT ![i] = @ + 1]
           /\ Write(Event(IF pin[i] THEN "IN" ELSE "OUT", i, sent'[i]))
  <2> DEFINE e == Event(IF pin[i] THEN "IN" ELSE "OUT", i, sent'[i])
  <2>0. last' \in [Spots -> BOOLEAN]
    <3>1. last \in [Spots -> BOOLEAN] /\ pin[i] \in BOOLEAN
      BY <1>0 DEF RowInv, Types
    <3>. QED BY <1>4, <3>1
  <2>1. /\ sent' \in [Spots -> Nat] /\ sent'[i] = sent[i] + 1 /\ \A s \in Spots \ {i} : sent'[s] = sent[s]
        /\ \A s \in Spots : sent[s] <= sent'[s]
    BY <1>0, <1>4
  <2>2. last'[i] = pin[i] /\ \A s \in Spots \ {i} : last'[s] = last[s]
    BY <1>0, <1>4, Zenon DEF RowInv, Types
  <2>3. e \in Events /\ e.id = i /\ e.no = sent'[i]
    BY <1>0, <2>1 DEF Events, Event
  <2>4. pin[i] = (e.cmd = "IN")
    <3>1. CASE pin[i] = TRUE
      BY <3>1 DEF Event
    <3>2. CASE pin[i] = FALSE
      BY <3>2 DEF Event
    <3>3. pin[i] \in BOOLEAN
      BY <1>0 DEF RowInv, Types
    <3>. QED BY <3>1, <3>2, <3>3
  <2>5. Fresh(e, sent', last')
    <3>1. last'[i] = (e.cmd = "IN")
      BY <2>2, <2>4, Zenon
    <3>2. e.no <= sent'[e.id]
      BY <1>0, <2>1, <2>3
    <3>3. last'[e.id] = (e.cmd = "IN")
      BY <2>3, <3>1, Zenon
    <3>. QED BY <3>2, <3>3, Zenon DEF Fresh
  <2> HIDE DEF e
  <2>6. ASSUME NEW x \in Events, Fresh(x, sent, last) PROVE Fresh(x, sent', last')
    <3>1. x.id \in Spots /\ x.no \in Nat
      BY DEF Events
    <3>2. x.no <= sent'[x.id]
      <4>1. x.no <= sent[x.id]
        BY <2>6, Zenon DEF Fresh
      <4>2. sent[x.id] \in Nat /\ sent'[x.id] \in Nat /\ sent[x.id] <= sent'[x.id]
        BY <1>0, <2>1, <3>1
      <4>. QED BY <3>1, <4>1, <4>2
    <3>3. ASSUME x.no = sent'[x.id] PROVE last'[x.id] = (x.cmd = "IN")
      <4>1. x.id # i
        BY <1>0, <2>1, <2>6, <3>1, <3>3 DEF Fresh
      <4>2. sent'[x.id] = sent[x.id] /\ last'[x.id] = last[x.id]
        BY <2>1, <2>2, <3>1, <4>1, Zenon
      <4>3. x.no = sent[x.id]
        BY <3>3, <4>2, Zenon
      <4>. QED BY <2>6, <4>2, <4>3, Zenon DEF Fresh
    <3>. QED BY <3>2, <3>3, Zenon DEF Fresh
  <2>7. wire' = wire \/ wire' = Append(wire, e)
    BY <1>4 DEF Write, e
  <2>8. /\ wire' \in Seq(Events \cup {Login})
        /\ \A k \in 1 .. Len(wire') : wire'[k] = e \/ \E j \in 1 .. Len(wire) : wire'[k] = wire[j]
    <3>1. CASE wire' = wire
      BY <1>0, <3>1
    <3>2. CASE wire' = Append(wire, e)
      BY <1>0, <2>3, <3>2
    <3>. QED BY <2>7, <3>1, <3>2
  <2>9. Types'
    <3>1. pin' \in [Spots -> BOOLEAN] /\ row' \in [Spots -> BOOLEAN]
      BY <1>1 DEF RowInv, Types
    <3>2. held' \in Seq(Events) /\ toGateway' \in Seq(Events) /\ seen' \in [Spots -> Nat]
      BY <1>1 DEF RowInv, Types
    <3>. QED BY <1>2, <2>0, <2>1, <2>8, <3>1, <3>2 DEF Types
  <2>10. Travelling'
    <3>1. \A k \in 1 .. Len(wire') : wire'[k] # Login => Fresh(wire'[k], sent', last')
      <4>. SUFFICES ASSUME NEW k \in 1 .. Len(wire'), wire'[k] # Login PROVE Fresh(wire'[k], sent', last')
        OBVIOUS
      <4>1. CASE wire'[k] = e
        BY <2>5, <4>1, Zenon
      <4>2. ASSUME NEW j \in 1 .. Len(wire), wire'[k] = wire[j] PROVE Fresh(wire'[k], sent', last')
        <5>1. wire[j] \in Events /\ Fresh(wire[j], sent, last)
          BY <1>0, <4>2 DEF RowInv, Travelling
        <5>. QED BY <2>6, <4>2, <5>1, Zenon
      <4>. QED BY <2>8, <4>1, <4>2
    <3>2. \A k \in 1 .. Len(held) : held[k] \in Events /\ Fresh(held[k], sent, last)
      BY DEF RowInv, Travelling, Types
    <3>3. \A k \in 1 .. Len(toGateway) : toGateway[k] \in Events /\ Fresh(toGateway[k], sent, last)
      BY DEF RowInv, Travelling, Types
    <3>. QED BY <1>1, <2>6, <3>1, <3>2, <3>3, Zenon DEF Travelling
  <2>11. \A s \in Spots : seen[s] <= sent[s] /\ seen[s] \in Nat /\ sent[s] \in Nat
    BY DEF RowInv, Shown, Types
  <2>12. Shown'
    BY <1>1, <2>1, <2>11 DEF Shown
  <2>13. \A s \in Spots : seen[s] = sent'[s] => s # i /\ seen[s] = sent[s]
    BY <1>0, <2>1, <2>11
  <2>14. RowFollowsSensor'
    BY <1>1, <2>2, <2>13, Zenon DEF RowInv, RowFollowsSensor
  <2>. QED BY <2>9, <2>10, <2>12, <2>14 DEF RowInv
<1>. QED BY <1>3, <1>4 DEF Settle

\* A reset: whatever is under way is older than the reset.
LEMMA RestartStep ==
  ASSUME RowInv, Restart
  PROVE  RowInv'
<1>1. /\ last' = [s \in Spots |-> FALSE] /\ sent' = [s \in Spots |-> sent[s] + 1] /\ i' = 1
      /\ wire' = <<>> /\ UNCHANGED <<pin, row, seen, held, toGateway>>
  BY DEF Restart, ConnectionLost, board
<1>2. sent' \in [Spots -> Nat] /\ \A s \in Spots : sent'[s] = sent[s] + 1 /\ sent[s] \in Nat
  BY <1>1 DEF RowInv, Types
<1>3. Types'
  <2>1. last' \in [Spots -> BOOLEAN]
    BY <1>1
  <2>2. pin' \in [Spots -> BOOLEAN] /\ row' \in [Spots -> BOOLEAN]
    BY <1>1 DEF RowInv, Types
  <2>3. i' \in Spots
    BY <1>1, SensorsAssumption DEF Spots
  <2>4. held' \in Seq(Events) /\ toGateway' \in Seq(Events) /\ seen' \in [Spots -> Nat]
    BY <1>1 DEF RowInv, Types
  <2>. QED BY <1>1, <1>2, <2>1, <2>2, <2>3, <2>4 DEF Types
<1>4. ASSUME NEW e \in Events, Fresh(e, sent, last) PROVE Fresh(e, sent', last')
  <2>1. e.id \in Spots /\ e.no \in Nat
    BY DEF Events
  <2>2. e.no <= sent[e.id]
    BY <1>4, Zenon DEF Fresh
  <2>3. e.no <= sent'[e.id] /\ e.no # sent'[e.id]
    BY <1>2, <2>1, <2>2
  <2>. QED BY <2>3, Zenon DEF Fresh
<1>5. Travelling'
  <2>1. \A k \in 1 .. Len(held) : held[k] \in Events /\ Fresh(held[k], sent, last)
    BY DEF RowInv, Travelling, Types
  <2>2. \A k \in 1 .. Len(toGateway) : toGateway[k] \in Events /\ Fresh(toGateway[k], sent, last)
    BY DEF RowInv, Travelling, Types
  <2>3. \A k \in 1 .. Len(wire') : wire'[k] # Login => Fresh(wire'[k], sent', last')
    BY <1>1
  <2>. QED BY <1>1, <1>4, <2>1, <2>2, <2>3, Zenon DEF Travelling
<1>6. \A s \in Spots : seen[s] < sent'[s] /\ seen[s] <= sent'[s] /\ seen[s] # sent'[s]
  BY <1>2 DEF RowInv, Shown, Types
<1>. QED BY <1>1, <1>3, <1>5, <1>6, Zenon DEF RowInv, Shown, RowFollowsSensor

LEMMA ServerStep ==
  ASSUME RowInv, Server
  PROVE  RowInv'
<1>0. /\ wire \in Seq(Events \cup {Login}) /\ held \in Seq(Events) /\ toGateway \in Seq(Events)
      /\ pin \in [Spots -> BOOLEAN] /\ i \in Spots
  BY DEF RowInv, Types
<1>1. CASE ServerLogin
  <2>1. PICK k \in 1 .. Len(wire) : wire' = SubSeq(wire, k + 1, Len(wire)) \/ wire' = <<>>
    BY <1>1 DEF ServerLogin, Rest, Over
  <2>2. UNCHANGED <<pin, last, i, sent, row, seen, held, toGateway>>
    BY <1>1 DEF ServerLogin, node, board
  <2>3. /\ wire' \in Seq(Events \cup {Login})
        /\ \A m \in 1 .. Len(wire') : \E j \in 1 .. Len(wire) : wire'[m] = wire[j]
    BY <1>0, <2>1, Shrinks
  <2>. QED BY <1>0, <2>2, <2>3, Moves, Same
<1>2. CASE ServerReads
  <2>1. PICK k \in 1 .. Len(wire) : wire' = SubSeq(wire, k + 1, Len(wire)) \/ wire' = <<>>
    BY <1>2 DEF ServerReads, Rest, Over
  <2>2. UNCHANGED <<pin, last, i, sent, row, seen, toGateway>>
    BY <1>2 DEF ServerReads, node, board
  <2>3. /\ wire' \in Seq(Events \cup {Login})
        /\ \A m \in 1 .. Len(wire') : \E j \in 1 .. Len(wire) : wire'[m] = wire[j]
    BY <1>0, <2>1, Shrinks
  <2>4. held' = Append(held, wire[1]) /\ 1 \in 1 .. Len(wire) /\ wire[1] # Login
    BY <1>0, <1>2, Shortened DEF ServerReads
  <2>5. wire[1] \in Events
    BY <1>0, <2>4
  <2>6. held' \in Seq(Events) /\ \A m \in 1 .. Len(held') :
            held'[m] = wire[1] \/ \E j \in 1 .. Len(held) : held'[m] = held[j]
    BY <1>0, <2>4, <2>5
  <2>. QED BY <1>0, <2>2, <2>3, <2>4, <2>6, Moves, Same
<1>3. CASE ServerRoutes
  <2>1. PICK j \in 1 .. Len(held) : toGateway' = Append(toGateway, held[j]) /\ held' = RemoveAt(held, j)
    BY <1>0, <1>3 DEF ServerRoutes
  <2>2. UNCHANGED <<pin, last, i, sent, row, seen, wire>>
    BY <1>3 DEF ServerRoutes, node, net, board
  <2>3. held' \in Seq(Events) /\ \A m \in 1 .. Len(held') : \E n \in 1 .. Len(held) : held'[m] = held[n]
    BY <1>0, <2>1, Shortened
  <2>4. toGateway' \in Seq(Events) /\ \A m \in 1 .. Len(toGateway') :
            toGateway'[m] = held[j] \/ \E n \in 1 .. Len(toGateway) : toGateway'[m] = toGateway[n]
    <3>1. held[j] \in Events
      BY <1>0
    <3>. QED BY <1>0, <2>1, <3>1
  <2>. QED BY <1>0, <2>2, <2>3, <2>4, Moves, Same
<1>4. CASE ThreadEnds
  <2>1. /\ UNCHANGED <<pin, last, i, sent, row, seen, held, toGateway>>
        /\ wire' = wire \/ wire' = <<>>
    BY <1>4 DEF ThreadEnds, Over, net, node, board
  <2>2. /\ wire' \in Seq(Events \cup {Login})
        /\ \A m \in 1 .. Len(wire') : \E j \in 1 .. Len(wire) : wire'[m] = wire[j]
    BY <1>0, <2>1, Shrinks
  <2>. QED BY <1>0, <2>1, <2>2, Moves, Same
<1>. QED BY <1>1, <1>2, <1>3, <1>4 DEF Server

LEMMA GatewayStep ==
  ASSUME RowInv, GatewayReads
  PROVE  RowInv'
<1>1. PICK k \in 1 .. Len(toGateway) :
        /\ toGateway' = SubSeq(toGateway, k + 1, Len(toGateway))
        /\ Applied(Head(toGateway)) \/ UNCHANGED board
  BY DEF GatewayReads
<1>2. UNCHANGED <<pin, last, i, sent, wire, held>>
  BY DEF GatewayReads, node, net, server
<1>3. /\ toGateway \in Seq(Events) /\ toGateway' \in Seq(Events)
      /\ \A m \in 1 .. Len(toGateway') : \E j \in 1 .. Len(toGateway) : toGateway'[m] = toGateway[j]
      /\ Head(toGateway) = toGateway[1] /\ 1 \in 1 .. Len(toGateway)
  BY <1>1, Shortened DEF RowInv, Types
<1>4. CASE UNCHANGED board
  <2>1. UNCHANGED <<row, seen>>
    BY <1>4 DEF board
  <2>. QED BY <1>2, <1>3, <2>1, Moves, Same DEF RowInv, Types
<1>5. CASE Applied(Head(toGateway))
  <2>. PICK e \in Events : e = toGateway[1]
    BY <1>3
  <2>1. row' = [row EXCEPT ![e.id] = (e.cmd = "IN")] /\ seen' = [seen EXCEPT ![e.id] = e.no]
    BY <1>3, <1>5 DEF Applied
  <2>2. Fresh(e, sent, last) /\ e.id \in Spots /\ e.no \in Nat
    BY <1>3 DEF RowInv, Travelling, Events
  <2>3. e.no <= sent[e.id] /\ (e.no = sent[e.id] => last[e.id] = (e.cmd = "IN"))
    BY <2>2, Zenon DEF Fresh
  <2>4. /\ seen' \in [Spots -> Nat] /\ seen'[e.id] = e.no
        /\ \A s \in Spots \ {e.id} : seen'[s] = seen[s]
    BY <2>1, <2>2 DEF RowInv, Types
  <2>5. /\ row' \in [Spots -> BOOLEAN] /\ row'[e.id] = (e.cmd = "IN")
        /\ \A s \in Spots \ {e.id} : row'[s] = row[s]
    <3>1. row \in [Spots -> BOOLEAN] /\ (e.cmd = "IN") \in BOOLEAN
      BY DEF RowInv, Types
    <3>. QED BY <2>1, <2>2, <3>1
  <2>6. Shown'
    BY <1>2, <2>2, <2>3, <2>4 DEF RowInv, Shown
  <2>7. RowFollowsSensor'
    BY <1>2, <2>2, <2>3, <2>4, <2>5, Zenon DEF RowInv, RowFollowsSensor
  <2>8. Travelling'
    BY <1>2, <1>3 DEF RowInv, Travelling
  <2>9. Types'
    BY <1>2, <1>3, <2>4, <2>5 DEF RowInv, Types
  <2>. QED BY <2>6, <2>7, <2>8, <2>9 DEF RowInv
<1>. QED BY <1>1, <1>4, <1>5

LEMMA OtherStep ==
  ASSUME RowInv, PinChanges \/ NodeNotices \/ LinkBreaks \/ UNCHANGED vars
  PROVE  RowInv'
<1>1. UNCHANGED <<last, i, sent, row, seen, held, toGateway>>
  BY DEF PinChanges, NodeNotices, LinkBreaks, ConnectionLost, vars, node, net, server, board
<1>2. wire' \in Seq(Events \cup {Login}) /\ \A m \in 1 .. Len(wire') : \E j \in 1 .. Len(wire) : wire'[m] = wire[j]
  <2>1. wire' = wire \/ wire' = <<>>
    BY DEF PinChanges, NodeNotices, LinkBreaks, ConnectionLost, vars, net
  <2>2. wire \in Seq(Events \cup {Login})
    BY DEF RowInv, Types
  <2>. QED BY <2>1, <2>2, Shrinks
<1>3. pin' \in [Spots -> BOOLEAN]
  <2>1. pin \in [Spots -> BOOLEAN]
    BY DEF RowInv, Types
  <2>2. CASE PinChanges
    <3>1. PICK s \in Spots : pin' = [pin EXCEPT ![s] = ~ @]
      BY <2>2 DEF PinChanges
    <3>. QED BY <2>1, <3>1, Zenon
  <2>3. CASE UNCHANGED pin
    BY <2>1, <2>3
  <2>. QED BY <2>2, <2>3 DEF NodeNotices, LinkBreaks, vars
<1>. QED BY <1>1, <1>2, <1>3, Moves, Same DEF RowInv, Types

\* A row set by the last change of its spot tells what the node saw, for any number of
\* spots, whatever is lost, joined or reordered on the way.
THEOREM RowsFollow == Spec => []RowFollowsSensor
<1>1. RowInv /\ [Next]_vars => RowInv'
  BY LoopStep, SettleStep, RestartStep, ServerStep, GatewayStep, OtherStep DEF Next, Loop, Faults
<1>2. RowInv => RowFollowsSensor
  BY DEF RowInv
<1>. QED BY <1>1, <1>2, InitRow, PTL DEF Spec

\* The variables of which RowInv says nothing.
Controls ==
    /\ pc \in {"top", "scan", "settle"}
    /\ link \in {"up", "dead", "down"} /\ session \in {"current", "earlier", "none"}
    /\ readers \in Nat /\ older \in Nat /\ crowded \in BOOLEAN
    /\ changes \in Nat /\ faults \in Nat

LEMMA RestStep == RowInv /\ RowInv' /\ Controls /\ [Next]_vars => Controls'
<1>. SUFFICES ASSUME RowInv, RowInv', Controls, [Next]_vars PROVE Controls'
  OBVIOUS
<1>1. CASE UNCHANGED vars
  BY <1>1 DEF Controls, vars, node, net, server, bounds
<1>2. CASE Loop
  BY <1>2 DEF Controls, Loop, Connect, Proceed, Scan, Settle, NextSpot, net, server, bounds
<1>3. CASE PinChanges \/ NodeNotices
  BY <1>3 DEF Controls, PinChanges, NodeNotices, node, net, server, bounds
<1>4. CASE Restart \/ LinkBreaks
  <2>1. older' = older + readers /\ readers' = 0 /\ crowded' = crowded /\ faults' = faults + 1 /\ changes' = changes
    BY <1>4 DEF Restart, LinkBreaks, ConnectionLost
  <2>2. session' \in {"current", "earlier", "none"} /\ link' \in {"dead", "down"} /\ pc' \in {"top", pc}
    BY <1>4 DEF Controls, Restart, LinkBreaks, ConnectionLost, node
  <2>. QED BY <2>1, <2>2 DEF Controls
<1>5. CASE Server
  <2>1. Len(held') \in Nat
    BY DEF RowInv, Types
  <2>2. /\ pc' = pc /\ changes' = changes /\ faults' = faults /\ link' \in {"dead", link}
        /\ session' \in {"current", session, "none"}
    BY <1>5 DEF Server, ServerLogin, ServerReads, ServerRoutes, ThreadEnds, Over, node, net, bounds
  <2>3. readers' \in Nat /\ older' \in Nat
    BY <1>5 DEF Controls, Server, ServerLogin, ServerReads, ServerRoutes, ThreadEnds
  <2>4. crowded' \in BOOLEAN
    <3>1. CASE Crowds
      BY <2>1, <2>3, <3>1 DEF Controls, Crowds
    <3>2. CASE crowded' = crowded
      BY <3>2 DEF Controls
    <3>. QED BY <1>5, <3>1, <3>2 DEF Server, ServerLogin, ServerReads, ServerRoutes, ThreadEnds
  <2>. QED BY <2>2, <2>3, <2>4 DEF Controls
<1>6. CASE GatewayReads
  BY <1>6 DEF Controls, GatewayReads, node, net, server, bounds
<1>. QED BY <1>1, <1>2, <1>3, <1>4, <1>5, <1>6 DEF Next, Faults

\* The types of the node, the server's view of it, the queues and the rows.
THEOREM TypeCorrect == Spec => []TypeOK
<1>1. Init => Controls
  <2>. SUFFICES ASSUME Init PROVE Controls
    OBVIOUS
  <2>1. /\ pc = "top" /\ link = "down" /\ session = "none" /\ readers = 0 /\ older = 0
        /\ changes = 0 /\ faults = 0
    BY DEF Init
  <2>2. crowded \in BOOLEAN
    BY Zenon DEF Init
  <2>. QED BY <2>1, <2>2 DEF Controls
<1>2. RowInv /\ [Next]_vars => RowInv'
  BY LoopStep, SettleStep, RestartStep, ServerStep, GatewayStep, OtherStep DEF Next, Loop, Faults
<1>3. RowInv /\ Controls => TypeOK
  BY DEF RowInv, Types, Controls, TypeOK
<1>. QED BY <1>1, <1>2, <1>3, InitRow, RestStep, PTL DEF Spec

-----------------------------------------------------------------------------
(* The order of the events of a spot. *)

Older(e, f) == e.id = f.id => e.no <= f.no

InOrder(q)  == \A j, k \in 1 .. Len(q) : j < k => Older(q[j], q[k])
Ahead(p, q) == \A j \in 1 .. Len(p), k \in 1 .. Len(q) : Older(p[j], q[k])
After(q)    == \A k \in 1 .. Len(q) : \A s \in Spots : q[k].id = s => seen[s] <= q[k].no

Ordered ==
    /\ InOrder(toGateway) /\ InOrder(wire)
    /\ Ahead(toGateway, held) /\ Ahead(toGateway, wire) /\ Ahead(held, wire)
    /\ After(toGateway) /\ After(held) /\ After(wire)

\* As long as a single thread has to do with the node's lines, it holds at most one of
\* them, and all that are under way are in the order they were sent in.
Queued == ~ crowded => readers + Len(held) <= 1 /\ Ordered

QueueInv == RowInv /\ readers \in Nat /\ Queued

Suffix(p, q) == \E n \in Nat : \A j \in 1 .. Len(p) : j + n \in 1 .. Len(q) /\ p[j] = q[j + n]

\* A queue that loses nothing, all, or its first elements.
LEMMA SuffixOf ==
  ASSUME NEW S, NEW p, NEW q \in Seq(S),
         p = q \/ p = <<>> \/ \E k \in 1 .. Len(q) : p = SubSeq(q, k + 1, Len(q))
  PROVE  Suffix(p, q)
<1>1. CASE p = q
  <2>1. \A j \in 1 .. Len(p) : j + 0 \in 1 .. Len(q) /\ p[j] = q[j + 0]
    BY <1>1
  <2>. QED BY <2>1 DEF Suffix
<1>2. CASE p = <<>>
  <2>1. \A j \in 1 .. Len(p) : j + 0 \in 1 .. Len(q) /\ p[j] = q[j + 0]
    BY <1>2
  <2>. QED BY <2>1 DEF Suffix
<1>3. ASSUME NEW k \in 1 .. Len(q), p = SubSeq(q, k + 1, Len(q)) PROVE Suffix(p, q)
  <2>1. \A j \in 1 .. Len(p) : j + k \in 1 .. Len(q) /\ p[j] = q[j + k]
    BY <1>3, Shortened
  <2>2. k \in Nat
    OBVIOUS
  <2>. QED BY <2>1, <2>2 DEF Suffix
<1>. QED BY <1>1, <1>2, <1>3

LEMMA SuffixInOrder ==
  ASSUME NEW p, NEW q, Suffix(p, q), InOrder(q), Len(p) \in Nat
  PROVE  InOrder(p)
<1>1. PICK n \in Nat : \A j \in 1 .. Len(p) : j + n \in 1 .. Len(q) /\ p[j] = q[j + n]
  BY DEF Suffix
<1>. SUFFICES ASSUME NEW j \in 1 .. Len(p), NEW k \in 1 .. Len(p), j < k PROVE Older(p[j], p[k])
  BY DEF InOrder
<1>2. j + n < k + n
  OBVIOUS
<1>3. j + n \in 1 .. Len(q) /\ k + n \in 1 .. Len(q) /\ p[j] = q[j + n] /\ p[k] = q[k + n]
  BY <1>1
<1>. QED BY <1>2, <1>3 DEF InOrder

LEMMA SuffixAhead ==
  ASSUME NEW p, NEW q, NEW a, NEW b, Suffix(p, q), Suffix(a, b), Ahead(q, b)
  PROVE  Ahead(p, a)
<1>1. PICK n \in Nat : \A j \in 1 .. Len(p) : j + n \in 1 .. Len(q) /\ p[j] = q[j + n]
  BY DEF Suffix
<1>2. PICK m \in Nat : \A j \in 1 .. Len(a) : j + m \in 1 .. Len(b) /\ a[j] = b[j + m]
  BY DEF Suffix
<1>. QED BY <1>1, <1>2, Zenon DEF Ahead

LEMMA SuffixAfter ==
  ASSUME NEW p, NEW q, Suffix(p, q), After(q)
  PROVE  After(p)
<1>1. PICK n \in Nat : \A j \in 1 .. Len(p) : j + n \in 1 .. Len(q) /\ p[j] = q[j + n]
  BY DEF Suffix
<1>. QED BY <1>1, Zenon DEF After

\* Steps that add no line, and leave the board alone.
LEMMA OrderKept ==
  ASSUME RowInv', Ordered, UNCHANGED seen,
         Suffix(toGateway', toGateway), Suffix(held', held), Suffix(wire', wire)
  PROVE  Ordered'
<1>1. Len(toGateway') \in Nat /\ Len(wire') \in Nat
  BY DEF RowInv, Types
<1>2. InOrder(toGateway') /\ InOrder(wire')
  BY <1>1, SuffixInOrder DEF Ordered
<1>3. Ahead(toGateway', held') /\ Ahead(toGateway', wire') /\ Ahead(held', wire')
  BY SuffixAhead, Zenon DEF Ordered
<1>4. After(toGateway') /\ After(held') /\ After(wire')
  BY SuffixAfter, Zenon DEF Ordered
<1>5. After(toGateway)' /\ After(held)' /\ After(wire)'
  BY <1>4 DEF After
<1>. QED BY <1>2, <1>3, <1>5 DEF Ordered, InOrder, Ahead

\* The node adds a line that is no older than any under way, or shown.
LEMMA OrderAppended ==
  ASSUME RowInv, Ordered, UNCHANGED <<seen, toGateway, held>>,
         NEW e \in Events \cup {Login}, wire' = Append(wire, e),
         \A k \in 1 .. Len(toGateway) : Older(toGateway[k], e),
         \A k \in 1 .. Len(held) : Older(held[k], e),
         \A k \in 1 .. Len(wire) : Older(wire[k], e),
         \A s \in Spots : e.id = s => seen[s] <= e.no
  PROVE  Ordered'
<1>1. /\ Len(wire') = Len(wire) + 1 /\ Len(wire) \in Nat
      /\ \A k \in 1 .. Len(wire) : wire'[k] = wire[k]
      /\ wire'[Len(wire) + 1] = e
  <2>1. wire \in Seq(Events \cup {Login})
    BY DEF RowInv, Types
  <2>. QED BY <2>1, Appended
<1>2. \A k \in 1 .. Len(wire') : k \in 1 .. Len(wire) \/ k = Len(wire) + 1
  BY <1>1
<1>3. InOrder(wire)'
  <2>. SUFFICES ASSUME NEW j \in 1 .. Len(wire'), NEW k \in 1 .. Len(wire'), j < k
                PROVE  Older(wire'[j], wire'[k])
    BY DEF InOrder
  <2>1. j \in 1 .. Len(wire)
    BY <1>1
  <2>2. CASE k \in 1 .. Len(wire)
    <3>1. Older(wire[j], wire[k])
      BY <2>1, <2>2 DEF Ordered, InOrder
    <3>. QED BY <1>1, <2>1, <2>2, <3>1
  <2>3. CASE k = Len(wire) + 1
    BY <1>1, <2>1, <2>3
  <2>. QED BY <1>2, <2>2, <2>3
<1>4. Ahead(toGateway, wire)' /\ Ahead(held, wire)'
  BY <1>1, <1>2 DEF Ordered, Ahead
<1>5. After(wire)'
  <2>. SUFFICES ASSUME NEW k \in 1 .. Len(wire'), NEW s \in Spots, wire'[k].id = s
                PROVE  seen[s] <= wire'[k].no
    BY DEF After
  <2>. QED BY <1>1, <1>2 DEF Ordered, After
<1>. QED BY <1>3, <1>4, <1>5 DEF Ordered, InOrder, Ahead, After

\* Steps of the node and of the lines' loss.
LEMMA QueueMoves ==
  ASSUME QueueInv, RowInv', UNCHANGED <<seen, toGateway>>, readers' \in Nat,
         crowded => crowded', held' = held,
         readers' <= readers \/ (crowded' = (crowded \/ readers' + Len(held') > 1)),
         wire' = wire \/ wire' = <<>> \/ \E k \in 1 .. Len(wire) : wire' = SubSeq(wire, k + 1, Len(wire))
  PROVE  QueueInv'
<1>. SUFFICES ASSUME ~ crowded' PROVE readers' + Len(held') <= 1 /\ Ordered'
  BY DEF QueueInv, Queued
<1>1. readers + Len(held) <= 1 /\ Ordered
  BY DEF QueueInv, Queued
<1>2. /\ wire \in Seq(Events \cup {Login}) /\ held \in Seq(Events) /\ toGateway \in Seq(Events)
      /\ readers \in Nat /\ Len(held) \in Nat
  BY DEF QueueInv, RowInv, Types
<1>3. readers' + Len(held') <= 1
  <2>1. Len(held') \in Nat /\ Len(held') = Len(held)
    BY <1>2
  <2>2. CASE readers' <= readers
    BY <1>1, <1>2, <2>1, <2>2
  <2>3. CASE crowded' = (crowded \/ readers' + Len(held') > 1)
    <3>1. ~ (readers' + Len(held') > 1)
      BY <2>3
    <3>. QED BY <2>1, <3>1
  <2>. QED BY <2>2, <2>3
<1>4. Suffix(wire', wire) /\ Suffix(held', held) /\ Suffix(toGateway', toGateway)
  BY <1>2, SuffixOf
<1>. QED BY <1>1, <1>3, <1>4, OrderKept

LEMMA LoopQueue ==
  ASSUME QueueInv, RowInv', Loop
  PROVE  QueueInv'
<1>0. /\ wire \in Seq(Events \cup {Login}) /\ held \in Seq(Events) /\ toGateway \in Seq(Events)
      /\ readers \in Nat /\ sent \in [Spots -> Nat] /\ seen \in [Spots -> Nat] /\ i \in Spots
      /\ RowInv
  BY DEF QueueInv, RowInv, Types
<1>1. UNCHANGED <<seen, toGateway, held, readers, crowded>>
  BY DEF Loop, Connect, Proceed, Scan, Settle, server, board
<1>2. CASE wire' = wire
  BY <1>0, <1>1, <1>2, QueueMoves
<1>3. CASE Connect
  <2>. SUFFICES ASSUME ~ crowded PROVE Ordered'
    BY <1>1 DEF QueueInv, Queued
  <2>0. Ordered /\ wire' = Append(wire, Login) /\ Login.id = 0 /\ Login.no = 0
    BY <1>3 DEF QueueInv, Queued, Connect, Login
  <2>1. \A x \in Events : Older(x, Login)
    <3>1. \A x \in Events : x.id # 0
      BY DEF Events, Spots
    <3>. QED BY <2>0, <3>1 DEF Older
  <2>2. \A x \in Events \cup {Login} : Older(x, Login)
    BY <2>0, <2>1 DEF Older
  <2>3. \A k \in 1 .. Len(toGateway) : Older(toGateway[k], Login)
    BY <1>0, <2>1
  <2>4. \A k \in 1 .. Len(held) : Older(held[k], Login)
    BY <1>0, <2>1
  <2>5. \A k \in 1 .. Len(wire) : Older(wire[k], Login)
    BY <1>0, <2>2
  <2>6. \A s \in Spots : Login.id # s
    BY <2>0 DEF Spots
  <2>. QED BY <1>0, <1>1, <2>0, <2>3, <2>4, <2>5, <2>6, OrderAppended
<1>4. CASE Settle /\ wire' # wire
  <2>. SUFFICES ASSUME ~ crowded PROVE Ordered'
    BY <1>1 DEF QueueInv, Queued
  <2>1. PICK c \in {"IN", "OUT"} : wire' = Append(wire, Event(c, i, sent[i] + 1))
    BY <1>0, <1>4 DEF Settle, Write
  <2> DEFINE e == Event(c, i, sent[i] + 1)
  <2>2. e \in Events /\ e.id = i /\ e.no = sent[i] + 1
    BY <1>0 DEF Events, Event
  <2> HIDE DEF e
  <2>3. ASSUME NEW x \in Events, Fresh(x, sent, last) PROVE Older(x, e)
    <3>1. x.no \in Nat /\ x.id \in Spots /\ x.no <= sent[x.id]
      BY <2>3 DEF Events, Fresh
    <3>. QED BY <1>0, <2>2, <3>1 DEF Older
  <2>4. Older(Login, e)
    BY <1>0, <2>2 DEF Older, Login, Spots
  <2>5. \A k \in 1 .. Len(toGateway) : Older(toGateway[k], e)
    <3>1. \A k \in 1 .. Len(toGateway) : toGateway[k] \in Events /\ Fresh(toGateway[k], sent, last)
      BY <1>0 DEF RowInv, Travelling
    <3>. QED BY <2>3, <3>1
  <2>6. \A k \in 1 .. Len(held) : Older(held[k], e)
    <3>1. \A k \in 1 .. Len(held) : held[k] \in Events /\ Fresh(held[k], sent, last)
      BY <1>0 DEF RowInv, Travelling
    <3>. QED BY <2>3, <3>1
  <2>7. ASSUME NEW k \in 1 .. Len(wire) PROVE Older(wire[k], e)
    <3>1. CASE wire[k] = Login
      BY <2>4, <3>1
    <3>2. CASE wire[k] # Login
      <4>1. wire[k] \in Events /\ Fresh(wire[k], sent, last)
        BY <1>0, <3>2 DEF RowInv, Travelling
      <4>. QED BY <2>3, <4>1
    <3>. QED BY <3>1, <3>2
  <2>8. \A s \in Spots : e.id = s => seen[s] <= e.no
    BY <1>0, <2>2 DEF RowInv, Shown
  <2>9. Ordered /\ wire' = Append(wire, e)
    BY <2>1 DEF QueueInv, Queued, e
  <2>. QED BY <1>0, <1>1, <2>2, <2>5, <2>6, <2>7, <2>8, <2>9, OrderAppended
<1>. QED BY <1>2, <1>3, <1>4 DEF Loop, Proceed, Scan, net

LEMMA ReadsQueue ==
  ASSUME QueueInv, RowInv', ServerReads
  PROVE  QueueInv'
<1>0. /\ wire \in Seq(Events \cup {Login}) /\ held \in Seq(Events) /\ toGateway \in Seq(Events)
      /\ readers \in Nat /\ Len(held) \in Nat
  BY DEF QueueInv, RowInv, Types
<1>1. PICK k \in 1 .. Len(wire) : wire' = SubSeq(wire, k + 1, Len(wire)) \/ wire' = <<>>
  BY DEF ServerReads, Rest, Over
<1>2. /\ UNCHANGED <<seen, toGateway>> /\ readers > 0 /\ readers' = readers - 1
      /\ held' = Append(held, wire[1]) /\ 1 \in 1 .. Len(wire)
      /\ crowded' = (crowded \/ readers' + Len(held') > 1)
  BY <1>0, Shortened DEF ServerReads, board, Crowds
<1>3. readers' \in Nat
  BY <1>0, <1>2
<1>. SUFFICES ASSUME ~ crowded' PROVE readers' + Len(held') <= 1 /\ Ordered'
  BY <1>3 DEF QueueInv, Queued
<1>4. readers + Len(held) <= 1 /\ Ordered
  BY <1>2 DEF QueueInv, Queued
<1>5. held = <<>> /\ Len(held') = 1 /\ held'[1] = wire[1] /\ readers' + Len(held') <= 1
  <2>1. Len(held) = 0
    BY <1>0, <1>2, <1>4
  <2>2. held = <<>>
    BY <1>0, <2>1
  <2>3. held' = <<wire[1]>>
    BY <1>2, <2>2
  <2>. QED BY <1>0, <1>2, <1>4, <2>1, <2>2, <2>3
<1>6. PICK n \in Nat : /\ n > 0
                       /\ \A j \in 1 .. Len(wire') : j + n \in 1 .. Len(wire) /\ wire'[j] = wire[j + n]
  <2>1. CASE wire' = SubSeq(wire, k + 1, Len(wire))
    <3>1. \A j \in 1 .. Len(wire') : j + k \in 1 .. Len(wire) /\ wire'[j] = wire[j + k]
      BY <1>0, <2>1, Shortened
    <3>2. k \in Nat /\ k > 0
      OBVIOUS
    <3>. QED BY <3>1, <3>2
  <2>2. CASE wire' = <<>>
    <3>1. \A j \in 1 .. Len(wire') : j + 1 \in 1 .. Len(wire) /\ wire'[j] = wire[j + 1]
      BY <2>2
    <3>. QED BY <3>1
  <2>. QED BY <1>1, <2>1, <2>2
<1>7. Suffix(wire', wire) /\ Len(wire') \in Nat
  <2>1. Suffix(wire', wire)
    BY <1>6 DEF Suffix
  <2>2. wire' \in Seq(Events \cup {Login})
    BY DEF RowInv, Types
  <2>. QED BY <2>1, <2>2
<1>8. InOrder(toGateway)' /\ InOrder(wire)'
  <2>1. InOrder(wire')
    BY <1>4, <1>7, SuffixInOrder DEF Ordered
  <2>. QED BY <1>2, <1>4, <2>1 DEF Ordered, InOrder
<1>9. Ahead(toGateway, held)'
  BY <1>2, <1>4, <1>5 DEF Ordered, Ahead
<1>10. Ahead(toGateway, wire)'
  BY <1>2, <1>4, <1>6 DEF Ordered, Ahead
<1>11. Ahead(held, wire)'
  <2>. SUFFICES ASSUME NEW j \in 1 .. Len(held'), NEW m \in 1 .. Len(wire')
                PROVE  Older(held'[j], wire'[m])
    BY DEF Ahead
  <2>1. j = 1 /\ m + n \in 1 .. Len(wire) /\ 1 < m + n /\ wire'[m] = wire[m + n]
    BY <1>5, <1>6, <1>7
  <2>2. Older(wire[1], wire[m + n])
    BY <1>2, <1>4, <2>1 DEF Ordered, InOrder
  <2>. QED BY <1>5, <2>1, <2>2
<1>12. After(toGateway)' /\ After(wire)'
  <2>1. After(wire')
    BY <1>4, <1>7, SuffixAfter DEF Ordered
  <2>2. After(toGateway)
    BY <1>4 DEF Ordered
  <2>. QED BY <1>2, <2>1, <2>2 DEF After
<1>13. After(held)'
  BY <1>2, <1>4, <1>5 DEF Ordered, After
<1>. QED BY <1>5, <1>8, <1>9, <1>10, <1>11, <1>12, <1>13 DEF Ordered

LEMMA OnlyOne ==
  ASSUME NEW n \in Nat, NEW k \in 1 .. n, n <= 1
  PROVE  n = 1 /\ k = 1
  OBVIOUS

LEMMA NotMore ==
  ASSUME NEW m \in Nat, NEW n \in Nat, ~ (m + n > 1)
  PROVE  m + n <= 1
  OBVIOUS

\* Of a single element nothing remains when it is removed.
LEMMA SingleRemoved ==
  ASSUME NEW S, NEW q \in Seq(S), Len(q) = 1
  PROVE  RemoveAt(q, 1) = <<>>
<1>1. SubSeq(q, 1, 1 - 1) = <<>> /\ SubSeq(q, 1 + 1, Len(q)) = <<>>
  OBVIOUS
<1>2. <<>> \o <<>> = <<>>
  OBVIOUS
<1>. QED BY <1>1, <1>2 DEF RemoveAt

LEMMA RoutesQueue ==
  ASSUME QueueInv, RowInv', ServerRoutes
  PROVE  QueueInv'
<1>0. /\ wire \in Seq(Events \cup {Login}) /\ held \in Seq(Events) /\ toGateway \in Seq(Events)
      /\ readers \in Nat /\ Len(held) \in Nat /\ Len(toGateway) \in Nat
  BY DEF QueueInv, RowInv, Types
<1>1. PICK j \in 1 .. Len(held) : toGateway' = Append(toGateway, held[j]) /\ held' = RemoveAt(held, j)
  BY <1>0 DEF ServerRoutes
<1>2. /\ UNCHANGED <<seen, wire>> /\ readers' \in Nat /\ readers' <= readers + 1
      /\ crowded' = (crowded \/ readers' + Len(held') > 1)
  BY <1>0 DEF ServerRoutes, net, board, Crowds
<1>. SUFFICES ASSUME ~ crowded' PROVE readers' + Len(held') <= 1 /\ Ordered'
  BY <1>2 DEF QueueInv, Queued
<1>3. readers + Len(held) <= 1 /\ Ordered
  BY <1>2 DEF QueueInv, Queued
<1>4. Len(held) = 1 /\ j = 1
  <2>1. readers + Len(held) <= 1 /\ readers \in Nat /\ Len(held) \in Nat
    BY <1>0, <1>3
  <2>2. Len(held) <= 1
    BY <2>1
  <2>. QED BY <2>1, <2>2, OnlyOne
<1>5. Len(held') = 0
  <2>1. held' = <<>>
    BY <1>0, <1>1, <1>4, SingleRemoved
  <2>. QED BY <2>1
<1>6. readers' + Len(held') <= 1
  <2>1. ~ (readers' + Len(held') > 1)
    BY <1>2
  <2>2. held' \in Seq(Events)
    BY DEF RowInv, Types
  <2>3. Len(held') \in Nat
    BY <2>2
  <2>. QED BY <1>2, <2>1, <2>3, NotMore
<1>7. /\ Len(toGateway') = Len(toGateway) + 1 /\ toGateway'[Len(toGateway) + 1] = held[1]
      /\ \A k \in 1 .. Len(toGateway) : toGateway'[k] = toGateway[k]
      /\ \A k \in 1 .. Len(toGateway') : k \in 1 .. Len(toGateway) \/ k = Len(toGateway) + 1
  <2>1. held[j] \in Events
    BY <1>0
  <2>2. /\ Len(toGateway') = Len(toGateway) + 1 /\ toGateway'[Len(toGateway) + 1] = held[j]
        /\ \A k \in 1 .. Len(toGateway) : toGateway'[k] = toGateway[k]
    BY <1>0, <1>1, <2>1, Appended
  <2>. QED BY <1>0, <1>4, <2>2
<1>8. InOrder(toGateway)'
  <2>. SUFFICES ASSUME NEW l \in 1 .. Len(toGateway'), NEW k \in 1 .. Len(toGateway'), l < k
                PROVE  Older(toGateway'[l], toGateway'[k])
    BY DEF InOrder
  <2>1. l \in 1 .. Len(toGateway) /\ toGateway'[l] = toGateway[l]
    BY <1>0, <1>7
  <2>2. CASE k \in 1 .. Len(toGateway)
    BY <1>3, <1>7, <2>1, <2>2 DEF Ordered, InOrder
  <2>3. CASE k = Len(toGateway) + 1
    BY <1>3, <1>4, <1>7, <2>1, <2>3 DEF Ordered, Ahead
  <2>. QED BY <1>7, <2>2, <2>3
<1>9. Ahead(toGateway, wire)'
  BY <1>2, <1>3, <1>4, <1>7 DEF Ordered, Ahead
<1>10. Ahead(toGateway, held)' /\ Ahead(held, wire)' /\ After(held)'
  BY <1>5 DEF Ahead, After
<1>11. After(toGateway)'
  BY <1>2, <1>3, <1>4, <1>7 DEF Ordered, After
<1>12. InOrder(wire)' /\ After(wire)'
  BY <1>2, <1>3 DEF Ordered, InOrder, After
<1>. QED BY <1>6, <1>8, <1>9, <1>10, <1>11, <1>12 DEF Ordered

\* The gateway takes the head of an ordered queue: the rest of what is under way is
\* not older than it.
LEMMA GatewayQueue ==
  ASSUME QueueInv, RowInv', GatewayReads
  PROVE  QueueInv' /\ (~ crowded => \A s \in Spots : seen'[s] >= seen[s])
<1>0. /\ wire \in Seq(Events \cup {Login}) /\ held \in Seq(Events) /\ toGateway \in Seq(Events)
      /\ readers \in Nat /\ seen \in [Spots -> Nat] /\ toGateway' \in Seq(Events)
  BY DEF QueueInv, RowInv, Types
<1>1. PICK k \in 1 .. Len(toGateway) :
        /\ toGateway' = SubSeq(toGateway, k + 1, Len(toGateway))
        /\ Applied(Head(toGateway)) \/ UNCHANGED board
  BY DEF GatewayReads
<1>2. UNCHANGED <<wire, held, readers, crowded>>
  BY DEF GatewayReads, net, server
<1>3. /\ \A j \in 1 .. Len(toGateway') : j + k \in 1 .. Len(toGateway) /\ toGateway'[j] = toGateway[j + k]
      /\ Head(toGateway) = toGateway[1] /\ 1 \in 1 .. Len(toGateway)
  BY <1>0, <1>1, Shortened
<1>. SUFFICES ASSUME ~ crowded PROVE Ordered' /\ \A s \in Spots : seen'[s] >= seen[s]
  BY <1>0, <1>2 DEF QueueInv, Queued
<1>4. Ordered
  BY DEF QueueInv, Queued
<1>5. Suffix(toGateway', toGateway) /\ Suffix(wire', wire) /\ Suffix(held', held)
  BY <1>0, <1>1, <1>2, SuffixOf
<1>6. CASE UNCHANGED seen
  BY <1>0, <1>4, <1>5, <1>6, OrderKept
<1>7. CASE Applied(Head(toGateway))
  <2> DEFINE e == toGateway[1]
  <2>1. e \in Events /\ e.id \in Spots /\ e.no \in Nat
    <3>1. e \in Events
      BY <1>0, <1>3
    <3>. QED BY <3>1 DEF Events
  <2>2. seen' = [seen EXCEPT ![e.id] = e.no]
    BY <1>3, <1>7 DEF Applied
  <2>3. seen'[e.id] = e.no /\ \A s \in Spots \ {e.id} : seen'[s] = seen[s]
    BY <1>0, <2>1, <2>2
  <2>4. seen[e.id] <= e.no
    BY <1>3, <1>4, <2>1 DEF Ordered, After
  <2>5. \A s \in Spots : seen'[s] >= seen[s]
    BY <1>0, <2>1, <2>3, <2>4
  <2>6. ASSUME NEW f, Older(e, f), \A s \in Spots : f.id = s => seen[s] <= f.no
        PROVE  \A s \in Spots : f.id = s => seen'[s] <= f.no
    BY <2>1, <2>3, <2>6 DEF Older
  <2> HIDE DEF e
  <2>7. After(toGateway)'
    <3>1. ASSUME NEW j \in 1 .. Len(toGateway')
          PROVE  \A s \in Spots : toGateway'[j].id = s => seen'[s] <= toGateway'[j].no
      <4>1. j + k \in 1 .. Len(toGateway) /\ toGateway'[j] = toGateway[j + k] /\ 1 < j + k
        BY <1>0, <1>3
      <4>2. Older(e, toGateway[j + k])
        BY <1>3, <1>4, <4>1 DEF Ordered, InOrder, e
      <4>3. \A s \in Spots : toGateway[j + k].id = s => seen[s] <= toGateway[j + k].no
        BY <1>4, <4>1 DEF Ordered, After
      <4>. QED BY <2>6, <4>1, <4>2, <4>3
    <3>. QED BY <3>1 DEF After
  <2>8. After(held)'
    <3>1. ASSUME NEW j \in 1 .. Len(held)
          PROVE  \A s \in Spots : held[j].id = s => seen'[s] <= held[j].no
      <4>1. Older(e, held[j])
        BY <1>3, <1>4 DEF Ordered, Ahead, e
      <4>2. \A s \in Spots : held[j].id = s => seen[s] <= held[j].no
        BY <1>4 DEF Ordered, After
      <4>. QED BY <2>6, <4>1, <4>2
    <3>. QED BY <1>2, <3>1 DEF After
  <2>9. After(wire)'
    <3>1. ASSUME NEW j \in 1 .. Len(wire)
          PROVE  \A s \in Spots : wire[j].id = s => seen'[s] <= wire[j].no
      <4>1. Older(e, wire[j])
        BY <1>3, <1>4 DEF Ordered, Ahead, e
      <4>2. \A s \in Spots : wire[j].id = s => seen[s] <= wire[j].no
        BY <1>4 DEF Ordered, After
      <4>. QED BY <2>6, <4>1, <4>2
    <3>. QED BY <1>2, <3>1 DEF After
  <2>10. InOrder(toGateway') /\ InOrder(wire')
    BY <1>0, <1>2, <1>4, <1>5, SuffixInOrder DEF Ordered
  <2>11. Ahead(toGateway', held') /\ Ahead(toGateway', wire') /\ Ahead(held', wire')
    BY <1>4, <1>5, SuffixAhead, Zenon DEF Ordered
  <2>. QED BY <2>5, <2>7, <2>8, <2>9, <2>10, <2>11 DEF Ordered, InOrder, Ahead
<1>. QED BY <1>1, <1>6, <1>7 DEF board

\* Of all steps only the gateway's sets a row.
LEMMA QueueStep ==
  ASSUME QueueInv, [Next]_vars, RowInv'
  PROVE  QueueInv' /\ (~ crowded => \A s \in Spots : seen'[s] >= seen[s])
<1>0. seen \in [Spots -> Nat] /\ readers \in Nat
  BY DEF QueueInv, RowInv, Types
<1>1. CASE UNCHANGED seen
  <2>. SUFFICES QueueInv'
    BY <1>0, <1>1
  <2>1. CASE Loop
    BY <2>1, LoopQueue
  <2>2. CASE PinChanges \/ NodeNotices \/ UNCHANGED vars
    BY <1>0, <1>1, <2>2, QueueMoves DEF PinChanges, NodeNotices, vars, server, net
  <2>3. CASE Faults
    <3>1. /\ UNCHANGED <<toGateway, held, crowded>> /\ readers' = 0 /\ wire' = <<>>
      BY <2>3 DEF Faults, Restart, LinkBreaks, ConnectionLost
    <3>. QED BY <1>0, <1>1, <3>1, QueueMoves
  <2>4. CASE ServerLogin
    <3>1. PICK k \in 1 .. Len(wire) : wire' = SubSeq(wire, k + 1, Len(wire)) \/ wire' = <<>>
      BY <2>4 DEF ServerLogin, Rest, Over
    <3>2. /\ UNCHANGED <<toGateway, held>> /\ readers' \in Nat
          /\ crowded' = (crowded \/ readers' + Len(held') > 1)
      BY <1>0, <2>4 DEF ServerLogin, Crowds
    <3>. QED BY <1>1, <3>1, <3>2, QueueMoves
  <2>5. CASE ServerReads
    BY <2>5, ReadsQueue
  <2>6. CASE ServerRoutes
    BY <2>6, RoutesQueue
  <2>7. CASE ThreadEnds
    <3>1. /\ UNCHANGED <<toGateway, held, crowded, readers>>
          /\ wire' = wire \/ wire' = <<>>
          /\ readers' <= readers
      BY <1>0, <2>7 DEF ThreadEnds, Over, net
    <3>. QED BY <1>0, <1>1, <3>1, QueueMoves
  <2>8. CASE GatewayReads
    BY <2>8, GatewayQueue
  <2>. QED BY <2>1, <2>2, <2>3, <2>4, <2>5, <2>6, <2>7, <2>8 DEF Next, Server
<1>2. CASE GatewayReads
  BY <1>2, GatewayQueue
<1>3. UNCHANGED seen \/ GatewayReads
  BY DEF Next, Loop, Connect, Proceed, Scan, Settle, PinChanges, NodeNotices, Server, ServerLogin,
         ServerReads, ServerRoutes, ThreadEnds, Faults, Restart, LinkBreaks, vars, board
<1>. QED BY <1>1, <1>2, <1>3

\* As long as the threads of two sessions have not been at work at a time, no row is set
\* back by an event that an event of the same spot overtook, over any number of
\* connections and restarts.
THEOREM NothingOvertakes == Spec => NeverBack
<1>1. Init => QueueInv
  <2>. SUFFICES ASSUME Init PROVE readers \in Nat /\ Queued
    BY InitRow DEF QueueInv
  <2>1. Len(held) = 0 /\ Len(wire) = 0 /\ Len(toGateway) = 0 /\ readers = 0
    BY DEF Init
  <2>. QED BY <2>1 DEF Queued, Ordered, InOrder, Ahead, After
<1>2. RowInv /\ [Next]_vars => RowInv'
  BY LoopStep, SettleStep, RestartStep, ServerStep, GatewayStep, OtherStep DEF Next, Loop, Faults
<1>3. QueueInv /\ [Next]_vars => QueueInv'
  BY <1>2, QueueStep DEF QueueInv
<1>4. QueueInv /\ [Next]_vars => [~ crowded => \A s \in Spots : seen'[s] >= seen[s]]_vars
  BY <1>2, QueueStep DEF QueueInv
<1>. QED BY <1>1, <1>3, <1>4, PTL DEF Spec, NeverBack
=============================================================================
