---------------------------- MODULE BridgeProofs ----------------------------
(* Bridge relays lines (LineRelay) whatever the size of its buffer and      *)
(* however the streams are cut.                                             *)
EXTENDS Bridge, TLAPS

\* What send_msg's position has to do with what was written and with the descriptor it
\* shares: a line that is due is whole, and sockfd is -1 only for a reason.
Inv ==
    /\ TypeOK
    /\ written = start
    /\ Buffered <= arrived
    /\ spc = "write" => IF total > 0 THEN Buffered \in ends ELSE device = "gone"
    /\ ~ sockfd => server = "gone" \/ spc = "done"
    /\ spc \in {"none", "setup"} => total = 0
    /\ mpc \in {"login", "bluetooth"} => spc = "none"

\* Every step keeps that relation.
LEMMA InvInductive == Spec => []Inv
<1> USE BridgeAssumption
<1>1. Init => Inv
  <2> SUFFICES ASSUME Init PROVE Inv
    OBVIOUS
  <2>1. ends \subseteq Nat /\ total \in 0 .. BUF_SIZE
    BY DEF Init
  <2>2. alive \in BOOLEAN /\ sockfd \in BOOLEAN /\ watched \in BOOLEAN
    BY DEF Init
  <2>3. TypeOK
    BY <2>1, <2>2 DEF Init, TypeOK
  <2> QED
    BY <2>3 DEF Init, Inv, Buffered
<1>2. Inv /\ [Next]_vars => Inv'
  <2> SUFFICES ASSUME Inv, [Next]_vars PROVE Inv'
    OBVIOUS
  <2> USE DEF Inv, TypeOK, Buffered, ctrl, source, sender, receiver, line
  <2>1. CASE DeviceSends
    BY <2>1 DEF DeviceSends
  <2>2. CASE DeviceGoes
    BY <2>2 DEF DeviceGoes
  <2>3. CASE ServerSends
    BY <2>3 DEF ServerSends
  <2>4. CASE ServerGoes
    BY <2>4 DEF ServerGoes
  <2>5. CASE Login
    BY <2>5 DEF Login, MayDie
  <2>6. CASE Bluetooth
    <3>1. alive' \in BOOLEAN
      BY <2>6 DEF Bluetooth
    <3> QED
      BY <2>6, <3>1 DEF Bluetooth
  <2>7. CASE Join
    BY <2>7 DEF Join
  <2>8. CASE Select
    BY <2>8 DEF Select
  <2>9. CASE Read
    <3>1. ASSUME NEW n \in 1 .. BUF_SIZE - total, Takes(n), spc = "read" PROVE Inv'
      <4>1. alive' \in BOOLEAN
        BY <3>1 DEF Takes
      <4> QED
        BY <2>9, <3>1, <4>1 DEF Read, Takes
    <3>2. CASE GiveUp
      BY <2>9, <3>2 DEF Read, GiveUp
    <3>3. CASE Buffered = arrived /\ device = "reset" /\ Fails
      BY <2>9, <3>3 DEF Read, Fails
    <3> QED
      BY <2>9, <3>1, <3>2, <3>3 DEF Read
  <2>10. CASE Write
    <3>1. alive' \in BOOLEAN
      BY <2>10 DEF Write, MayDie, GiveUp
    <3>2. CASE GiveUp
      BY <2>10, <3>1, <3>2 DEF Write, GiveUp
    <3>3. CASE total > 0 /\ sockfd
      BY <2>10, <3>1, <3>3 DEF Write
    <3> QED
      BY <2>10, <3>2, <3>3 DEF Write
  <2>11. CASE RecvRead
    <3>1. got' \in Nat /\ rpc' \in {"none", "read", "write", "done"}
      BY <2>11 DEF RecvRead
    <3>2. sockfd' \in BOOLEAN /\ (~ sockfd' => ~ sockfd \/ server = "gone")
      BY <2>11, Zenon DEF RecvRead
    <3> QED
      BY <2>11, <3>1, <3>2 DEF RecvRead
  <2>12. CASE RecvWrite
    BY <2>12 DEF RecvWrite, MayDie
  <2>13. CASE UNCHANGED vars
    BY <2>13 DEF vars
  <2>14. CASE Setup
    <3>1. alive' \in BOOLEAN /\ watched' \in BOOLEAN
      BY <2>14 DEF Setup
    <3> QED
      BY <2>14, <3>1 DEF Setup
  <2> QED
    BY <2>1, <2>2, <2>3, <2>4, <2>5, <2>6, <2>7, <2>8, <2>9, <2>10, <2>11, <2>12, <2>13, <2>14
    DEF Next, Ends, MainStep, SendMsg, RecvMsg
<1> QED
  BY <1>1, <1>2, PTL DEF Spec

\* Bridge: the variables of both threads keep their types, total its bound.
THEOREM TypeCorrect == Spec => []TypeOK
<1>1. Inv => TypeOK
  BY DEF Inv
<1> QED
  BY <1>1, InvInductive, PTL

\* iot_client_bluetooth.c send_msg: the controller's lines reach the server whole, in
\* order and once, and the thread gives up only when an end has gone or BUF_SIZE bytes
\* wait for a newline.
THEOREM RelayRefined == Spec => RelaysLines
<1> USE BridgeAssumption
<1>1. Init => Relay!Init
  BY DEF Init, Relay!Init
<1>2. Inv /\ [Next]_vars => [Relay!Next]_(Relay!vars)
  <2> SUFFICES ASSUME Inv, [Next]_vars PROVE Relay!Next \/ UNCHANGED Relay!vars
    OBVIOUS
  <2> USE DEF Inv, TypeOK, Buffered, ctrl, source, sender, receiver, line,
              Relay!Next, Relay!vars
  <2>1. CASE DeviceSends
    BY <2>1 DEF DeviceSends, Relay!Arrive
  <2>2. CASE DeviceGoes
    BY <2>2 DEF DeviceGoes, Relay!Cut
  <2>3. CASE ServerSends
    BY <2>3 DEF ServerSends
  <2>4. CASE ServerGoes
    BY <2>4 DEF ServerGoes, Relay!Cut
  <2>5. CASE Login
    BY <2>5 DEF Login
  <2>6. CASE Bluetooth
    BY <2>6 DEF Bluetooth
  <2>7. CASE Join
    BY <2>7 DEF Join
  <2>8. CASE Select
    BY <2>8 DEF Select, Relay!Stop
  <2>9. CASE Read
    BY <2>9 DEF Read, Takes, Fails, GiveUp, Relay!Stop
  <2>10. CASE Write
    BY <2>10 DEF Write, GiveUp, Relay!Forward, Relay!Stop
  <2>11. CASE RecvRead
    BY <2>11 DEF RecvRead
  <2>12. CASE RecvWrite
    BY <2>12 DEF RecvWrite
  <2>13. CASE UNCHANGED vars
    BY <2>13 DEF vars
  <2>14. CASE Setup
    BY <2>14 DEF Setup
  <2> QED
    BY <2>1, <2>2, <2>3, <2>4, <2>5, <2>6, <2>7, <2>8, <2>9, <2>10, <2>11, <2>12, <2>13, <2>14
    DEF Next, Ends, MainStep, SendMsg, RecvMsg
<1> QED
  BY <1>1, <1>2, InvInductive, PTL DEF Spec, RelaysLines, Relay!Spec
=============================================================================
