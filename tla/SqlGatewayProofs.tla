--------------------------- MODULE SqlGatewayProofs ---------------------------
(****************************************************************************)
(* Proofs about SqlGateway: its types, the agreement of the state rows with *)
(* the logs, the car that is locked in, and the fee that is shown and the   *)
(* one that is listed, for every set of ids, every clock and any number of  *)
(* events and restarts; and about Fee, for every stay.                      *)
(****************************************************************************)
EXTENDS SqlGateway, TLAPS

-----------------------------------------------------------------------------
(* Types. *)

LEMMA EventTypes ==
    /\ \A e \in Events : e \in Line /\ e.id \in Ids
    /\ Greeting \in Line /\ Greeting.cmd = "OTHER"
    /\ \A e \in Line : e.cmd \notin {"GETDB", "OTHER"} => e \in Events
    /\ \A e \in [cmd : {"GETDB"}, id : {None}] : e \in Line
    /\ \A e \in Events : e.cmd \in {"IN", "OUT", "ENTER", "LEAVE"}
    /\ \A e \in Events : e.cmd \in {"ENTER", "LEAVE"} => e.id \in Cars
    /\ \A e \in Events : e.cmd \in {"IN", "OUT"} => e.id \in Spots
BY DEF Events, Line, Ids, Greeting

LEMMA TimeTypes ==
    /\ 0 \in Times
    /\ \A t \in Times : t \in Nat
    /\ Garbage \subseteq Int
    /\ \A t \in Int : CalcFee(t) \in Int
BY GatewayAssumption DEF CalcFee, Cap, Rate

LEMMA EntersType ==
    ASSUME TypeOK, NEW c \in Ids
    PROVE  /\ Enters(c) \subseteq Times
           /\ LastEnter(c) \subseteq Times
<1>1. log[c] \in Seq(Entries) /\ \A e \in Entries : e.at \in Times
  BY DEF TypeOK, TablesOK, Entries
<1>2. \A k \in 1 .. Len(log[c]) : log[c][k] \in Entries
  BY <1>1
<1>. QED
  BY <1>1, <1>2 DEF Enters, LastEnter

\* The facts on sequences that the steps need.
LEMMA SequenceTypes ==
    /\ <<>> \in Seq(Line)
    /\ \A q \in Seq(Line) : q # <<>> => Head(q) \in Line
    /\ \A i \in Ids, e \in Entries : TablesOK => Append(log[i], e) \in Seq(Entries)
    /\ \A i \in Ids : TablesOK => Len(log[i]) \in Nat
BY DEF TablesOK

LEMMA StateTypes ==
    /\ \A cmd : Before(cmd) \in {0, 1} /\ After(cmd) \in {0, 1}
    /\ \A cmd : Before(cmd) # After(cmd)
BY DEF Before, After

LEMMA TypeStep == TypeOK /\ [Next]_vars => TypeOK'
<1> SUFFICES ASSUME TypeOK, [Next]_vars PROVE TypeOK'
  OBVIOUS
<1> USE EventTypes, TimeTypes DEF TypeOK, tables, line, reader
<1>1. ASSUME Tick PROVE TypeOK'
  <2>1. TablesOK'
    BY <1>1 DEF Tick, TablesOK
  <2>2. LineOK'
    BY <1>1 DEF Tick, LineOK
  <2>3. ThreadsOK'
    BY <1>1 DEF Tick, ThreadsOK
  <2>4. FeeOK'
    BY <1>1 DEF Tick, FeeOK
  <2>. QED
    BY <2>1, <2>2, <2>3, <2>4
<1>2. ASSUME ServerSends PROVE TypeOK'
  <2>1. TablesOK'
    BY <1>2 DEF ServerSends, TablesOK
  <2>2. LineOK'
    BY <1>2 DEF ServerSends, LineOK
  <2>3. ThreadsOK'
    BY <1>2 DEF ServerSends, ThreadsOK
  <2>4. FeeOK'
    BY <1>2 DEF ServerSends, FeeOK
  <2>. QED
    BY <2>1, <2>2, <2>3, <2>4
<1>3. ASSUME ServerCloses PROVE TypeOK'
  <2>1. TablesOK'
    BY <1>3 DEF ServerCloses, TablesOK
  <2>2. LineOK'
    BY <1>3 DEF ServerCloses, LineOK
  <2>3. ThreadsOK'
    BY <1>3 DEF ServerCloses, ThreadsOK
  <2>4. FeeOK'
    BY <1>3 DEF ServerCloses, FeeOK
  <2>. QED
    BY <2>1, <2>2, <2>3, <2>4
<1>4. ASSUME Starts PROVE TypeOK'
  <2>1. TablesOK'
    BY <1>4 DEF Starts, TablesOK
  <2>2. LineOK'
    BY <1>4 DEF Starts, LineOK
  <2>3. ThreadsOK'
    BY <1>4 DEF Starts, ThreadsOK
  <2>4. FeeOK'
    BY <1>4 DEF Starts, FeeOK
  <2>. QED
    BY <2>1, <2>2, <2>3, <2>4
<1>5. ASSUME Dies PROVE TypeOK'
  <2>1. TablesOK'
    BY <1>5 DEF Dies, TablesOK, Down, ThreadsOK
  <2>2. LineOK'
    BY <1>5, SequenceTypes DEF Dies, LineOK, Down
  <2>3. ThreadsOK'
    BY <1>5 DEF Dies, ThreadsOK, Down
  <2>4. FeeOK'
    BY <1>5 DEF Dies, FeeOK, Down, NoFee
  <2>. QED
    BY <2>1, <2>2, <2>3, <2>4
<1>6. ASSUME Exits PROVE TypeOK'
  <2>1. TablesOK'
    BY <1>6 DEF Exits, TablesOK, Down
  <2>2. LineOK'
    BY <1>6, SequenceTypes DEF Exits, LineOK, Down
  <2>3. ThreadsOK'
    BY <1>6 DEF Exits, ThreadsOK, Down
  <2>4. FeeOK'
    BY <1>6 DEF Exits, FeeOK, Down, NoFee
  <2>. QED
    BY <2>1, <2>2, <2>3, <2>4
<1>7. ASSUME Quit PROVE TypeOK'
  <2>1. TablesOK'
    BY <1>7 DEF Quit, TablesOK
  <2>2. LineOK'
    BY <1>7 DEF Quit, LineOK
  <2>3. ThreadsOK'
    BY <1>7 DEF Quit, ThreadsOK
  <2>4. FeeOK'
    BY <1>7 DEF Quit, FeeOK
  <2>. QED
    BY <2>1, <2>2, <2>3, <2>4
<1>8. ASSUME ConsoleNotices PROVE TypeOK'
  <2>1. TablesOK'
    BY <1>8 DEF ConsoleNotices, TablesOK
  <2>2. LineOK'
    BY <1>8 DEF ConsoleNotices, LineOK
  <2>3. ThreadsOK'
    BY <1>8 DEF ConsoleNotices, ThreadsOK
  <2>4. FeeOK'
    BY <1>8 DEF ConsoleNotices, FeeOK
  <2>. QED
    BY <2>1, <2>2, <2>3, <2>4
<1>9. ASSUME Connects PROVE TypeOK'
  <2>1. TablesOK'
    BY <1>9 DEF Connects, TablesOK
  <2>2. LineOK'
    BY <1>9 DEF Connects, LineOK
  <2>3. ThreadsOK'
    BY <1>9 DEF Connects, ThreadsOK
  <2>4. FeeOK'
    BY <1>9 DEF Connects, FeeOK
  <2>. QED
    BY <2>1, <2>2, <2>3, <2>4
<1>10. ASSUME EnterRead PROVE TypeOK'
  <2>1. TablesOK'
    BY <1>10 DEF EnterRead, TablesOK
  <2>2. LineOK'
    BY <1>10 DEF EnterRead, LineOK
  <2>3. ThreadsOK'
    BY <1>10 DEF EnterRead, ThreadsOK
  <2>4. FeeOK'
    BY <1>10 DEF EnterRead, FeeOK
  <2>. QED
    BY <2>1, <2>2, <2>3, <2>4
<1>11. ASSUME ReadLine PROVE TypeOK'
  <2>1. TablesOK'
    BY <1>11 DEF ReadLine, TablesOK
  <2>2. LineOK'
    BY <1>11 DEF ReadLine, LineOK
  <2>3. ThreadsOK'
    <3>1. Head(inq) \in Line
      BY <1>11, SequenceTypes DEF ReadLine, LineOK
    <3>. QED
      BY <1>11, <3>1 DEF ReadLine, ThreadsOK
  <2>4. FeeOK'
    BY <1>11 DEF ReadLine, FeeOK
  <2>. QED
    BY <2>1, <2>2, <2>3, <2>4
<1>12. ASSUME ReadFails PROVE TypeOK'
  <2>1. TablesOK'
    BY <1>12 DEF ReadFails, TablesOK
  <2>2. LineOK'
    BY <1>12 DEF ReadFails, LineOK
  <2>3. ThreadsOK'
    BY <1>12 DEF ReadFails, ThreadsOK
  <2>4. FeeOK'
    BY <1>12 DEF ReadFails, FeeOK
  <2>. QED
    BY <2>1, <2>2, <2>3, <2>4
<1>13. ASSUME GetDb PROVE TypeOK'
  <2>1. TablesOK'
    BY <1>13 DEF GetDb, TablesOK
  <2>2. LineOK'
    BY <1>13 DEF GetDb, LineOK
  <2>3. ThreadsOK'
    BY <1>13 DEF GetDb, ThreadsOK
  <2>4. FeeOK'
    BY <1>13 DEF GetDb, FeeOK
  <2>. QED
    BY <2>1, <2>2, <2>3, <2>4
<1>14. ASSUME Select PROVE TypeOK'
  <2>1. TablesOK'
    BY <1>14 DEF Select, TablesOK
  <2>2. LineOK'
    BY <1>14 DEF Select, LineOK
  <2>3. ThreadsOK'
    BY <1>14 DEF Select, ThreadsOK
  <2>4. FeeOK'
    BY <1>14 DEF Select, FeeOK
  <2>. QED
    BY <2>1, <2>2, <2>3, <2>4
<1>15. ASSUME Find PROVE TypeOK'
  <2>1. TablesOK'
    BY <1>15 DEF Find, TablesOK
  <2>2. LineOK'
    BY <1>15 DEF Find, LineOK
  <2>3. ThreadsOK'
    BY <1>15 DEF Find, ThreadsOK
  <2>4. FeeOK'
    <3>1. ev.id \in Ids
      BY <1>15 DEF Find, ThreadsOK
    <3>2. enter' \in Times \cup {Clobbered}
      BY <1>15, <3>1, EntersType DEF Find, FeeOK
    <3>. QED
      BY <1>15, <3>2 DEF Find, FeeOK
  <2>. QED
    BY <2>1, <2>2, <2>3, <2>4
<1>16. ASSUME Calc PROVE TypeOK'
  <2>1. TablesOK'
    BY <1>16 DEF Calc, TablesOK
  <2>2. LineOK'
    BY <1>16 DEF Calc, LineOK
  <2>3. ThreadsOK'
    BY <1>16 DEF Calc, ThreadsOK
  <2>4. FeeOK'
    <3>1. enter # Clobbered => CalcFee(now - enter) \in Int
      BY DEF FeeOK, TablesOK
    <3>2. fee' \in [amount : Int, at : Times]
      BY <1>16, <3>1 DEF Calc, FeeOK, TablesOK
    <3>. QED
      BY <1>16, <3>2 DEF Calc, FeeOK
  <2>. QED
    BY <2>1, <2>2, <2>3, <2>4
<1>17. ASSUME Update PROVE TypeOK'
  <2>1. TablesOK'
    <3>1. ev.id \in Ids
      BY <1>17 DEF Update, ThreadsOK
    <3>2. state' \in [Ids -> {0, 1}]
      BY <1>17, StateTypes DEF Update, SetState, TablesOK
    <3>. QED
      BY <1>17, <3>1, <3>2 DEF Update, TablesOK
  <2>2. LineOK'
    BY <1>17 DEF Update, LineOK
  <2>3. ThreadsOK'
    BY <1>17 DEF Update, ThreadsOK
  <2>4. FeeOK'
    BY <1>17 DEF Update, FeeOK
  <2>. QED
    BY <2>1, <2>2, <2>3, <2>4
<1>18. ASSUME Insert PROVE TypeOK'
  <2>1. TablesOK'
    <3>1. ev.id \in Ids /\ [what |-> ev.cmd, at |-> now] \in Entries
      BY <1>18 DEF Insert, ThreadsOK, TablesOK, Entries
    <3>2. log' \in [Ids -> Seq(Entries)]
      <4>1. Append(log[ev.id], [what |-> ev.cmd, at |-> now]) \in Seq(Entries)
        BY <3>1, SequenceTypes
      <4>2. log' = log \/ log' = [log EXCEPT ![ev.id] = Append(log[ev.id], [what |-> ev.cmd, at |-> now])]
        BY <1>18 DEF Insert, AppendLog
      <4>. QED
        BY <4>1, <4>2 DEF TablesOK
    <3>. QED
      BY <1>18, <3>1, <3>2 DEF Insert, TablesOK
  <2>2. LineOK'
    BY <1>18 DEF Insert, LineOK
  <2>3. ThreadsOK'
    BY <1>18 DEF Insert, ThreadsOK
  <2>4. FeeOK'
    BY <1>18 DEF Insert, FeeOK
  <2>. QED
    BY <2>1, <2>2, <2>3, <2>4
<1>19. ASSUME SendExit PROVE TypeOK'
  <2>1. TablesOK'
    BY <1>19 DEF SendExit, TablesOK
  <2>2. LineOK'
    BY <1>19 DEF SendExit, LineOK
  <2>3. ThreadsOK'
    BY <1>19 DEF SendExit, ThreadsOK
  <2>4. FeeOK'
    <3>1. ev.id \in Cars /\ ev.id \in Ids
      BY <1>19 DEF SendExit, ThreadsOK
    <3>2. [amount |-> fee.amount, at |-> fee.at, entry |-> Len(log[ev.id]), row |-> enter]
             \in [amount : Int, at : Times, entry : Nat, row : Times \cup {Clobbered}]
      BY <3>1, SequenceTypes DEF FeeOK
    <3>. QED
      BY <1>19, <3>1, <3>2 DEF SendExit, FeeOK
  <2>. QED
    BY <2>1, <2>2, <2>3, <2>4
<1>20. ASSUME UNCHANGED vars PROVE TypeOK'
  BY <1>20 DEF vars, TablesOK, LineOK, ThreadsOK, FeeOK
<1>. QED
  BY <1>1, <1>2, <1>3, <1>4, <1>5, <1>6, <1>7, <1>8, <1>9, <1>10, <1>11, <1>12, <1>13, <1>14, <1>15, <1>16, <1>17, <1>18, <1>19, <1>20 DEF Next, Receiver

LEMMA TypeInit == Init => TypeOK
<1> SUFFICES ASSUME Init PROVE TypeOK
  OBVIOUS
<1>1. TablesOK
  BY TimeTypes DEF Init, TablesOK
<1>2. LineOK
  BY SequenceTypes DEF Init, LineOK
<1>3. ThreadsOK
  BY EventTypes DEF Init, ThreadsOK
<1>4. FeeOK
  BY TimeTypes DEF Init, FeeOK, NoFee, NoBill
<1>. QED
  BY <1>1, <1>2, <1>3, <1>4 DEF TypeOK

\* Every variable keeps to its type.
THEOREM TypeCorrect == Spec => []TypeOK
<1>1. Init => TypeOK
  BY TypeInit
<1>2. TypeOK /\ [Next]_vars => TypeOK'
  BY TypeStep
<1>. QED
  BY <1>1, <1>2, PTL DEF Spec

-----------------------------------------------------------------------------
(* The state rows and the logs. *)

TablesInv == TypeOK /\ Pending /\ TableMatchesLog /\ LogAlternates

\* Steps that write no table and leave the event in hand, if any, where it is.
LEMMA PendingFrame ==
    ASSUME TypeOK, Pending, UNCHANGED <<state, log>>, torn \subseteq torn',
           now' \in Times, now <= now',
           rpc' \in {"find", "calc", "update", "insert"} => ev' = ev /\ rpc' = rpc
    PROVE  Pending'
<1>1. ASSUME NEW i \in Ids, NEW k \in 1 .. Len(log'[i])
      PROVE  log'[i][k].at <= now'
  <2>1. log[i] \in Seq(Entries) /\ k \in 1 .. Len(log[i])
    BY <1>1 DEF TypeOK, TablesOK
  <2>2. log[i][k] \in Entries /\ log[i][k].at <= now
    BY <2>1 DEF Pending
  <2>3. log[i][k].at \in Nat /\ now \in Nat /\ now' \in Nat
    BY <2>2, TimeTypes DEF Entries, TypeOK, TablesOK
  <2>. QED
    BY <2>2, <2>3
<1>2. \A c : Enters(c)' = Enters(c)
  BY DEF Enters
<1>. QED
  BY <1>1, <1>2 DEF Pending

\* Steps that write no table: an event leaves the place between its two statements
\* only by being cut off.
LEMMA MatchFrame ==
    ASSUME TableMatchesLog, LogAlternates, UNCHANGED <<state, log>>, torn \subseteq torn',
           rpc' = "insert" => rpc = "insert" /\ ev' = ev,
           rpc = "insert" /\ rpc' # "insert" => ev.id \in torn'
    PROVE  TableMatchesLog' /\ LogAlternates'
<1>1. TableMatchesLog'
  <2> SUFFICES ASSUME NEW i \in Ids \ torn'
               PROVE  state[i] = 1 <=> (Open(log[i]) # Between(i)')
    BY DEF TableMatchesLog, Open
  <2>1. Between(i)' <=> Between(i)
    BY DEF Between
  <2>2. Between(i)' = Between(i)
    BY <2>1 DEF Between
  <2>. QED
    BY <2>2 DEF TableMatchesLog
<1>2. LogAlternates'
  BY DEF LogAlternates
<1>. QED
  BY <1>1, <1>2

LEMMA NextParity == \A n \in Nat : (n + 1) % 2 = 1 <=> ~ (n % 2 = 1)
OBVIOUS

\* An id is open exactly when it has an odd number of entries.
LEMMA OpenIsOdd ==
    ASSUME TypeOK, LogAlternates, NEW i \in Ids \ torn
    PROVE  Open(log[i]) <=> Len(log[i]) % 2 = 1
<1>1. log[i] \in Seq(Entries) /\ Len(log[i]) \in Nat
  BY DEF TypeOK, TablesOK
<1>2. CASE log[i] = <<>>
  BY <1>2 DEF Open
<1>3. CASE log[i] # <<>>
  <2>1. Len(log[i]) \in 1 .. Len(log[i])
    BY <1>1, <1>3
  <2>2. log[i][Len(log[i])].what \in Arrival <=> Len(log[i]) % 2 = 1
    BY <2>1 DEF LogAlternates
  <2>. QED
    BY <2>2, <1>3 DEF Open, Last
<1>. QED
  BY <1>2, <1>3

LEMMA UpdateMatches ==
    ASSUME TablesInv, Update
    PROVE  Pending' /\ TableMatchesLog' /\ LogAlternates'
<1> USE DEF TablesInv
<1>1. /\ ev.id \in Ids /\ ev' = ev /\ log' = log /\ now' = now
      /\ torn' = torn \/ torn' = torn \cup {ev.id}
      /\ state' = state \/ state' = [state EXCEPT ![ev.id] = After(ev.cmd)]
      /\ ev.id \notin torn' => rpc' = "insert" /\ state' = [state EXCEPT ![ev.id] = After(ev.cmd)]
      /\ rpc' \in {"insert", "ended"}
      /\ rpc = "update" /\ state[ev.id] = Before(ev.cmd)
  BY EventTypes DEF Update, SetState, TypeOK, ThreadsOK, Pending, reader
<1>2. state \in [Ids -> {0, 1}]
  BY DEF TypeOK, TablesOK
<1>3. Pending'
  <2>1. ev.id \notin torn' => state'[ev.id] = After(ev.cmd)
    BY <1>1, <1>2
  <2>. QED
    BY <1>1, <2>1 DEF Pending
<1>4. TableMatchesLog'
  <2> SUFFICES ASSUME NEW i \in Ids \ torn'
               PROVE  state'[i] = 1 <=> (Open(log[i]) # Between(i)')
    BY <1>1 DEF TableMatchesLog, Open
  <2>1. i \notin torn /\ (state[i] = 1 <=> Open(log[i]))
    <3>1. Between(i) = FALSE
      BY <1>1 DEF Between
    <3>. QED
      BY <1>1, <3>1 DEF TableMatchesLog, Open
  <2>2. CASE i = ev.id
    <3>1. Between(i)' = TRUE
      BY <1>1, <2>2 DEF Between
    <3>2. state'[i] = After(ev.cmd) /\ state[i] = Before(ev.cmd)
      BY <1>1, <1>2, <2>2
    <3>3. state'[i] = 1 <=> ~ (state[i] = 1)
      BY <3>2 DEF Before, After
    <3>. QED
      BY <2>1, <3>1, <3>3 DEF Open
  <2>3. CASE i # ev.id
    <3>1. Between(i)' = FALSE
      BY <1>1, <2>3 DEF Between
    <3>2. state'[i] = state[i]
      BY <1>1, <1>2, <2>3
    <3>. QED
      BY <2>1, <3>1, <3>2 DEF Open
  <2>. QED
    BY <2>2, <2>3
<1>5. LogAlternates'
  BY <1>1 DEF LogAlternates
<1>. QED
  BY <1>3, <1>4, <1>5

LEMMA InsertMatches ==
    ASSUME TablesInv, Insert
    PROVE  Pending' /\ TableMatchesLog' /\ LogAlternates'
<1> USE DEF TablesInv
<1> DEFINE e == [what |-> ev.cmd, at |-> now]
           new == [log EXCEPT ![ev.id] = Append(log[ev.id], e)]
<1>1. /\ ev.id \in Ids /\ ev' = ev /\ state' = state /\ now' = now /\ rpc = "insert"
      /\ torn' = torn \/ torn' = torn \cup {ev.id}
      /\ log' = log \/ log' = new
      /\ ev.id \notin torn' => log' = new
      /\ rpc' \in {"exit", "read"}
  BY EventTypes DEF Insert, AppendLog, TypeOK, ThreadsOK, reader
<1>2. log \in [Ids -> Seq(Entries)] /\ now \in Nat
  BY TimeTypes DEF TypeOK, TablesOK
<1>3. \A i \in Ids : i # ev.id => log'[i] = log[i]
  BY <1>1, <1>2
<1>4. ev.id \notin torn' =>
          /\ log'[ev.id] = Append(log[ev.id], e)
          /\ Len(log'[ev.id]) = Len(log[ev.id]) + 1
          /\ log'[ev.id][Len(log[ev.id]) + 1] = e
          /\ \A k \in 1 .. Len(log[ev.id]) : log'[ev.id][k] = log[ev.id][k]
  <2> SUFFICES ASSUME ev.id \notin torn'
               PROVE  /\ log'[ev.id] = Append(log[ev.id], e)
                      /\ Len(log'[ev.id]) = Len(log[ev.id]) + 1
                      /\ log'[ev.id][Len(log[ev.id]) + 1] = e
                      /\ \A k \in 1 .. Len(log[ev.id]) : log'[ev.id][k] = log[ev.id][k]
    OBVIOUS
  <2>1. log'[ev.id] = Append(log[ev.id], e) /\ log[ev.id] \in Seq(Entries)
    BY <1>1, <1>2
  <2>2. Len(log'[ev.id]) = Len(log[ev.id]) + 1
    BY <2>1
  <2>3. log'[ev.id][Len(log[ev.id]) + 1] = e
    BY <2>1
  <2>4. ASSUME NEW k \in 1 .. Len(log[ev.id]) PROVE log'[ev.id][k] = log[ev.id][k]
    BY <2>1
  <2>. QED
    BY <2>1, <2>2, <2>3, <2>4
<1>5. ev.id \notin torn' => ev.id \notin torn /\ Between(ev.id) = TRUE /\ state[ev.id] = After(ev.cmd)
  BY <1>1 DEF Between, Pending
<1>6. ev.id \notin torn' => (ev.cmd \in Arrival <=> ~ Open(log[ev.id]))
  <2>1. ev.id \notin torn' => (state[ev.id] = 1 <=> ~ Open(log[ev.id]))
    BY <1>1, <1>5 DEF TableMatchesLog, Open
  <2>2. After(ev.cmd) = 1 <=> ev.cmd \in Arrival
    BY DEF After, Before
  <2>. QED
    BY <1>5, <2>1, <2>2
<1>7. Pending'
  <2>1. ASSUME NEW i \in Ids, NEW k \in 1 .. Len(log'[i])
        PROVE  log'[i][k].at <= now
    <3>1. CASE log'[i] = log[i]
      BY <3>1 DEF Pending
    <3>2. CASE log'[i] # log[i]
      <4>1. i = ev.id /\ log'[i] = Append(log[i], e)
        BY <3>2, <1>1, <1>2
      <4>2. k = Len(log[i]) + 1 \/ k \in 1 .. Len(log[i])
        BY <4>1, <1>2
      <4>3. k \in 1 .. Len(log[i]) => log'[i][k] = log[i][k]
        BY <4>1, <1>2
      <4>4. k = Len(log[i]) + 1 => log'[i][k] = e
        BY <4>1, <1>2
      <4>. QED
        BY <4>2, <4>3, <4>4, <1>2 DEF Pending
    <3>. QED
      BY <3>1, <3>2
  <2>. QED
    BY <1>1, <2>1 DEF Pending
<1>8. TableMatchesLog'
  <2> SUFFICES ASSUME NEW i \in Ids \ torn'
               PROVE  state[i] = 1 <=> (Open(log'[i]) # Between(i)')
    BY <1>1 DEF TableMatchesLog, Open
  <2>1. Between(i)' = FALSE
    BY <1>1 DEF Between
  <2>2. CASE i = ev.id
    <3>1. Open(log'[i]) <=> ev.cmd \in Arrival
      <4>1. log'[i] # <<>> /\ log'[i][Len(log'[i])] = e
        BY <1>4, <1>2, <2>2
      <4>. QED
        BY <4>1 DEF Open, Last
    <3>2. state[i] = 1 <=> ev.cmd \in Arrival
      BY <1>5, <2>2 DEF After, Before
    <3>. QED
      BY <2>1, <3>1, <3>2 DEF Open
  <2>3. CASE i # ev.id
    <3>1. Between(i) = FALSE /\ i \notin torn /\ log'[i] = log[i]
      BY <1>1, <1>3, <2>3 DEF Between
    <3>. QED
      BY <2>1, <3>1 DEF TableMatchesLog, Open
  <2>. QED
    BY <2>2, <2>3
<1>9. LogAlternates'
  <2> SUFFICES ASSUME NEW i \in Ids \ torn', NEW k \in 1 .. Len(log'[i])
               PROVE  /\ log'[i][k].what \in Arrival <=> k % 2 = 1
                      /\ k > 1 => log'[i][k - 1].at <= log'[i][k].at
    BY DEF LogAlternates
  <2>0. i \notin torn
    BY <1>1
  <2>1. CASE i # ev.id
    <3>1. log'[i] = log[i]
      BY <1>3, <2>1
    <3>. QED
      BY <2>0, <3>1 DEF LogAlternates
  <2>2. CASE i = ev.id
    <3>1. Len(log[i]) \in Nat /\ (k = Len(log[i]) + 1 \/ k \in 1 .. Len(log[i]))
      BY <1>2, <1>4, <2>2
    <3>2. CASE k \in 1 .. Len(log[i])
      <4>1. log'[i][k] = log[i][k] /\ (k > 1 => log'[i][k - 1] = log[i][k - 1])
        BY <1>4, <2>2, <3>1, <3>2
      <4>. QED
        BY <2>0, <3>2, <4>1 DEF LogAlternates
    <3>3. CASE k = Len(log[i]) + 1
      <4>1. log'[i][k] = e /\ (k > 1 => log'[i][k - 1] = log[i][k - 1])
        BY <1>4, <2>2, <3>1, <3>3
      <4>2. ev.cmd \in Arrival <=> k % 2 = 1
        <5>1. ev.cmd \in Arrival <=> ~ (Len(log[i]) % 2 = 1)
          BY <1>6, <2>2, <2>0, OpenIsOdd
        <5>. QED
          <6>1. k % 2 = 1 <=> ~ (Len(log[i]) % 2 = 1)
            BY <3>1, <3>3, NextParity
          <6>. QED
            BY <5>1, <6>1
      <4>3. k > 1 => log[i][k - 1].at <= now
        BY <3>1, <3>3 DEF Pending
      <4>. QED
        BY <4>1, <4>2, <4>3
    <3>. QED
      BY <3>1, <3>2, <3>3
  <2>. QED
    BY <2>1, <2>2
<1>. QED
  BY <1>7, <1>8, <1>9

LEMMA TablesStep == TablesInv /\ [Next]_vars => TablesInv'
<1> SUFFICES ASSUME TablesInv, [Next]_vars PROVE Pending' /\ TableMatchesLog' /\ LogAlternates'
  BY TypeStep DEF TablesInv
<1>0. /\ TypeOK /\ Pending /\ TableMatchesLog /\ LogAlternates /\ TypeOK'
      /\ now \in Times /\ now' \in Times /\ now \in Nat /\ now' \in Nat
  BY TypeStep, TimeTypes DEF TablesInv, TypeOK, TablesOK
<1>1. CASE Tick
  <2>1. /\ UNCHANGED <<state, log>> /\ torn \subseteq torn' /\ now <= now'
        /\ rpc' \in {"find", "calc", "update", "insert"} => ev' = ev /\ rpc' = rpc
        /\ rpc = "insert" /\ rpc' # "insert" => ev.id \in torn'
    BY <1>0, <1>1 DEF Tick, tables, reader
  <2>. QED
    BY <1>0, <2>1, PendingFrame, MatchFrame
<1>2. CASE ServerSends
  <2>1. /\ UNCHANGED <<state, log>> /\ torn \subseteq torn' /\ now <= now'
        /\ rpc' \in {"find", "calc", "update", "insert"} => ev' = ev /\ rpc' = rpc
        /\ rpc = "insert" /\ rpc' # "insert" => ev.id \in torn'
    BY <1>0, <1>2 DEF ServerSends, tables, reader
  <2>. QED
    BY <1>0, <2>1, PendingFrame, MatchFrame
<1>3. CASE ServerCloses
  <2>1. /\ UNCHANGED <<state, log>> /\ torn \subseteq torn' /\ now <= now'
        /\ rpc' \in {"find", "calc", "update", "insert"} => ev' = ev /\ rpc' = rpc
        /\ rpc = "insert" /\ rpc' # "insert" => ev.id \in torn'
    BY <1>0, <1>3 DEF ServerCloses, tables, reader
  <2>. QED
    BY <1>0, <2>1, PendingFrame, MatchFrame
<1>4. CASE Starts
  <2>1. /\ UNCHANGED <<state, log>> /\ torn \subseteq torn' /\ now <= now'
        /\ rpc' \in {"find", "calc", "update", "insert"} => ev' = ev /\ rpc' = rpc
        /\ rpc = "insert" /\ rpc' # "insert" => ev.id \in torn'
    BY <1>0, <1>4 DEF Starts, tables, reader
  <2>. QED
    BY <1>0, <2>1, PendingFrame, MatchFrame
<1>5. CASE Dies
  <2>1. /\ UNCHANGED <<state, log>> /\ torn \subseteq torn' /\ now <= now'
        /\ rpc' \in {"find", "calc", "update", "insert"} => ev' = ev /\ rpc' = rpc
        /\ rpc = "insert" /\ rpc' # "insert" => ev.id \in torn'
    BY <1>0, <1>5 DEF Dies, tables, reader, Down
  <2>. QED
    BY <1>0, <2>1, PendingFrame, MatchFrame
<1>6. CASE Exits
  <2>1. /\ UNCHANGED <<state, log>> /\ torn \subseteq torn' /\ now <= now'
        /\ rpc' \in {"find", "calc", "update", "insert"} => ev' = ev /\ rpc' = rpc
        /\ rpc = "insert" /\ rpc' # "insert" => ev.id \in torn'
    BY <1>0, <1>6 DEF Exits, tables, reader, Down
  <2>. QED
    BY <1>0, <2>1, PendingFrame, MatchFrame
<1>7. CASE Quit
  <2>1. /\ UNCHANGED <<state, log>> /\ torn \subseteq torn' /\ now <= now'
        /\ rpc' \in {"find", "calc", "update", "insert"} => ev' = ev /\ rpc' = rpc
        /\ rpc = "insert" /\ rpc' # "insert" => ev.id \in torn'
    BY <1>0, <1>7 DEF Quit, tables, reader
  <2>. QED
    BY <1>0, <2>1, PendingFrame, MatchFrame
<1>8. CASE ConsoleNotices
  <2>1. /\ UNCHANGED <<state, log>> /\ torn \subseteq torn' /\ now <= now'
        /\ rpc' \in {"find", "calc", "update", "insert"} => ev' = ev /\ rpc' = rpc
        /\ rpc = "insert" /\ rpc' # "insert" => ev.id \in torn'
    BY <1>0, <1>8 DEF ConsoleNotices, tables, reader
  <2>. QED
    BY <1>0, <2>1, PendingFrame, MatchFrame
<1>9. CASE Connects
  <2>1. /\ UNCHANGED <<state, log>> /\ torn \subseteq torn' /\ now <= now'
        /\ rpc' \in {"find", "calc", "update", "insert"} => ev' = ev /\ rpc' = rpc
        /\ rpc = "insert" /\ rpc' # "insert" => ev.id \in torn'
    BY <1>0, <1>9 DEF Connects, tables, reader
  <2>. QED
    BY <1>0, <2>1, PendingFrame, MatchFrame
<1>10. CASE EnterRead
  <2>1. /\ UNCHANGED <<state, log>> /\ torn \subseteq torn' /\ now <= now'
        /\ rpc' \in {"find", "calc", "update", "insert"} => ev' = ev /\ rpc' = rpc
        /\ rpc = "insert" /\ rpc' # "insert" => ev.id \in torn'
    BY <1>0, <1>10 DEF EnterRead, tables, reader
  <2>. QED
    BY <1>0, <2>1, PendingFrame, MatchFrame
<1>11. CASE ReadLine
  <2>1. /\ UNCHANGED <<state, log>> /\ torn \subseteq torn' /\ now <= now'
        /\ rpc' \in {"find", "calc", "update", "insert"} => ev' = ev /\ rpc' = rpc
        /\ rpc = "insert" /\ rpc' # "insert" => ev.id \in torn'
    BY <1>0, <1>11 DEF ReadLine, tables, reader
  <2>. QED
    BY <1>0, <2>1, PendingFrame, MatchFrame
<1>12. CASE ReadFails
  <2>1. /\ UNCHANGED <<state, log>> /\ torn \subseteq torn' /\ now <= now'
        /\ rpc' \in {"find", "calc", "update", "insert"} => ev' = ev /\ rpc' = rpc
        /\ rpc = "insert" /\ rpc' # "insert" => ev.id \in torn'
    BY <1>0, <1>12 DEF ReadFails, tables, reader
  <2>. QED
    BY <1>0, <2>1, PendingFrame, MatchFrame
<1>13. CASE GetDb
  <2>1. /\ UNCHANGED <<state, log>> /\ torn \subseteq torn' /\ now <= now'
        /\ rpc' \in {"find", "calc", "update", "insert"} => ev' = ev /\ rpc' = rpc
        /\ rpc = "insert" /\ rpc' # "insert" => ev.id \in torn'
    BY <1>0, <1>13 DEF GetDb, tables, reader
  <2>. QED
    BY <1>0, <2>1, PendingFrame, MatchFrame
<1>14. CASE Select
  <2>1. /\ UNCHANGED <<state, log, torn, now>> /\ ev' = ev
        /\ rpc # "insert" /\ rpc' # "insert"
    BY <1>14 DEF Select, tables, reader
  <2>2. Pending'
    <3>1. /\ rpc' \in {"find", "calc", "update"} => state[ev.id] = Before(ev.cmd)
          /\ rpc' \in {"calc", "update"} => ev.cmd # "LEAVE"
      BY <1>14 DEF Select
    <3>. QED
      BY <1>0, <2>1, <3>1 DEF Pending, Enters
  <2>. QED
    BY <1>0, <2>1, <2>2, MatchFrame
<1>15. CASE Find
  <2>1. /\ UNCHANGED <<state, log, torn, now>> /\ ev' = ev
        /\ rpc # "insert" /\ rpc' # "insert"
    BY <1>15 DEF Find, tables, reader
  <2>2. Pending'
    <3>1. /\ state[ev.id] = Before(ev.cmd)
          /\ rpc' \in {"calc", "update"} => Enters(ev.id) # {}
      BY <1>0, <1>15 DEF Find, Pending, TypeOK, ThreadsOK
    <3>. QED
      BY <1>0, <2>1, <3>1 DEF Pending, Enters
  <2>. QED
    BY <1>0, <2>1, <2>2, MatchFrame
<1>16. CASE Calc
  <2>1. /\ UNCHANGED <<state, log, torn, now>> /\ ev' = ev
        /\ rpc # "insert" /\ rpc' # "insert"
    BY <1>16 DEF Calc, tables, reader
  <2>2. Pending'
    <3>1. /\ state[ev.id] = Before(ev.cmd)
          /\ rpc' \in {"calc", "update"} => Enters(ev.id) # {}
      BY <1>0, <1>16 DEF Calc, Pending, TypeOK, ThreadsOK
    <3>. QED
      BY <1>0, <2>1, <3>1 DEF Pending, Enters
  <2>. QED
    BY <1>0, <2>1, <2>2, MatchFrame
<1>17. CASE Update
  BY <1>17, UpdateMatches
<1>18. CASE Insert
  BY <1>18, InsertMatches
<1>19. CASE SendExit
  <2>1. /\ UNCHANGED <<state, log>> /\ torn \subseteq torn' /\ now <= now'
        /\ rpc' \in {"find", "calc", "update", "insert"} => ev' = ev /\ rpc' = rpc
        /\ rpc = "insert" /\ rpc' # "insert" => ev.id \in torn'
    BY <1>0, <1>19 DEF SendExit, tables, reader
  <2>. QED
    BY <1>0, <2>1, PendingFrame, MatchFrame
<1>20. CASE UNCHANGED vars
  <2>1. /\ UNCHANGED <<state, log, torn, now, rpc, ev>>
    BY <1>20 DEF vars, tables, reader
  <2>. QED
    BY <1>0, <2>1, PendingFrame, MatchFrame
<1>. QED
  BY <1>1, <1>2, <1>3, <1>4, <1>5, <1>6, <1>7, <1>8, <1>9, <1>10, <1>11, <1>12, <1>13, <1>14, <1>15, <1>16, <1>17, <1>18, <1>19, <1>20 DEF Next, Receiver

LEMMA TablesInvariant == Spec => []TablesInv
<1>1. Init => TablesInv
  <2>1. Init => TypeOK
    BY TypeInit
  <2>2. Init => Pending /\ TableMatchesLog /\ LogAlternates
    BY DEF Init, Pending, TableMatchesLog, LogAlternates, Open, Between
  <2>. QED
    BY <2>1, <2>2 DEF TablesInv
<1>2. TablesInv /\ [Next]_vars => TablesInv'
  BY TablesStep
<1>. QED
  BY <1>1, <1>2, PTL DEF Spec

\* However events are repeated, lost and joined, and wherever the process dies: a state
\* row disagrees with the log only for an id whose event was torn.
THEOREM TablesMatch == Spec => [](TableMatchesLog /\ Pending)
<1>1. TablesInv => TableMatchesLog /\ Pending
  BY DEF TablesInv
<1>. QED
  BY <1>1, TablesInvariant, PTL

\* Until its entry is written, an event in hand is the news its row was read for.
THEOREM EventInHand == Spec => []Pending
<1>1. TablesInv => Pending
  BY DEF TablesInv
<1>. QED
  BY <1>1, TablesInvariant, PTL

\* Entries of an undisturbed id come and go in turns, in order of time.
THEOREM LogsAlternate == Spec => []LogAlternates
<1>1. TablesInv => LogAlternates
  BY DEF TablesInv
<1>. QED
  BY <1>1, TablesInvariant, PTL

-----------------------------------------------------------------------------
(* The car that is locked in. *)

\* Only a LEAVE clears the row of a car, and it needs an ENTER entry.
LEMMA LockedStep ==
    ASSUME TablesInv, [Next]_vars, NEW c \in Cars, Locked(c)
    PROVE  Locked(c)'
<1> USE DEF TablesInv, Locked
<1>1. c \in Ids /\ c \notin Spots /\ state \in [Ids -> {0, 1}] /\ log \in [Ids -> Seq(Entries)]
  BY GatewayAssumption DEF Ids, TypeOK, TablesOK
<1>2. ASSUME state' = state, log' = log, rpc' = "insert" => rpc = "insert" /\ ev' = ev
      PROVE  Locked(c)'
  <2>1. Enters(c)' = Enters(c)
    BY <1>2 DEF Enters
  <2>2. ~ Between(c)'
    BY <1>2 DEF Between
  <2>. QED
    BY <1>2, <2>1, <2>2
<1>3. CASE Update
  <2>1. ev.id # c
    <3> SUFFICES ASSUME ev.id = c PROVE FALSE
      OBVIOUS
    <3>1. rpc = "update" /\ ev \in Events
      BY <1>3 DEF Update, TypeOK, ThreadsOK
    <3>2. ev.cmd \in {"ENTER", "LEAVE"}
      BY <1>1, <3>1, EventTypes
    <3>3. ev.cmd # "LEAVE"
      BY <3>1 DEF Pending
    <3>4. state[c] = Before(ev.cmd)
      BY <3>1 DEF Pending
    <3>. QED
      BY <3>2, <3>3, <3>4 DEF Before, Arrival
  <2>2. log' = log /\ ev' = ev /\ state'[c] = state[c]
    BY <1>1, <1>3, <2>1 DEF Update, SetState, reader
  <2>3. Enters(c)' = Enters(c)
    BY <2>2 DEF Enters
  <2>4. ~ Between(c)'
    BY <2>1, <2>2 DEF Between
  <2>. QED
    BY <2>2, <2>3, <2>4
<1>4. CASE Insert
  <2>1. ev.id # c /\ rpc' # "insert" /\ state' = state
    BY <1>4 DEF Insert, Between
  <2>2. log'[c] = log[c]
    BY <1>1, <1>4, <2>1 DEF Insert, AppendLog
  <2>3. Enters(c)' = Enters(c)
    BY <2>2 DEF Enters
  <2>4. ~ Between(c)'
    BY <2>1 DEF Between
  <2>. QED
    BY <2>1, <2>3, <2>4
<1>5. CASE Tick \/ ServerSends \/ ServerCloses \/ Starts \/ Quit \/ ConsoleNotices
  BY <1>2, <1>5 DEF Tick, ServerSends, ServerCloses, Starts, Quit, ConsoleNotices, tables, reader
<1>6. CASE Dies \/ Exits
  BY <1>2, <1>6 DEF Dies, Exits, Down, tables
<1>7. CASE Connects \/ EnterRead \/ ReadLine \/ ReadFails \/ GetDb
  BY <1>2, <1>7 DEF Connects, EnterRead, ReadLine, ReadFails, GetDb, tables, reader
<1>8. CASE Select \/ Find \/ Calc \/ SendExit
  BY <1>2, <1>8 DEF Select, Find, Calc, SendExit, tables, reader
<1>9. CASE UNCHANGED vars
  BY <1>2, <1>9 DEF vars, tables, reader
<1>. QED
  BY <1>3, <1>4, <1>5, <1>6, <1>7, <1>8, <1>9 DEF Next, Receiver

\* A car that is inside without an ENTER entry stays inside, whatever is sent and
\* however often the gateway is restarted.
THEOREM NobodyLeavesWithoutEntry == Spec => NoWayOut
<1>1. TablesInv /\ [Next]_vars => [\A c \in Cars : Locked(c) => Locked(c)']_vars
  BY LockedStep
<1>. QED
  BY <1>1, TablesInvariant, PTL DEF Spec, NoWayOut

-----------------------------------------------------------------------------
(* The two computations of the fee agree, for every stay. *)

\* The display at the gate and the web page charge the same for a stay whose
\* product fits the int of calc_fee: the day's flat fee of car_info.php never
\* differs from the cap calc_fee reaches after forty minutes.
THEOREM FeesAgree ==
    ASSUME NEW sec \in Int
    PROVE  CalcFee(sec) = WebFee(sec)
<1>1. CASE sec <= 0
  BY <1>1, SMT DEF CalcFee, WebFee, Cap, Rate, Day
<1>2. CASE sec > 0 /\ sec < Day
  BY <1>2, SMT DEF CalcFee, WebFee, Cap, Rate, Day
<1>3. CASE sec >= Day
  <2>1. sec \div 60 >= 1440
    BY <1>3, SMT DEF Day
  <2>. QED
    BY <1>3, <2>1, SMT DEF CalcFee, WebFee, Cap, Rate, Day
<1>. QED
  BY <1>1, <1>2, <1>3, SMT DEF Day

\* As long as the product is defined it is an int, so that the fee is the one
\* the C code computes: 0 .. 40000.
THEOREM FeeBounded ==
    ASSUME NEW sec \in Int, Defined(sec)
    PROVE  /\ sec > 0 => (sec \div 60) * Rate <= IntMax
           /\ CalcFee(sec) \in 0 .. Cap
<1>1. IntMax \div Rate = 2147483
  BY SMT DEF IntMax, Rate
<1>2. sec < 60 * 2147484
  BY <1>1, SMT DEF Defined
<1>3. sec > 0 => sec \div 60 \in Int /\ 0 <= sec \div 60 /\ sec \div 60 < 2147484
  BY <1>2, SMT
<1>4. sec > 0 => (sec \div 60) * 1000 <= 2147483000 /\ 0 <= (sec \div 60) * 1000
  BY <1>3, SMT
<1>5. sec > 0 => (sec \div 60) * Rate <= IntMax
  BY <1>4, SMT DEF Rate, IntMax
<1>6. CalcFee(sec) \in 0 .. Cap
  <2>1. CASE sec <= 0
    BY <2>1, SMT DEF CalcFee, Cap
  <2>2. CASE sec > 0
    <3> DEFINE w == (sec \div 60) * 1000
    <3>1. w \in Int /\ 0 <= w
      BY <1>3, <1>4, <2>2
    <3>2. CalcFee(sec) = IF w > Cap THEN Cap ELSE w
      BY <2>2 DEF CalcFee, Rate
    <3>3. Cap \in Int /\ 0 <= Cap
      BY DEF Cap
    <3> HIDE DEF w
    <3>. QED
      BY <3>1, <3>2, <3>3
  <2>. QED
    BY <2>1, <2>2, SMT
<1>. QED
  BY <1>5, <1>6, SMT

\* Staying longer never costs less.
THEOREM FeeMonotone ==
    ASSUME NEW s \in Int, NEW t \in Int, s <= t
    PROVE  CalcFee(s) <= CalcFee(t)
<1>1. s \div 60 <= t \div 60
  BY SMT
<1>2. t > 0 => t \div 60 >= 0
  BY SMT
<1>. QED
  BY <1>1, <1>2, SMT DEF CalcFee, Cap, Rate

-----------------------------------------------------------------------------
(* The fee at the gate and the fee listed on the web. *)

\* Entries are appended in the order of the clock, and those of a car come from
\* ENTER and LEAVE.
LogOrdered ==
    \A i \in Ids : \A k \in 1 .. Len(log[i]) : \A j \in 1 .. k : log[i][j].at <= log[i][k].at

CarEntries ==
    \A c \in Cars : \A k \in 1 .. Len(log[c]) : log[c][k].what \in {"ENTER", "LEAVE"}

\* A LEAVE in hand: its row is the last entry until the LEAVE adds its own.
HandsOn == {"calc", "update", "insert", "exit"}

StayInHand ==
    rpc \in HandsOn /\ ev.cmd = "LEAVE" /\ ev.id \notin torn /\ enter # Clobbered =>
        LET s == log[ev.id]
            n == Len(s)
        IN  /\ rpc # "exit" => n % 2 = 1 /\ enter = s[n].at
            /\ rpc = "exit" => n > 1 /\ n % 2 # 1 /\ enter = s[n - 1].at /\ fee.at <= s[n].at
            /\ rpc # "calc" => fee.amount = CalcFee(fee.at - enter) /\ fee.at <= now

\* A bill is for the stay that its log entry ends.
BillOfStay ==
    \A c \in Cars \ torn :
        LET b == bill[c] IN
        b.entry > 0 /\ b.row # Clobbered =>
            /\ b.entry \in 2 .. Len(log[c]) /\ b.entry % 2 # 1
            /\ b.row = log[c][b.entry - 1].at
            /\ b.amount = CalcFee(b.at - b.row)
            /\ b.at <= log[c][b.entry].at

Stays == LogOrdered /\ CarEntries /\ StayInHand /\ BillOfStay

\* Steps that write no log and no bill, and take no LEAVE past Find.
LEMMA StaysFrame ==
    ASSUME TypeOK, Stays, UNCHANGED <<log, bill>>, torn \subseteq torn', now' \in Times, now <= now',
           rpc' \in HandsOn /\ ev'.cmd = "LEAVE" =>
               /\ UNCHANGED <<ev, enter, fee>>
               /\ rpc' = rpc \/ (rpc = "update" /\ rpc' = "insert")
    PROVE  Stays'
<1>1. LogOrdered' /\ CarEntries'
  BY DEF Stays, LogOrdered, CarEntries
<1>2. BillOfStay'
  BY DEF Stays, BillOfStay
<1>3. StayInHand'
  <2> SUFFICES ASSUME rpc' \in HandsOn, ev'.cmd = "LEAVE", ev'.id \notin torn', enter' # Clobbered
               PROVE  StayInHand'
    BY DEF StayInHand
  <2>1. /\ UNCHANGED <<ev, enter, fee, log>> /\ ev.id \notin torn
        /\ rpc \in HandsOn /\ (rpc = "exit" <=> rpc' = "exit") /\ (rpc = "calc" <=> rpc' = "calc")
    BY DEF HandsOn
  <2>2. fee.at <= now => fee.at <= now'
    BY TimeTypes DEF TypeOK, TablesOK, FeeOK
  <2>. QED
    BY <2>1, <2>2 DEF Stays, StayInHand
<1>. QED
  BY <1>1, <1>2, <1>3 DEF Stays

\* The row LEAVE finds is the ENTER its car came in by.
LEMMA FindStays ==
    ASSUME TablesInv, Stays, Find
    PROVE  Stays'
<1>1. /\ UNCHANGED <<log, bill, torn, now, ev, fee>> /\ rpc = "find"
      /\ rpc' \in {"ended", "read", "calc"}
      /\ rpc' = "calc" => enter' \in LastEnter(ev.id) \cup {Clobbered}
  BY DEF Find, tables
<1>2. ev \in Events /\ ev.cmd = "LEAVE" /\ ev.id \in Cars /\ ev.id \in Ids
  BY <1>1, EventTypes DEF TablesInv, TypeOK, ThreadsOK
<1>3. ASSUME rpc' = "calc", ev.id \notin torn, enter' # Clobbered
      PROVE  Len(log[ev.id]) % 2 = 1 /\ enter' = log[ev.id][Len(log[ev.id])].at
  <2> DEFINE s == log[ev.id]
             n == Len(s)
  <2>1. Open(s)
    <3>1. state[ev.id] = 1
      BY <1>1, <1>2 DEF TablesInv, Pending, Before, Arrival
    <3>2. Between(ev.id) = FALSE
      BY <1>1 DEF Between
    <3>. QED
      BY <1>2, <1>3, <3>1, <3>2 DEF TablesInv, TableMatchesLog, Open
  <2>2. s \in Seq(Entries) /\ n \in 1 .. n
    BY <1>2, <2>1 DEF TablesInv, TypeOK, TablesOK, Open
  <2>3. \A k \in 1 .. n : s[k].at \in Nat
    <3>1. \A k \in 1 .. n : s[k] \in Entries
      BY <2>2
    <3>. QED
      BY <3>1, TimeTypes DEF Entries
  <2>4. s[n].what = "ENTER"
    <3>1. s[n].what \in Arrival
      BY <2>1 DEF Open, Last
    <3>2. s[n].what \in {"ENTER", "LEAVE"}
      BY <1>2, <2>2 DEF Stays, CarEntries
    <3>. QED
      BY <3>1, <3>2 DEF Arrival
  <2>5. s[n].at \in Enters(ev.id)
    BY <2>2, <2>4 DEF Enters
  <2>6. PICK t \in Enters(ev.id) : t = enter' /\ s[n].at <= t
    BY <1>1, <1>3, <2>5 DEF LastEnter
  <2>7. PICK k \in 1 .. n : t = s[k].at
    BY <2>6 DEF Enters
  <2>8. s[k].at <= s[n].at
    BY <1>2, <2>2, <2>7 DEF Stays, LogOrdered
  <2>9. enter' = s[n].at
    BY <2>2, <2>3, <2>6, <2>7, <2>8
  <2>. QED
    BY <1>2, <1>3, <2>1, <2>9, OpenIsOdd DEF TablesInv
<1>4. LogOrdered' /\ CarEntries' /\ BillOfStay'
  BY <1>1 DEF Stays, LogOrdered, CarEntries, BillOfStay
<1>5. StayInHand'
  BY <1>1, <1>2, <1>3 DEF StayInHand, HandsOn
<1>. QED
  BY <1>4, <1>5 DEF Stays

LEMMA CalcStays ==
    ASSUME TablesInv, Stays, Calc
    PROVE  Stays'
<1>1. /\ UNCHANGED <<log, bill, torn, now, ev, enter>> /\ rpc = "calc" /\ rpc' = "update"
      /\ enter # Clobbered => fee'.amount = CalcFee(now - enter)
      /\ fee'.at = now
  BY DEF Calc, tables
<1>2. LogOrdered' /\ CarEntries' /\ BillOfStay'
  BY <1>1 DEF Stays, LogOrdered, CarEntries, BillOfStay
<1>3. now <= now
  BY TimeTypes DEF TablesInv, TypeOK, TablesOK
<1>4. StayInHand'
  BY <1>1, <1>3 DEF Stays, StayInHand, HandsOn
<1>. QED
  BY <1>2, <1>4 DEF Stays

LEMMA SendExitStays ==
    ASSUME TablesInv, Stays, SendExit
    PROVE  Stays'
<1>1. /\ UNCHANGED <<log, torn, now, ev, enter, fee>> /\ rpc = "exit" /\ rpc' = "read"
      /\ bill' = [bill EXCEPT ![ev.id] = [amount |-> fee.amount, at |-> fee.at,
                                          entry |-> Len(log[ev.id]), row |-> enter]]
  BY DEF SendExit, tables, reader
<1>2. ev.cmd = "LEAVE" /\ ev.id \in Cars /\ ev.id \in Ids
  BY <1>1, EventTypes DEF TablesInv, TypeOK, ThreadsOK
<1>3. bill \in [Cars -> [amount : Int, at : Times, entry : Nat, row : Times \cup {Clobbered}]]
  BY DEF TablesInv, TypeOK, FeeOK
<1>4. LogOrdered' /\ CarEntries' /\ StayInHand'
  BY <1>1 DEF Stays, LogOrdered, CarEntries, StayInHand, HandsOn
<1>5. BillOfStay'
  <2> SUFFICES ASSUME NEW c \in Cars \ torn, bill'[c].entry > 0, bill'[c].row # Clobbered
               PROVE  /\ bill'[c].entry \in 2 .. Len(log[c]) /\ bill'[c].entry % 2 # 1
                      /\ bill'[c].row = log[c][bill'[c].entry - 1].at
                      /\ bill'[c].amount = CalcFee(bill'[c].at - bill'[c].row)
                      /\ bill'[c].at <= log[c][bill'[c].entry].at
    BY <1>1 DEF BillOfStay
  <2>1. CASE c = ev.id
    <3>1. /\ bill'[c].entry = Len(log[c]) /\ bill'[c].row = enter
          /\ bill'[c].amount = fee.amount /\ bill'[c].at = fee.at
      BY <1>1, <1>3, <2>1
    <3>2. Len(log[c]) \in Nat
      BY <1>2, <2>1, SequenceTypes DEF TablesInv, TypeOK
    <3>3. /\ Len(log[c]) > 1 /\ Len(log[c]) % 2 # 1 /\ enter = log[c][Len(log[c]) - 1].at
          /\ fee.at <= log[c][Len(log[c])].at /\ fee.amount = CalcFee(fee.at - enter)
      BY <1>1, <1>2, <2>1, <3>1 DEF Stays, StayInHand, HandsOn
    <3>4. Len(log[c]) \in 2 .. Len(log[c])
      BY <3>2, <3>3
    <3>. QED
      BY <3>1, <3>3, <3>4
  <2>2. CASE c # ev.id
    <3>1. bill'[c] = bill[c]
      BY <1>1, <1>3, <2>2
    <3>. QED
      BY <3>1 DEF Stays, BillOfStay
  <2>. QED
    BY <2>1, <2>2
<1>. QED
  BY <1>4, <1>5 DEF Stays

\* The entry of the LEAVE follows its ENTER, and no entry written before is touched.
LEMMA InsertStays ==
    ASSUME TablesInv, Stays, Insert
    PROVE  Stays'
<1> DEFINE e == [what |-> ev.cmd, at |-> now]
           s == log[ev.id]
<1>1. /\ UNCHANGED <<bill, now, ev, enter, fee>> /\ rpc = "insert" /\ torn \subseteq torn'
      /\ log' = log \/ log' = [log EXCEPT ![ev.id] = Append(s, e)]
      /\ ev.id \notin torn' => log' = [log EXCEPT ![ev.id] = Append(s, e)]
      /\ rpc' = IF ev.cmd = "LEAVE" THEN "exit" ELSE "read"
  BY DEF Insert, AppendLog, reader
<1>2. /\ ev \in Events /\ ev.id \in Ids /\ ev.cmd \in {"IN", "OUT", "ENTER", "LEAVE"}
      /\ ev.id \in Cars => ev.cmd \in {"ENTER", "LEAVE"}
  BY <1>1, EventTypes, GatewayAssumption DEF TablesInv, TypeOK, ThreadsOK
<1>3. log \in [Ids -> Seq(Entries)] /\ now \in Nat /\ Cars \subseteq Ids
  BY TimeTypes DEF TablesInv, TypeOK, TablesOK, Ids
<1>4. ASSUME NEW i \in Ids
      PROVE  /\ Len(log[i]) \in Nat
             /\ \A k \in 1 .. Len(log[i]) : log'[i][k] = log[i][k] /\ log[i][k].at <= now
             /\ Len(log'[i]) = Len(log[i])
                \/ (i = ev.id /\ Len(log'[i]) = Len(log[i]) + 1 /\ log'[i][Len(log[i]) + 1] = e)
             /\ i = ev.id /\ i \notin torn' => Len(log'[i]) = Len(log[i]) + 1 /\ log'[i][Len(log[i]) + 1] = e
  <2>1. log[i] \in Seq(Entries) /\ Len(log[i]) \in Nat
    BY <1>3
  <2>2. \A k \in 1 .. Len(log[i]) : log[i][k].at <= now
    BY DEF TablesInv, Pending
  <2>3. CASE log'[i] = log[i] /\ ~ (i = ev.id /\ i \notin torn')
    BY <2>1, <2>2, <2>3
  <2>4. CASE i = ev.id /\ log'[i] = Append(log[i], e)
    <3>1. Len(log'[i]) = Len(log[i]) + 1 /\ log'[i][Len(log[i]) + 1] = e
      BY <2>1, <2>4
    <3>2. \A k \in 1 .. Len(log[i]) : log'[i][k] = log[i][k]
      BY <2>1, <2>4
    <3>. QED
      BY <2>1, <2>2, <2>4, <3>1, <3>2
  <2>. QED
    BY <1>1, <1>2, <1>3, <2>3, <2>4
<1>5. LogOrdered'
  <2> SUFFICES ASSUME NEW i \in Ids, NEW k \in 1 .. Len(log'[i]), NEW j \in 1 .. k
               PROVE  log'[i][j].at <= log'[i][k].at
    BY DEF LogOrdered
  <2>1. CASE k \in 1 .. Len(log[i])
    <3>1. j \in 1 .. Len(log[i]) /\ log[i][j].at <= log[i][k].at
      BY <1>4, <2>1 DEF Stays, LogOrdered
    <3>. QED
      BY <1>4, <2>1, <3>1
  <2>2. CASE k \notin 1 .. Len(log[i])
    <3>1. k = Len(log[i]) + 1 /\ log'[i][k] = e
      BY <1>4, <2>2
    <3>2. CASE j = k
      BY <1>3, <3>1, <3>2
    <3>3. CASE j # k
      <4>1. j \in 1 .. Len(log[i])
        BY <1>4, <3>1, <3>3
      <4>. QED
        BY <1>4, <3>1, <4>1
    <3>. QED
      BY <3>2, <3>3
  <2>. QED
    BY <2>1, <2>2
<1>6. CarEntries'
  <2> SUFFICES ASSUME NEW c \in Cars, NEW k \in 1 .. Len(log'[c])
               PROVE  log'[c][k].what \in {"ENTER", "LEAVE"}
    BY DEF CarEntries
  <2>1. CASE k \in 1 .. Len(log[c])
    BY <1>3, <1>4, <2>1 DEF Stays, CarEntries
  <2>2. CASE k \notin 1 .. Len(log[c])
    <3>1. c = ev.id /\ log'[c][k] = e
      BY <1>3, <1>4, <2>2
    <3>. QED
      BY <1>2, <3>1
  <2>. QED
    BY <2>1, <2>2
<1>7. BillOfStay'
  <2> SUFFICES ASSUME NEW c \in Cars \ torn', bill[c].entry > 0, bill[c].row # Clobbered
               PROVE  /\ bill[c].entry \in 2 .. Len(log'[c]) /\ bill[c].entry % 2 # 1
                      /\ bill[c].row = log'[c][bill[c].entry - 1].at
                      /\ bill[c].amount = CalcFee(bill[c].at - bill[c].row)
                      /\ bill[c].at <= log'[c][bill[c].entry].at
    BY <1>1 DEF BillOfStay
  <2>1. /\ bill[c].entry \in 2 .. Len(log[c]) /\ bill[c].entry % 2 # 1
        /\ bill[c].row = log[c][bill[c].entry - 1].at
        /\ bill[c].amount = CalcFee(bill[c].at - bill[c].row)
        /\ bill[c].at <= log[c][bill[c].entry].at
    BY <1>1 DEF Stays, BillOfStay
  <2>2. c \in Ids /\ Len(log[c]) \in Nat /\ Len(log'[c]) \in Nat /\ Len(log[c]) <= Len(log'[c])
    BY <1>3, <1>4
  <2>3. bill[c].entry \in 1 .. Len(log[c]) /\ bill[c].entry - 1 \in 1 .. Len(log[c])
    BY <2>1, <2>2
  <2>4. bill[c].entry \in 2 .. Len(log'[c])
    BY <2>1, <2>2
  <2>. QED
    BY <1>4, <2>1, <2>2, <2>3, <2>4
<1>8. StayInHand'
  <2> SUFFICES ASSUME rpc' \in HandsOn, ev.cmd = "LEAVE", ev.id \notin torn', enter # Clobbered
               PROVE  StayInHand'
    BY <1>1 DEF StayInHand
  <2>1. /\ Len(s) % 2 = 1 /\ enter = s[Len(s)].at
        /\ fee.amount = CalcFee(fee.at - enter) /\ fee.at <= now
    BY <1>1 DEF Stays, StayInHand, HandsOn
  <2>2. Len(s) \in Nat /\ Len(log'[ev.id]) = Len(s) + 1 /\ log'[ev.id][Len(s) + 1] = e
    BY <1>2, <1>4
  <2>3. Len(s) >= 1 /\ (Len(s) + 1) % 2 # 1
    <3>1. 0 % 2 # 1
      OBVIOUS
    <3>2. Len(s) # 0
      BY <2>1, <3>1
    <3>3. (Len(s) + 1) % 2 = 1 <=> ~ (Len(s) % 2 = 1)
      BY <2>2, NextParity
    <3>4. Len(s) >= 1
      BY <2>2, <3>2
    <3>. QED
      BY <2>1, <3>3, <3>4
  <2>4. log'[ev.id][Len(s)] = s[Len(s)]
    BY <1>2, <1>4, <2>2, <2>3
  <2>5. (Len(s) + 1) - 1 = Len(s) /\ Len(s) + 1 > 1
    BY <2>2, <2>3
  <2>6. rpc' = "exit" /\ log'[ev'.id] = log'[ev.id] /\ Len(log'[ev'.id]) = Len(s) + 1
    BY <1>1, <2>2
  <2>7. Len(log'[ev.id]) > 1 /\ Len(log'[ev.id]) % 2 # 1
    BY <2>2, <2>3, <2>5
  <2>8. enter' = log'[ev.id][Len(log'[ev.id]) - 1].at
    BY <1>1, <2>1, <2>2, <2>4, <2>5
  <2>9. fee'.at <= log'[ev.id][Len(log'[ev.id])].at
    BY <1>1, <2>1, <2>2
  <2>10. fee'.amount = CalcFee(fee'.at - enter') /\ fee'.at <= now'
    BY <1>1, <2>1
  <2>11. ev' = ev
    BY <1>1
  <2>. QED
    BY <2>6, <2>7, <2>8, <2>9, <2>10, <2>11 DEF StayInHand
<1>. QED
  BY <1>5, <1>6, <1>7, <1>8 DEF Stays

LEMMA StaysStep == TablesInv /\ Stays /\ [Next]_vars => Stays'
<1> SUFFICES ASSUME TablesInv, Stays, [Next]_vars PROVE Stays'
  OBVIOUS
<1>0. /\ TypeOK /\ TypeOK' /\ now \in Times /\ now' \in Times /\ now \in Nat /\ now' \in Nat
  BY TypeStep, TimeTypes DEF TablesInv, TypeOK, TablesOK
<1>1. CASE Tick
  BY <1>0, <1>1, StaysFrame DEF Tick, tables, reader
<1>2. CASE ServerSends \/ ServerCloses \/ Quit \/ ConsoleNotices
  BY <1>0, <1>2, StaysFrame DEF ServerSends, ServerCloses, Quit, ConsoleNotices, tables, reader
<1>3. CASE Starts
  BY <1>0, <1>3, StaysFrame DEF Starts, tables, reader, HandsOn
<1>4. CASE Dies \/ Exits
  BY <1>0, <1>4, StaysFrame DEF Dies, Exits, Down, tables, HandsOn
<1>5. CASE Connects \/ EnterRead \/ ReadLine \/ ReadFails \/ GetDb
  BY <1>0, <1>5, StaysFrame DEF Connects, EnterRead, ReadLine, ReadFails, GetDb, tables, reader, HandsOn
<1>6. CASE Select
  BY <1>0, <1>6, StaysFrame DEF Select, tables, reader, HandsOn
<1>7. CASE Find
  BY <1>7, FindStays
<1>8. CASE Calc
  BY <1>8, CalcStays
<1>9. CASE Update
  BY <1>0, <1>9, StaysFrame DEF Update, tables, reader, HandsOn
<1>10. CASE Insert
  BY <1>10, InsertStays
<1>11. CASE SendExit
  BY <1>11, SendExitStays
<1>12. CASE UNCHANGED vars
  BY <1>0, <1>12, StaysFrame DEF vars, tables, reader, HandsOn
<1>. QED
  BY <1>1, <1>2, <1>3, <1>4, <1>5, <1>6, <1>7, <1>8, <1>9, <1>10, <1>11, <1>12 DEF Next, Receiver

\* In a log that alternates, the only ENTER that a LEAVE can still use is the entry
\* before it.
LEMMA ListedIsStay ==
    ASSUME TablesInv, CarEntries, NEW c \in Cars \ torn, NEW k \in 2 .. Len(log[c]), k % 2 # 1
    PROVE  ListedFee(c, k) = WebFee(log[c][k].at - log[c][k - 1].at)
<1> DEFINE enters == {j \in 1 .. k - 1 : /\ log[c][j].what = "ENTER"
                                         /\ \A l \in j + 1 .. k - 1 : log[c][l].what # "LEAVE"}
           last == CHOOSE n \in enters : \A m \in enters : m <= n
<1>1. c \in Ids /\ Len(log[c]) \in Nat
  BY SequenceTypes DEF Ids, TablesInv, TypeOK
<1>2. \A j \in 1 .. Len(log[c]) : log[c][j].what = "ENTER" <=> j % 2 = 1
  <2> SUFFICES ASSUME NEW j \in 1 .. Len(log[c]) PROVE log[c][j].what = "ENTER" <=> j % 2 = 1
    OBVIOUS
  <2>1. log[c][j].what \in Arrival <=> j % 2 = 1
    BY <1>1 DEF TablesInv, LogAlternates
  <2>2. log[c][j].what \in {"ENTER", "LEAVE"}
    BY DEF CarEntries
  <2>. QED
    BY <2>1, <2>2 DEF Arrival
<1>3. k - 1 \in 1 .. Len(log[c]) /\ (k - 1) % 2 = 1
  <2>1. k - 1 \in Nat /\ (k - 1) + 1 = k
    BY <1>1
  <2>. QED
    BY <1>1, <2>1, NextParity
<1>4. k - 1 \in enters
  BY <1>1, <1>2, <1>3
<1>5. ASSUME NEW j \in enters PROVE j = k - 1
  <2> SUFFICES ASSUME j < k - 1 PROVE FALSE
    BY <1>1
  <2>1. j + 1 \in 1 .. Len(log[c]) /\ j + 1 \in j + 1 .. k - 1 /\ j \in 1 .. Len(log[c]) /\ j \in Nat
    BY <1>1
  <2>2. j % 2 = 1
    BY <1>2, <2>1
  <2>3. log[c][j + 1].what # "ENTER"
    BY <1>2, <2>1, <2>2, NextParity
  <2>4. log[c][j + 1].what = "LEAVE"
    BY <2>1, <2>3 DEF CarEntries
  <2>. QED
    BY <2>1, <2>4
<1>6. last = k - 1
  <2>1. \A m \in enters : m <= k - 1
    BY <1>1, <1>5
  <2>2. last \in enters
    BY <1>4, <2>1
  <2>. QED
    BY <1>5, <2>2
<1>. QED
  BY <1>4, <1>6 DEF ListedFee

LEMMA StaysAsListed == TablesInv /\ Stays => ExitFeeAsListed
<1> SUFFICES ASSUME TablesInv, Stays, NEW c \in Cars \ torn, bill[c].entry > 0, bill[c].row # Clobbered
             PROVE  /\ bill[c].amount <= ListedFee(c, bill[c].entry)
                    /\ bill[c].at = log[c][bill[c].entry].at => bill[c].amount = ListedFee(c, bill[c].entry)
  BY DEF ExitFeeAsListed
<1> DEFINE k == bill[c].entry
           in == log[c][k - 1].at
           out == log[c][k].at
<1>1. /\ k \in 2 .. Len(log[c]) /\ k % 2 # 1 /\ bill[c].row = in
      /\ bill[c].amount = CalcFee(bill[c].at - in) /\ bill[c].at <= out
  BY DEF Stays, BillOfStay
<1>2. c \in Ids /\ log[c] \in Seq(Entries)
  BY DEF Ids, TablesInv, TypeOK, TablesOK
<1>3. log[c][k] \in Entries /\ log[c][k - 1] \in Entries
  BY <1>1, <1>2
<1>4. in \in Int /\ out \in Int /\ bill[c].at \in Int
  <2>1. bill[c].at \in Times
    BY DEF TablesInv, TypeOK, FeeOK
  <2>. QED
    BY <1>3, <2>1, TimeTypes DEF Entries
<1>5. ListedFee(c, k) = CalcFee(out - in)
  <2>1. CalcFee(out - in) = WebFee(out - in)
    BY <1>4, FeesAgree
  <2>. QED
    BY <1>1, <2>1, ListedIsStay DEF Stays
<1>6. CalcFee(bill[c].at - in) <= CalcFee(out - in)
  <2>1. ASSUME NEW x \in Int, NEW y \in Int, NEW z \in Int, x <= y
        PROVE  CalcFee(x - z) <= CalcFee(y - z)
    BY <2>1, FeeMonotone
  <2> HIDE DEF in, out
  <2>. QED
    BY <1>1, <1>4, <2>1
<1>. QED
  BY <1>1, <1>5, <1>6

\* Whatever was lost, repeated or cut off before: the fee shown at the gate is the one
\* the web page lists for the stay, less at most what the seconds between calc_fee and
\* the INSERT add to it.
THEOREM FeeShownIsFeeListed == Spec => []ExitFeeAsListed
<1>1. Init => Stays
  <2> SUFFICES ASSUME Init PROVE Stays
    OBVIOUS
  <2>1. \A i \in Ids : Len(log[i]) = 0
    BY DEF Init
  <2>2. LogOrdered /\ CarEntries
    BY <2>1 DEF LogOrdered, CarEntries, Ids
  <2>3. StayInHand
    BY DEF Init, StayInHand, HandsOn
  <2>4. \A c \in Cars : bill[c].entry = 0
    BY DEF Init, NoBill
  <2>5. BillOfStay
    BY <2>4 DEF BillOfStay
  <2>. QED
    BY <2>2, <2>3, <2>5 DEF Stays
<1>2. TablesInv /\ Stays /\ [Next]_vars => Stays'
  BY StaysStep
<1>3. TablesInv /\ Stays => ExitFeeAsListed
  BY StaysAsListed
<1>. QED
  BY <1>1, <1>2, <1>3, TablesInvariant, PTL DEF Spec
=============================================================================
