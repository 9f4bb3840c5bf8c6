------------------------------ MODULE SqlGateway ------------------------------
(****************************************************************************)
(* The database gateway, rpi/iot_client_sql.c: a client of the message      *)
(* server that turns IN, OUT, ENTER and LEAVE events into statements on the *)
(* tables parking/log (spots) and car/car_log (cars), each id with a state  *)
(* row and its log entries, and answers a LEAVE with the fee.               *)
(*                                                                          *)
(* Every mysql_query is a step of its own: it may fail, with or without the *)
(* statement having been executed, and the process may die between any two. *)
(* The tables survive; only the gateway writes them.                        *)
(****************************************************************************)
EXTENDS Integers, Sequences, Fee

CONSTANTS
    Spots,      \* ids of the table parking
    Cars,       \* ids of the table car
    None,       \* no id, no row
    Clobbered,  \* what a row holds that is read after it was freed
    Garbage,    \* fees calc_fee may make of a clobbered row
    Times,      \* the instants, in seconds, at which something happens
    MaxEvents,  \* bound: events the server sends in a run
    MaxStarts   \* bound: times the process is started

Ids == Spots \cup Cars

ASSUME GatewayAssumption ==
    /\ Spots \cap Cars = {} /\ None \notin Ids
    /\ Clobbered \notin Nat /\ None \notin Nat /\ None # Clobbered
    /\ Garbage \subseteq Int
    /\ Times \subseteq Nat /\ 0 \in Times
    /\ \A t \in Times : Defined(t)
    /\ MaxEvents \in Nat /\ MaxStarts \in Nat

VARIABLES
    now,        \* the clock of the gateway and of the database on its host
    state,      \* parking.state, car.state
    log,        \* the entries of log and car_log, per id
    torn,       \* history: ids with a statement reported failed, or cut off from the next
    srv,        \* the server keeps the connection open
    inq,        \* lines the server has sent and the gateway has not read
    sock,       \* *sock still holds the descriptor, and not -1
    rpc,        \* where recv_msg is ("down": no process, "ended": thread over)
    ev,         \* the line it handles
    enter,      \* LEAVE: what enter_row points to
    fee,        \* LEAVE: what calc_fee returned, and (history) when it was asked
    spc,        \* where send_msg is
    bill,       \* per car: the last EXIT: its fee, when computed, its log entry
    starts, events

tables == <<state, log, torn>>
line   == <<srv, inq, events>>
reader == <<ev, enter, fee>>
vars   == <<now, tables, line, sock, rpc, reader, spc, bill, starts>>

Arrival == {"IN", "ENTER"}
Events  == [cmd : {"IN", "OUT"}, id : Spots] \cup [cmd : {"ENTER", "LEAVE"}, id : Cars]
Line    == Events \cup [cmd : {"GETDB", "OTHER"}, id : {None}]
Entries == [what : {"IN", "OUT", "ENTER", "LEAVE"}, at : Times]

\* The server's answer to a login, and any other line that is no command.
Greeting == [cmd |-> "OTHER", id |-> None]
NoFee    == [amount |-> 0, at |-> 0]
NoBill   == [amount |-> 0, at |-> 0, entry |-> 0, row |-> Clobbered]

TablesOK ==
    /\ now \in Times
    /\ state \in [Ids -> {0, 1}] /\ log \in [Ids -> Seq(Entries)] /\ torn \in SUBSET Ids

LineOK == srv \in BOOLEAN /\ inq \in Seq(Line) /\ events \in Nat

ThreadsOK ==
    /\ sock \in BOOLEAN /\ spc \in {"select", "done"} /\ starts \in Nat
    /\ rpc \in {"down", "connect", "read", "blocked", "select", "find", "calc",
                "update", "insert", "exit", "ended"}
    /\ ev \in Line
    /\ rpc = "select" /\ ev.cmd # "GETDB" => ev \in Events
    /\ rpc \in {"find", "calc", "update", "insert", "exit"} => ev \in Events
    /\ rpc \in {"find", "calc", "exit"} => ev.cmd = "LEAVE"

FeeOK ==
    /\ enter \in Times \cup {Clobbered}
    /\ fee \in [amount : Int, at : Times]
    /\ bill \in [Cars -> [amount : Int, at : Times, entry : Nat, row : Times \cup {Clobbered}]]

TypeOK == TablesOK /\ LineOK /\ ThreadsOK /\ FeeOK

Init ==
    /\ now = 0
    /\ state = [i \in Ids |-> 0] /\ log = [i \in Ids |-> <<>>] /\ torn = {}
    /\ srv = FALSE /\ inq = <<>> /\ events = 0
    /\ sock = FALSE /\ rpc = "down" /\ spc = "done"
    /\ ev = Greeting /\ enter = Clobbered /\ fee = NoFee
    /\ bill = [c \in Cars |-> NoBill]
    /\ starts = 0

-----------------------------------------------------------------------------
(* Around the gateway: the clock, the server, the life of the process. *)

Tick ==
    /\ now' \in {t \in Times : t > now}
    /\ UNCHANGED <<tables, line, sock, rpc, reader, spc, bill, starts>>

ServerSends ==
    /\ srv /\ events < MaxEvents
    /\ \E e \in Events \cup [cmd : {"GETDB"}, id : {None}] : inq' = Append(inq, e)
    /\ events' = events + 1
    /\ UNCHANGED <<now, tables, srv, sock, rpc, reader, spc, bill, starts>>

ServerCloses ==
    /\ srv
    /\ srv' = FALSE
    /\ UNCHANGED <<now, tables, inq, events, sock, rpc, reader, spc, bill, starts>>

\* main: connect, log in, start both threads.
Starts ==
    /\ rpc = "down" /\ starts < MaxStarts
    /\ starts' = starts + 1
    /\ rpc' = "connect" /\ spc' = "select" /\ sock' = TRUE
    /\ srv' = TRUE /\ inq' = <<Greeting>>
    /\ UNCHANGED <<now, tables, events, reader, bill>>

\* The process is gone, and with it whatever it had received.
Down ==
    /\ rpc' = "down" /\ spc' = "done" /\ sock' = FALSE
    /\ srv' = FALSE /\ inq' = <<>>
    /\ ev' = Greeting /\ enter' = Clobbered /\ fee' = NoFee
    /\ UNCHANGED events

\* An event is cut off between its two statements: the row without its entry.
Dies ==
    /\ rpc # "down"
    /\ torn' = torn \cup (IF rpc = "insert" THEN {ev.id} ELSE {})
    /\ Down
    /\ UNCHANGED <<now, state, log, bill, starts>>

\* main returns when it has joined send_msg and recv_msg.
Exits ==
    /\ rpc = "ended" /\ spc = "done"
    /\ Down
    /\ UNCHANGED <<now, tables, bill, starts>>

-----------------------------------------------------------------------------
(* send_msg: the console thread. *)

\* Mutant: quit that leaves *sock as it was.
Quit_SockKept ==
    /\ spc = "select"
    /\ spc' = "done" /\ UNCHANGED sock
    /\ UNCHANGED <<now, tables, line, rpc, reader, bill, starts>>

Quit ==
    /\ spc = "select"
    /\ spc' = "done" /\ sock' = FALSE
    /\ UNCHANGED <<now, tables, line, rpc, reader, bill, starts>>

\* select times out after a second, or a typed line cannot be written.
ConsoleNotices ==
    /\ spc = "select" /\ ~sock
    /\ spc' = "done"
    /\ UNCHANGED <<now, tables, line, sock, rpc, reader, bill, starts>>

-----------------------------------------------------------------------------
(* recv_msg: reading. *)

\* mysql_real_connect, whose failure ends the process.
Connects ==
    /\ rpc = "connect"
    /\ rpc' = "read"
    /\ UNCHANGED <<now, tables, line, sock, reader, spc, bill, starts>>

\* read(*sock): it waits on the descriptor that *sock holds now, or fails at once.
EnterRead ==
    /\ rpc = "read"
    /\ rpc' = IF sock THEN "blocked" ELSE "ended"
    /\ UNCHANGED <<now, tables, line, sock, reader, spc, bill, starts>>

\* It returns one or more lines, and only the first is handled.
ReadLine ==
    /\ rpc = "blocked" /\ inq # <<>>
    /\ \E k \in 1 .. Len(inq) : inq' = SubSeq(inq, k + 1, Len(inq))
    /\ ev' = Head(inq)
    /\ rpc' = IF Head(inq).cmd = "OTHER" THEN "read" ELSE "select"
    /\ UNCHANGED <<now, tables, srv, events, sock, enter, fee, spc, bill, starts>>

ReadFails ==
    /\ rpc = "blocked" /\ inq = <<>> /\ ~srv
    /\ sock' = FALSE /\ rpc' = "ended"
    /\ UNCHANGED <<now, tables, line, reader, spc, bill, starts>>

\* GETDB: one SELECT, answered or given up.  The answer may be the write to a
\* closed connection that raises SIGPIPE (Dies).
GetDb ==
    /\ rpc = "select" /\ ev.cmd = "GETDB"
    /\ rpc' = "read"
    /\ UNCHANGED <<now, tables, line, sock, reader, spc, bill, starts>>

-----------------------------------------------------------------------------
(* recv_msg: the events. *)

\* The state an event finds when it is news, and the one it leaves.
Before(cmd) == IF cmd \in Arrival THEN 0 ELSE 1
After(cmd)  == 1 - Before(cmd)

\* Mutant: an event is written whatever the state of the row.
Select_NoStateTest ==
    /\ rpc = "select" /\ ev.cmd # "GETDB"
    /\ \/ rpc' = "ended"
       \/ rpc' = (IF ev.cmd = "LEAVE" THEN "find" ELSE "update")
    /\ UNCHANGED <<now, tables, line, sock, reader, spc, bill, starts>>

\* A failed SELECT breaks the loop: the thread ends and *sock keeps its value.
Select ==
    /\ rpc = "select" /\ ev.cmd # "GETDB"
    /\ \/ rpc' = "ended"
       \/ state[ev.id] = Before(ev.cmd) /\ rpc' = (IF ev.cmd = "LEAVE" THEN "find" ELSE "update")
       \/ state[ev.id] # Before(ev.cmd) /\ rpc' = "read"
    /\ UNCHANGED <<now, tables, line, sock, reader, spc, bill, starts>>

\* The times of the ENTER entries of a car, and the last of them.
Enters(c)    == {e.at : e \in {log[c][k] : k \in {j \in 1 .. Len(log[c]) : log[c][j].what = "ENTER"}}}
\* Mutant: the ENTER entries in ascending order.
LastEnter_First(c) == {t \in Enters(c) : \A u \in Enters(c) : t <= u}

LastEnter(c) == {t \in Enters(c) : \A u \in Enters(c) : u <= t}

\* Mutant: no test of the fetched row: the LEAVE goes on without one.
Find_NoRowTest ==
    /\ rpc = "find"
    /\ \/ rpc' = "ended" /\ UNCHANGED enter
       \/ /\ rpc' = "calc"
          /\ enter' \in LastEnter(ev.id) \cup {Clobbered}
    /\ UNCHANGED <<now, tables, line, sock, ev, fee, spc, bill, starts>>

\* LEAVE: the row is used after mysql_free_result.
Find ==
    /\ rpc = "find"
    /\ \/ rpc' = "ended" /\ UNCHANGED enter
       \/ Enters(ev.id) = {} /\ rpc' = "read" /\ UNCHANGED enter
       \/ Enters(ev.id) # {} /\ rpc' = "calc" /\ enter' \in LastEnter(ev.id) \cup {Clobbered}
    /\ UNCHANGED <<now, tables, line, sock, ev, fee, spc, bill, starts>>

Calc ==
    /\ rpc = "calc"
    /\ fee' \in [amount : IF enter = Clobbered THEN Garbage ELSE {CalcFee(now - enter)}, at : {now}]
    /\ rpc' = "update"
    /\ UNCHANGED <<now, tables, line, sock, ev, enter, spc, bill, starts>>

SetState  == state' = [state EXCEPT ![ev.id] = After(ev.cmd)]
AppendLog == log' = [log EXCEPT ![ev.id] = Append(@, [what |-> ev.cmd, at |-> now])]

\* Mutant: LEAVE without its UPDATE of the row.
Update_LeaveKeepsState ==
    /\ rpc = "update"
    /\ IF ev.cmd = "LEAVE" THEN UNCHANGED state ELSE SetState
    /\ rpc' = "insert"
    /\ UNCHANGED <<now, torn, log, line, sock, reader, spc, bill, starts>>

\* A failed UPDATE of IN, ENTER and LEAVE is at most reported; that of OUT breaks.
Update ==
    /\ rpc = "update"
    /\ \/ SetState /\ rpc' = "insert" /\ UNCHANGED torn
       \/ /\ SetState \/ UNCHANGED state
          /\ torn' = torn \cup {ev.id}
          /\ rpc' = IF ev.cmd = "OUT" THEN "ended" ELSE "insert"
    /\ UNCHANGED <<now, log, line, sock, reader, spc, bill, starts>>

Insert ==
    /\ rpc = "insert"
    /\ \/ AppendLog /\ UNCHANGED torn
       \/ (AppendLog \/ UNCHANGED log) /\ torn' = torn \cup {ev.id}
    /\ rpc' = IF ev.cmd = "LEAVE" THEN "exit" ELSE "read"
    /\ UNCHANGED <<now, state, line, sock, reader, spc, bill, starts>>

\* [BT]EXIT@id@fee
SendExit ==
    /\ rpc = "exit"
    /\ bill' = [bill EXCEPT ![ev.id] = [amount |-> fee.amount, at |-> fee.at,
                                        entry |-> Len(log[ev.id]), row |-> enter]]
    /\ rpc' = "read"
    /\ UNCHANGED <<now, tables, line, sock, reader, spc, starts>>

-----------------------------------------------------------------------------
Receiver == Connects \/ EnterRead \/ ReadLine \/ ReadFails \/ GetDb \/ Select
            \/ Find \/ Calc \/ Update \/ Insert \/ SendExit

Next ==
    \/ Tick \/ ServerSends \/ ServerCloses \/ Starts \/ Dies \/ Exits
    \/ Quit \/ ConsoleNotices \/ Receiver

\* The threads are scheduled and queries return; nobody has to send, close, quit or die.
Spec == Init /\ [][Next]_vars /\ WF_vars(Receiver) /\ WF_vars(ConsoleNotices) /\ WF_vars(Exits)

-----------------------------------------------------------------------------
(* Properties. *)

Last(s) == s[Len(s)]
Open(s) == s # <<>> /\ Last(s).what \in Arrival

\* The event in hand has set the row of the id and not yet added its entry.
Between(i) == rpc = "insert" /\ ev.id = i

\* The state row of a spot or car and the last entry of its log agree, whatever
\* events are repeated, lost or joined and whenever the process is restarted,
\* unless a statement failed or the process died between the two statements:
\* only then do the two tables need a repair.
TableMatchesLog ==
    \A i \in Ids \ torn : state[i] = 1 <=> (Open(log[i]) # Between(i))

\* Entries of an undisturbed id alternate between coming and going, in order of
\* time: a repeated event never writes a second entry.
LogAlternates ==
    \A i \in Ids \ torn : \A k \in 1 .. Len(log[i]) :
        /\ log[i][k].what \in Arrival <=> k % 2 = 1
        /\ k > 1 => log[i][k - 1].at <= log[i][k].at

\* Strengthening for the proofs: an event in hand was news when its row was read and
\* nobody else writes the row; a LEAVE is past Find only with a row; no entry is
\* from the future.
Pending ==
    /\ rpc \in {"find", "calc", "update"} => state[ev.id] = Before(ev.cmd)
    /\ rpc = "insert" /\ ev.id \notin torn => state[ev.id] = After(ev.cmd)
    /\ rpc \in {"calc", "update"} /\ ev.cmd = "LEAVE" => Enters(ev.id) # {}
    /\ \A i \in Ids : \A k \in 1 .. Len(log[i]) : log[i][k].at <= now

\* What car_info.php lists for a LEAVE entry: from the last ENTER before it that no
\* LEAVE has used, to the entry itself.
ListedFee(c, k) ==
    LET enters == {j \in 1 .. k - 1 : /\ log[c][j].what = "ENTER"
                                      /\ \A l \in j + 1 .. k - 1 : log[c][l].what # "LEAVE"}
        j == CHOOSE n \in enters : \A m \in enters : m <= n
    IN  IF enters = {} THEN 0 ELSE WebFee(log[c][k].at - log[c][j].at)

\* The fee shown at the gate is the one the web page lists for the same stay, if no
\* second passed between calc_fee and the INSERT, and never more than that; a car
\* whose statements failed, or a row overwritten after it was freed, excepted.
ExitFeeAsListed ==
    \A c \in Cars \ torn :
        LET b == bill[c] IN
        b.entry > 0 /\ b.row # Clobbered =>
            /\ b.amount <= ListedFee(c, b.entry)
            /\ b.at = log[c][b.entry].at => b.amount = ListedFee(c, b.entry)

\* A car that is inside without any ENTER entry, because the INSERT of its ENTER failed
\* or was cut off, can never be checked out again: LEAVE gives up at the missing entry
\* and ENTER at the state.
Locked(c) == state[c] = 1 /\ Enters(c) = {} /\ ~ Between(c)
NoWayOut == [][\A c \in Cars : Locked(c) => Locked(c)']_vars

\* After quit the process ends, except while the receiver waits in read() on the
\* connection that nobody shuts down: then it takes one more line, or the server's close.
QuitEnds == (spc = "done" /\ (rpc = "blocked" => inq # <<>> \/ ~ srv)) ~> rpc = "down"

=============================================================================
