------------------------------ MODULE IotServer ------------------------------
(****************************************************************************)
(* The message server of the parking system, rpi/iot_server.c.              *)
(*                                                                          *)
(* One main thread accepts connections and checks logins; one detached      *)
(* thread per accepted login (clnt_connection) reads messages and routes    *)
(* them (send_msg) through the table client_info, in which a slot belongs   *)
(* to an id of idpasswd.txt and holds the descriptor of its session or -1.  *)
(* Only clnt_cnt and the writes of a session's descriptor are under mutx;   *)
(* every read of the table, and the write of line 177, are not.             *)
(*                                                                          *)
(* The kernel's part is modelled from how the code uses it: descriptors are *)
(* small integers, the lowest free one is given out, a blocked read keeps   *)
(* the connection it was entered with even when the descriptor is closed.   *)
(****************************************************************************)
EXTENDS Integers, Sequences, FiniteSets

CONSTANTS
    Conns,      \* connection attempts of the clients; also names their threads
    Main,       \* the thread that runs main()
    None,       \* no connection, no thread
    IdPasswd,   \* the ids of idpasswd.txt, in the order of the file
    MAX_CLNT,   \* slots of client_info, and the bound on clnt_cnt
    FdLimit,    \* descriptors the process may have for connections
    Addresses,  \* bound: the first tokens that clients put in their messages
    SendMax     \* bound: messages sent in a run, logins not counted

ASSUME ServerAssumption ==
    /\ MAX_CLNT \in Nat \ {0}
    /\ IdPasswd \in Seq(STRING \ {"", "ALLMSG", "IDLIST", "GETTIME"})
    /\ Len(IdPasswd) <= MAX_CLNT
    /\ \A m, n \in 1 .. Len(IdPasswd) : IdPasswd[m] = IdPasswd[n] => m = n
    /\ FdLimit \in Nat
    /\ Addresses \subseteq STRING
    /\ SendMax \in Nat
    /\ IsFiniteSet(Conns)
    /\ Main \notin Conns
    /\ None \notin Conns \cup {Main}

Slots == 0 .. MAX_CLNT - 1

\* Slots that a line of idpasswd.txt fills; the others stay as calloc left them.
Registered == {s \in Slots : s < Len(IdPasswd)}

Id(s) == IF s \in Registered THEN IdPasswd[s + 1] ELSE ""

Ids == {Id(s) : s \in Registered}

\* Descriptors of connections. 0 is the terminal, which no action opens or
\* closes, and -1 is the mark of a slot without a session.
Fds == 1 .. FdLimit

\* What a client sends: the first token, and whether the second one is the
\* password of that id. A login and a message have the same shape.
Addressees == Ids \cup Addresses \cup {"unknown"}
Messages == [to : Addressees, ok : BOOLEAN]
NoMessage == [to |-> "unknown", ok |-> FALSE]
Logins == [to : Ids, ok : BOOLEAN] \cup {NoMessage}
Routed == [to : Addresses, ok : {FALSE}]

VARIABLES
    alive,      \* the process runs (SIGPIPE has not killed it)
    peer,       \* the client's end of each connection
    backlog,    \* connections that accept() has not returned yet
    inq,        \* messages in the server's receive buffer, per connection
    sent,       \* messages sent so far, up to SendMax
    files,      \* descriptor |-> connection it is open on, or None
    fd,         \* client_info[s].fd
    clnt_cnt,
    mutx,       \* the thread that holds mutx, or None
    mpc,        \* where main() is
    clnt_sock,  \* main: the descriptor accept() returned
    cur,        \* main: the connection it is open on
    login,      \* main: the tokens of the login
    who,        \* main: the slot the scan stopped at
    pc,         \* where each clnt_connection thread is
    slot,       \* thread: its client_info
    rd,         \* thread: the connection its read() is blocked on
    to,         \* thread: msg_info.to
    mfd,        \* thread: msg_info.fd
    idx,        \* thread: the loop counter of send_msg
    tmp,        \* value loaded for clnt_cnt++ or clnt_cnt--
    reply,      \* what main answered to a login
    shut,       \* connections main called shutdown(SHUT_WR) on
    got         \* ids that what was written to a connection is addressed to

kernel  == <<peer, backlog, inq, sent>>
local   == <<pc, slot, rd, to, mfd, idx>>
mlocal  == <<mpc, clnt_sock, cur, login, who>>
table   == <<fd, clnt_cnt, mutx>>
answers == <<reply, shut>>
vars == <<alive, kernel, files, table, mlocal, local, tmp, answers, got>>

Threads == Conns \cup {Main}

KernelOK ==
    /\ peer \in [Conns -> {"idle", "connected", "talking", "closed"}]
    /\ backlog \in SUBSET Conns
    /\ inq \in [Conns -> Seq(Messages)]
    /\ sent \in 0 .. SendMax
    /\ files \in [Fds -> Conns \cup {None}]

TableOK ==
    /\ fd \in [Slots -> {-1, 0} \cup Fds]
    /\ \A s \in Slots : fd[s] = 0 <=> s \notin Registered
    /\ clnt_cnt \in Int
    /\ mutx \in Threads \cup {None}
    /\ tmp \in [Threads -> Int]

MainOK ==
    /\ mpc \in {"accept", "check", "login", "scan", "kick", "lock", "count", "spawn"}
    /\ clnt_sock \in {0} \cup Fds
    /\ cur \in Conns \cup {None}
    /\ mpc = "accept" => cur = None
    /\ mpc # "accept" => clnt_sock \in Fds /\ cur \in Conns
    /\ login \in Messages
    /\ who \in Registered \cup {0}
    /\ mpc \in {"kick", "lock", "count", "spawn"} => who \in Registered

ThreadOK ==
    /\ pc \in [Conns -> {"none", "enter", "blocked", "send", "close",
                         "lock", "dec", "clear", "done"}]
    /\ slot \in [Conns -> Registered \cup {0}]
    /\ rd \in [Conns -> Conns \cup {None}]
    /\ \A c \in Conns : pc[c] = "blocked" => rd[c] # None
    /\ \A c \in Conns : pc[c] # "none" => slot[c] \in Registered
    /\ to \in [Conns -> Addressees]
    /\ mfd \in [Conns -> {-1, 0} \cup Fds]
    /\ idx \in [Conns -> 0 .. MAX_CLNT]

AnswerOK ==
    /\ reply \in [Conns -> {"none", "new", "already", "autherr"}]
    /\ shut \in SUBSET Conns
    /\ got \in [Conns -> SUBSET Ids]

TypeOK == alive \in BOOLEAN /\ KernelOK /\ TableOK /\ MainOK /\ ThreadOK /\ AnswerOK

Init ==
    /\ alive = TRUE
    /\ peer = [c \in Conns |-> "idle"]
    /\ backlog = {}
    /\ inq = [c \in Conns |-> <<>>]
    /\ sent = 0
    /\ files = [f \in Fds |-> None]
    /\ fd = [s \in Slots |-> IF s \in Registered THEN -1 ELSE 0]
    /\ clnt_cnt = 0
    /\ mutx = None
    /\ mpc = "accept"
    /\ clnt_sock = 0
    /\ cur = None
    /\ login = NoMessage
    /\ who = 0
    /\ pc = [c \in Conns |-> "none"]
    /\ slot = [c \in Conns |-> 0]
    /\ rd = [c \in Conns |-> None]
    /\ to = [c \in Conns |-> "unknown"]
    /\ mfd = [c \in Conns |-> -1]
    /\ idx = [c \in Conns |-> 0]
    /\ tmp = [t \in Threads |-> 0]
    /\ reply = [c \in Conns |-> "none"]
    /\ shut = {}
    /\ got = [c \in Conns |-> {}]

-----------------------------------------------------------------------------
(* The clients (iot_client*.c, the WiFi module): connect, log in, send, close. *)

Connect(c) ==
    /\ peer[c] = "idle"
    /\ peer' = [peer EXCEPT ![c] = "connected"]
    /\ backlog' = backlog \cup {c}
    /\ UNCHANGED <<inq, sent, files, table, mlocal, local, tmp, answers, got>>

SendLogin(c) ==
    /\ peer[c] = "connected"
    /\ \E m \in Logins : inq' = [inq EXCEPT ![c] = Append(@, m)]
    /\ peer' = [peer EXCEPT ![c] = "talking"]
    /\ UNCHANGED <<backlog, sent, files, table, mlocal, local, tmp, answers, got>>

SendMessage(c) ==
    /\ peer[c] = "talking"
    /\ sent < SendMax
    /\ sent' = sent + 1
    /\ \E m \in Routed : inq' = [inq EXCEPT ![c] = Append(@, m)]
    /\ UNCHANGED <<peer, backlog, files, table, mlocal, local, tmp, answers, got>>

Close(c) ==
    /\ peer[c] \in {"connected", "talking"}
    /\ peer' = [peer EXCEPT ![c] = "closed"]
    /\ UNCHANGED <<backlog, inq, sent, files, table, mlocal, local, tmp, answers, got>>

Client(c) == alive /\ alive' = alive
                   /\ (Connect(c) \/ SendLogin(c) \/ SendMessage(c) \/ Close(c))

-----------------------------------------------------------------------------
(* The kernel calls the server makes. *)

\* The connection that descriptor f is open on.
File(f) == IF f \in Fds THEN files[f] ELSE None

\* accept() gives out the lowest free descriptor.
NewFd(f) == f \in Fds /\ files[f] = None /\ \A g \in Fds : g < f => files[g] # None

\* One read() returns the first message with any number of those queued behind
\* it: the parser keeps the first line and the rest of the buffer is dropped.
Receive(c) ==
    /\ inq[c] # <<>>
    /\ \E k \in 1 .. Len(inq[c]) : inq' = [inq EXCEPT ![c] = SubSeq(@, k + 1, Len(@))]

\* read() returns 0 once the client has closed and its buffer is empty.
EndOfFile(c) == inq[c] = <<>> /\ peer[c] = "closed"

\* write() of something addressed to id x. On a connection whose client has gone
\* it may raise SIGPIPE, which nothing in the program ignores or handles.
Write(f, x) ==
    IF File(f) = None
    THEN UNCHANGED <<alive, got>>
    ELSE \/ got' = [got EXCEPT ![File(f)] = @ \cup {x}] /\ alive' = alive
         \/ peer[File(f)] = "closed" /\ alive' = FALSE /\ got' = got

-----------------------------------------------------------------------------
(* main() *)

ToAccept ==
    /\ mpc' = "accept" /\ clnt_sock' = 0 /\ cur' = None
    /\ login' = NoMessage /\ who' = 0

\* shutdown(clnt_sock, SHUT_WR) and back to accept(); the descriptor stays open. (On
\* a descriptor that another thread closed meanwhile, the call has no effect.)
Reject == shut' = shut \cup {cur} /\ ToAccept

\* With no free descriptor accept() fails and the loop retries: no step.
Accept ==
    /\ mpc = "accept"
    /\ \E c \in backlog, f \in Fds :
        /\ NewFd(f)
        /\ files' = [files EXCEPT ![f] = c]
        /\ backlog' = backlog \ {c}
        /\ clnt_sock' = f
        /\ cur' = c
    /\ mpc' = "check"
    /\ UNCHANGED <<peer, inq, sent, table, login, who, local, tmp, answers, got>>

\* Mutant: "clnt_cnt > MAX_CLNT".
CheckFull_OffByOne ==
    /\ mpc = "check"
    /\ IF clnt_cnt > MAX_CLNT \/ File(clnt_sock) = None
       THEN Reject
       ELSE mpc' = "login" /\ UNCHANGED <<clnt_sock, cur, login, who, shut>>
    /\ UNCHANGED <<kernel, files, table, local, tmp, reply, got>>

\* Mutant: wait for a free place instead of refusing the client.
CheckFull_Waits ==
    /\ mpc = "check"
    /\ clnt_cnt < MAX_CLNT
    /\ mpc' = "login"
    /\ UNCHANGED <<kernel, files, table, clnt_sock, cur, login, who, local, tmp, answers, got>>

\* The unlocked test of clnt_cnt, and the read() of the login is entered.
CheckFull ==
    /\ mpc = "check"
    /\ IF clnt_cnt >= MAX_CLNT \/ File(clnt_sock) = None
       THEN Reject
       ELSE mpc' = "login" /\ UNCHANGED <<clnt_sock, cur, login, who, shut>>
    /\ UNCHANGED <<kernel, files, table, local, tmp, reply, got>>

ReadLogin ==
    /\ mpc = "login"
    /\ \/ /\ Receive(cur)
          /\ login' = Head(inq[cur])
          /\ mpc' = "scan"
          /\ UNCHANGED <<clnt_sock, cur, who, shut>>
       \/ EndOfFile(cur) /\ Reject /\ inq' = inq
    /\ UNCHANGED <<peer, backlog, sent, files, table, local, tmp, reply, got>>

\* write(clnt_sock, ...): the answer, or SIGPIPE when the client has gone.
Answer(r) ==
    /\ reply' = [reply EXCEPT ![cur] = r]
    /\ alive' = alive \/ (peer[cur] = "closed" /\ alive' = FALSE)

\* Mutant: no test of fd before the password.
Scan_NoLoggedTest ==
    /\ mpc = "scan"
    /\ \/ \E s \in Registered :
            /\ Id(s) = login.to
            /\ \/ login.ok /\ mpc' = "lock" /\ who' = s
                           /\ UNCHANGED <<alive, clnt_sock, cur, login, answers>>
               \/ ~login.ok /\ Answer("autherr") /\ Reject
       \/ login.to \notin Ids /\ Answer("autherr") /\ Reject
    /\ UNCHANGED <<kernel, files, table, local, tmp, got>>

\* The loop over client_info: the id's slot if it is registered, and then the
\* unlocked test of its descriptor before the test of the password.
Scan ==
    /\ mpc = "scan"
    /\ \/ \E s \in Registered :
            /\ Id(s) = login.to
            /\ \/ fd[s] # -1 /\ mpc' = "kick" /\ who' = s
                             /\ Answer("already") /\ shut' = shut \cup {cur}
                             /\ UNCHANGED <<clnt_sock, cur, login>>
               \/ fd[s] = -1 /\ login.ok /\ mpc' = "lock" /\ who' = s
                             /\ UNCHANGED <<alive, clnt_sock, cur, login, answers>>
               \/ fd[s] = -1 /\ ~login.ok /\ Answer("autherr") /\ Reject
       \/ login.to \notin Ids /\ Answer("autherr") /\ Reject
    /\ UNCHANGED <<kernel, files, table, local, tmp, got>>

\* "#if 1 //for MCU": the slot is freed without mutx, its old descriptor stays
\* open and its old thread stays in read().
Kick ==
    /\ mpc = "kick"
    /\ fd' = [fd EXCEPT ![who] = -1]
    /\ ToAccept
    /\ UNCHANGED <<kernel, files, clnt_cnt, mutx, local, tmp, answers, got>>

\* Mutant: no pthread_mutex_lock at line 185.
RegisterLock_Unlocked ==
    /\ mpc = "lock"
    /\ fd' = [fd EXCEPT ![who] = clnt_sock]
    /\ tmp' = [tmp EXCEPT ![Main] = clnt_cnt]
    /\ mpc' = "count"
    /\ UNCHANGED <<kernel, files, clnt_cnt, mutx, clnt_sock, cur, login, who, local, answers, got>>

\* lock; index, fd; the load of clnt_cnt++.
RegisterLock ==
    /\ mpc = "lock"
    /\ mutx = None
    /\ mutx' = Main
    /\ fd' = [fd EXCEPT ![who] = clnt_sock]
    /\ tmp' = [tmp EXCEPT ![Main] = clnt_cnt]
    /\ mpc' = "count"
    /\ UNCHANGED <<kernel, files, clnt_cnt, clnt_sock, cur, login, who, local, answers, got>>

\* The store of clnt_cnt++; unlock.
RegisterCount ==
    /\ mpc = "count"
    /\ clnt_cnt' = tmp[Main] + 1
    /\ mutx' = None
    /\ mpc' = "spawn"
    /\ UNCHANGED <<kernel, files, fd, clnt_sock, cur, login, who, local, tmp, answers, got>>

\* "New connected!" and pthread_create.
Spawn ==
    /\ mpc = "spawn"
    /\ Answer("new")
    /\ pc' = [pc EXCEPT ![cur] = "enter"]
    /\ slot' = [slot EXCEPT ![cur] = who]
    /\ ToAccept
    /\ UNCHANGED <<kernel, files, table, rd, to, mfd, idx, tmp, shut, got>>

Server ==
    /\ alive
    /\ \/ /\ Accept \/ CheckFull \/ ReadLogin \/ Kick \/ RegisterLock \/ RegisterCount
          /\ alive' = alive
       \/ Scan \/ Spawn

-----------------------------------------------------------------------------
(* clnt_connection(): thread c serves the slot that main gave it. *)

Goto(c, p) == pc' = [pc EXCEPT ![c] = p]

\* read(client_info->fd, ...): the descriptor is looked up now, in the slot.
EnterRead(c) ==
    /\ pc[c] = "enter"
    /\ IF File(fd[slot[c]]) = None
       THEN Goto(c, "close") /\ rd' = rd
       ELSE Goto(c, "blocked") /\ rd' = [rd EXCEPT ![c] = File(fd[slot[c]])]
    /\ UNCHANGED <<alive, kernel, files, table, mlocal, slot, to, mfd, idx, tmp, answers, got>>

\* read() returns. strtok keeps its place in one static pointer for all threads:
\* parsing a message while main is between the tokens of a login and the test of
\* the password can make main compare the wrong token.
ReadReturns(c) ==
    /\ pc[c] = "blocked"
    /\ rd' = [rd EXCEPT ![c] = None]
    /\ \/ /\ Receive(rd[c])
          /\ to' = [to EXCEPT ![c] = Head(inq[rd[c]]).to]
          /\ mfd' = [mfd EXCEPT ![c] = fd[slot[c]]]
          /\ Goto(c, "send")
          /\ \/ login' = login
             \/ mpc = "scan" /\ login' = [login EXCEPT !.ok = FALSE]
       \/ EndOfFile(rd[c]) /\ Goto(c, "close") /\ UNCHANGED <<inq, to, mfd, login>>
    /\ UNCHANGED <<alive, peer, backlog, sent, files, table, mpc, clnt_sock, cur, who, slot, idx,
                   tmp, answers, got>>

ToRead(c) ==
    /\ Goto(c, "enter")
    /\ to' = [to EXCEPT ![c] = "unknown"]
    /\ mfd' = [mfd EXCEPT ![c] = -1]
    /\ idx' = [idx EXCEPT ![c] = 0]

\* send_msg to ALLMSG or to one id: the table is read slot by slot, unlocked.
SendToSlot(c) ==
    /\ pc[c] = "send"
    /\ to[c] \notin {"IDLIST", "GETTIME"}
    /\ idx[c] < MAX_CLNT
    /\ IF fd[idx[c]] # -1 /\ to[c] \in {"ALLMSG", Id(idx[c])}
       THEN Write(fd[idx[c]], Id(idx[c]))
       ELSE UNCHANGED <<alive, got>>
    /\ idx' = [idx EXCEPT ![c] = @ + 1]
    /\ UNCHANGED <<kernel, files, table, mlocal, pc, slot, rd, to, mfd, tmp, answers>>

SendDone(c) ==
    /\ pc[c] = "send"
    /\ idx[c] = MAX_CLNT
    /\ ToRead(c)
    /\ UNCHANGED <<alive, kernel, files, table, mlocal, slot, rd, tmp, answers, got>>

\* IDLIST and GETTIME answer on the descriptor noted when the message was read.
SendReply(c) ==
    /\ pc[c] = "send"
    /\ to[c] \in {"IDLIST", "GETTIME"}
    /\ Write(mfd[c], Id(slot[c]))
    /\ ToRead(c)
    /\ UNCHANGED <<kernel, files, table, mlocal, slot, rd, tmp, answers>>

\* Mutant: the thread ends without close().
CloseFd_Dropped(c) ==
    /\ pc[c] = "close"
    /\ Goto(c, "lock")
    /\ UNCHANGED <<alive, kernel, files, table, mlocal, slot, rd, to, mfd, idx, tmp, answers, got>>

\* close(client_info->fd): whatever descriptor the slot holds now.
CloseFd(c) ==
    /\ pc[c] = "close"
    /\ files' = IF fd[slot[c]] \in Fds THEN [files EXCEPT ![fd[slot[c]]] = None] ELSE files
    /\ Goto(c, "lock")
    /\ UNCHANGED <<alive, kernel, table, mlocal, slot, rd, to, mfd, idx, tmp, answers, got>>

\* lock; the load of clnt_cnt--.
ExitLock(c) ==
    /\ pc[c] = "lock"
    /\ mutx = None
    /\ mutx' = c
    /\ tmp' = [tmp EXCEPT ![c] = clnt_cnt]
    /\ Goto(c, "dec")
    /\ UNCHANGED <<alive, kernel, files, fd, clnt_cnt, mlocal, slot, rd, to, mfd, idx, answers, got>>

\* The store of clnt_cnt--.
ExitCount(c) ==
    /\ pc[c] = "dec"
    /\ clnt_cnt' = tmp[c] - 1
    /\ Goto(c, "clear")
    /\ UNCHANGED <<alive, kernel, files, fd, mutx, mlocal, slot, rd, to, mfd, idx, tmp, answers, got>>

\* Mutant: the slot keeps its descriptor.
ExitClear_NoReset(c) ==
    /\ pc[c] = "clear"
    /\ mutx' = None
    /\ Goto(c, "done")
    /\ UNCHANGED <<alive, kernel, files, fd, clnt_cnt, mlocal, slot, rd, to, mfd, idx, tmp, answers, got>>

\* fd = -1; unlock; the thread ends.
ExitClear(c) ==
    /\ pc[c] = "clear"
    /\ fd' = [fd EXCEPT ![slot[c]] = -1]
    /\ mutx' = None
    /\ Goto(c, "done")
    /\ UNCHANGED <<alive, kernel, files, clnt_cnt, mlocal, slot, rd, to, mfd, idx, tmp, answers, got>>

Thread(c) ==
    alive /\ \/ EnterRead(c) \/ ReadReturns(c) \/ SendToSlot(c) \/ SendDone(c) \/ SendReply(c)
             \/ CloseFd(c) \/ ExitLock(c) \/ ExitCount(c) \/ ExitClear(c)

-----------------------------------------------------------------------------
Next == Server \/ \E c \in Conns : Client(c) \/ Thread(c)

Spec == Init /\ [][Next]_vars

\* The scheduler runs every thread that can run. Clients owe nothing.
FairSpec == Spec /\ WF_vars(Server) /\ \A c \in Conns : WF_vars(Thread(c))

-----------------------------------------------------------------------------
(* Properties *)

\* Connections whose session clnt_cnt must count: from the store of clnt_cnt++
\* in main to the store of clnt_cnt-- in the thread.
Counted == {c \in Conns : pc[c] \in {"enter", "blocked", "send", "close", "lock", "dec"}}
           \cup (IF mpc = "spawn" THEN {cur} ELSE {})

\* clnt_cnt (iot_server.c:188,267) is the number of client threads that have not
\* left, whatever the order in which logins and disconnections interleave: the
\* mutex loses no update, and a slot freed at line 177 keeps its thread counted.
CountMatchesThreads == clnt_cnt = Cardinality(Counted)

\* The unlocked test of line 139 is enough: never more than MAX_CLNT sessions.
NeverOverfull == clnt_cnt <= MAX_CLNT

\* The server implements SessionPool: every step of every thread is the entry of one
\* session, the exit of one session, or no change of the pool. A session enters at
\* the store of clnt_cnt++ and leaves at the store of clnt_cnt--.
NotYetCounted == {c \in Conns : pc[c] = "none"} \ Counted
Pool == INSTANCE SessionPool WITH
    Sessions <- Conns, Limit <- MAX_CLNT,
    waiting <- NotYetCounted, active <- Counted, count <- clnt_cnt
ImplementsSessionPool == Pool!Spec

\* mutx is held exactly by the thread that is between its lock and its unlock.
MutexHeld ==
    /\ (mutx = Main) <=> (mpc = "count")
    /\ \A c \in Conns : (mutx = c) <=> (pc[c] \in {"dec", "clear"})

\* Where a thread is between its start and the end of its close() (261).
Live == {"enter", "blocked", "send", "close"}

\* No id has ever been refused with "Already logged!".
NoRelogin == \A c \in Conns : reply[c] # "already"

\* Threads between close() (261) and fd = -1 (268).
Closing(c) == pc[c] \in {"lock", "dec", "clear"}

\* As long as no login found its slot taken, a thread reads the connection it was
\* made for, and its slot holds a descriptor open on it until the thread closes it
\* (iot_server.c:234,261): no session is served by another session's thread.
SessionIsolation ==
    NoRelogin => \A c \in Conns :
        /\ pc[c] \in Live => File(fd[slot[c]]) = c
        /\ pc[c] = "blocked" => rd[c] = c
        /\ pc[c] = "send" => mfd[c] = fd[slot[c]]

\* As long as no login found its slot taken, the only descriptors the server does
\* not get back are those of refused connections (142,175,205,209 never close()).
OnlyRefusedLeak ==
    NoRelogin => \A f \in Fds :
        \/ files[f] \in shut \cup {None, cur}
        \/ pc[files[f]] \in Live /\ fd[slot[files[f]]] = f

\* A slot that holds a descriptor has a thread that will clear it, or main is about
\* to start it: an id is never locked out by a session that has ended.
OnlineHasThread ==
    \A s \in Registered : fd[s] # -1 =>
        \/ mpc \in {"count", "spawn"} /\ who = s
        \/ \E c \in Conns : slot[c] = s /\ pc[c] \notin {"none", "done"}

\* A session's descriptor is never overwritten by another one (170,187): it is
\* cleared first, by its thread or by the refusal of a second login.
NeverOverwritten ==
    [][\A s \in Slots : fd'[s] # fd[s] => -1 \in {fd[s], fd'[s]}]_vars

\* What send_msg writes reaches the client the message is addressed to, unless the
\* addressed slot still holds the descriptor its thread has just closed (261-268),
\* which accept() may have given to another client.
SlotOf(c) == IF c = cur /\ mpc \in {"count", "spawn"} THEN who ELSE slot[c]
Misdelivered(c, x) == x \in got'[c] \ got[c] /\ Id(SlotOf(c)) # x
MisdeliveryOnlyWhileClosing ==
    [][NoRelogin => \A c \in Conns : \A x \in Ids :
        Misdelivered(c, x) => \E d \in Conns : Closing(d) /\ Id(slot[d]) = x]_vars

\* When every client has gone the server forgets them all: the count returns to 0
\* and every id can log in again, re-logins and shared descriptors included.
AllGone == \A c \in Conns : peer[c] \in {"idle", "closed"}
Drained ==
    <>[]AllGone => <>[](~alive \/ (clnt_cnt = 0 /\ \A s \in Registered : fd[s] = -1))

\* A client in the backlog is accepted as long as those before it log in or leave:
\* only a silent client (the read of line 151) can keep main from accept().
AcceptedUnlessSilentClient ==
    []<>(mpc # "login" \/ ~alive) => \A c \in Conns : (c \in backlog) ~> (c \notin backlog \/ ~alive)

-----------------------------------------------------------------------------
(* Inductive strengthenings of the invariants, for IotServerProofs. *)

\* A client connects once: one that has not, or that accept() has not returned yet,
\* or that main is still looking at, has no thread.
ConnectsOnce ==
    /\ \A c \in Conns : peer[c] = "idle" => pc[c] = "none" /\ c \notin backlog /\ c # cur
    /\ \A c \in backlog : pc[c] = "none" /\ c # cur
    /\ mpc # "accept" => pc[cur] = "none"

\* The value loaded for clnt_cnt++ or clnt_cnt-- (188,267) is still the value of
\* clnt_cnt when it is stored, and the test of line 139 holds until main registers.
CountInv ==
    /\ MutexHeld
    /\ ConnectsOnce
    /\ mpc = "count" => tmp[Main] = clnt_cnt
    /\ \A c \in Conns : pc[c] = "dec" => tmp[c] = clnt_cnt
    /\ mpc \in {"login", "scan", "lock", "count"} => clnt_cnt < MAX_CLNT
    /\ CountMatchesThreads
    /\ NeverOverfull

Running(c) == pc[c] \notin {"none", "done"}

\* accept() gives a connection one descriptor, once.
OneDescriptor ==
    /\ \A f, g \in Fds : files[f] = files[g] /\ files[f] # None => f = g
    /\ \A f \in Fds : files[f] # None => peer[files[f]] # "idle" /\ files[f] \notin backlog

\* A login is answered once, and main enters line 177 only after "Already logged!".
AnsweredOnce ==
    /\ \A c \in Conns : peer[c] = "idle" \/ c \in backlog => reply[c] = "none"
    /\ mpc = "kick" => reply[cur] = "already"
    /\ mpc \notin {"accept", "kick"} => reply[cur] = "none"

\* Without a second login of an id: a slot is used by one thread at a time, holds that
\* thread's descriptor until it is cleared, and main registers in a slot nobody uses.
ExclusiveSlots ==
    /\ \A c \in Conns : Running(c) => fd[slot[c]] # -1
    /\ \A c, d \in Conns : Running(c) /\ Running(d) /\ slot[c] = slot[d] => c = d
    /\ mpc # "accept" => files[clnt_sock] = cur
    /\ mpc \in {"count", "spawn"} => fd[who] = clnt_sock
    /\ mpc \in {"lock", "count", "spawn"} => \A c \in Conns : Running(c) => slot[c] # who

IsolationInv ==
    /\ mpc = "lock" => fd[who] = -1
    /\ OnlineHasThread
    /\ OneDescriptor
    /\ AnsweredOnce
    /\ NoRelogin => ExclusiveSlots
    /\ SessionIsolation
    /\ OnlyRefusedLeak
=============================================================================
