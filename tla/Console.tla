------------------------------- MODULE Console -------------------------------
(****************************************************************************)
(* The console client, rpi/iot_client.c: send_msg sends what is typed,      *)
(* recv_msg shows what the server sends, and each tells the other to stop   *)
(* by *sock = -1.  fgets() takes a line of BUF_SIZE bytes or more in two    *)
(* parts; the second stays in the buffer of stdin, where select() does not  *)
(* see it.  The terminal is external: it gives a read() one line.           *)
(****************************************************************************)
EXTENDS Integers, Sequences, SequencesExt, FiniteSets

CONSTANTS MaxLines  \* bound: lines typed

ConsoleConstants == MaxLines \in Nat

Kinds == {"text", "long", "quit"}
Part(n, k, half) == [line |-> n, kind |-> k, half |-> half]
Parts(n, k) == IF k = "long" THEN <<Part(n, k, 1), Part(n, k, 2)>> ELSE <<Part(n, k, 1)>>
Nothing == Part(0, "text", 1)   \* the message fgets() leaves at the end of the input

VARIABLES
    server,     \* the server's end is there
    typed,      \* history: the kinds of the lines typed
    tty,        \* lines not yet read
    hungup,     \* the terminal is gone: an end of file can be read
    stdin,      \* parts in the buffer of stdin
    sock,       \* *sock is not -1
    spc, msg, rpc,
    sent,       \* parts written to the server
    alive

terminal == <<typed, tty, hungup>>
sender   == <<stdin, spc, msg, sent>>
vars     == <<server, terminal, sender, sock, rpc, alive>>

Init ==
    /\ server = TRUE /\ typed = <<>> /\ tty = <<>> /\ hungup = FALSE /\ stdin = <<>>
    /\ sock = TRUE /\ spc = "select" /\ msg = Nothing /\ rpc = "read" /\ sent = <<>> /\ alive = TRUE

-----------------------------------------------------------------------------
(* The user, and the server. *)

Types ==
    /\ ~ hungup /\ Len(typed) < MaxLines
    /\ \E k \in Kinds :
        /\ typed' = Append(typed, k)
        /\ tty' = Append(tty, Parts(Len(typed'), k))
    /\ UNCHANGED <<server, hungup, sender, sock, rpc, alive>>

HangsUp == ~ hungup /\ hungup' = TRUE /\ UNCHANGED <<server, typed, tty, sender, sock, rpc, alive>>

ServerGoes == server /\ server' = FALSE /\ UNCHANGED <<terminal, sender, sock, rpc, alive>>

-----------------------------------------------------------------------------
(* send_msg *)

Readable == tty # <<>> \/ hungup

\* select() of one second on stdin.
Select ==
    /\ spc = "select"
    /\ spc' = IF Readable THEN "fgets" ELSE IF sock THEN "select" ELSE "done"
    /\ UNCHANGED <<server, terminal, stdin, msg, sent, sock, rpc, alive>>

\* What fgets() finds: the rest of a line, or the next one, or the end.
Input == IF stdin # <<>> THEN stdin ELSE IF tty # <<>> THEN Head(tty) ELSE <<Nothing>>

\* Mutant: the rest of a long line is dropped.
Fgets_Flush ==
    /\ spc = "fgets"
    /\ msg' = Head(Input) /\ stdin' = <<>>
    /\ tty' = IF tty # <<>> THEN Tail(tty) ELSE tty
    /\ IF msg'.kind = "quit" THEN sock' = FALSE /\ spc' = "done" ELSE sock' = sock /\ spc' = "write"
    /\ UNCHANGED <<server, typed, hungup, sent, rpc, alive>>

\* Mutant: "quit" is not told from a message.
Fgets_NoQuit ==
    /\ spc = "fgets"
    /\ msg' = Head(Input) /\ stdin' = Tail(Input)
    /\ tty' = IF stdin = <<>> /\ tty # <<>> THEN Tail(tty) ELSE tty
    /\ spc' = "write"
    /\ UNCHANGED <<server, typed, hungup, sock, sent, rpc, alive>>

\* fgets() and the test for "quit".
Fgets ==
    /\ spc = "fgets"
    /\ msg' = Head(Input) /\ stdin' = Tail(Input)
    /\ tty' = IF stdin = <<>> /\ tty # <<>> THEN Tail(tty) ELSE tty
    /\ IF msg'.kind = "quit" THEN sock' = FALSE /\ spc' = "done" ELSE sock' = sock /\ spc' = "write"
    /\ UNCHANGED <<server, typed, hungup, sent, rpc, alive>>

\* To a server that is gone: taken by the kernel, or SIGPIPE.
Write ==
    /\ spc = "write"
    /\ IF sock
       THEN /\ alive' = TRUE \/ (~ server /\ alive' = FALSE)
            /\ sent' = (IF msg = Nothing THEN sent ELSE Append(sent, msg))
            /\ msg' = Nothing /\ spc' = "select" /\ sock' = sock
       ELSE spc' = "done" /\ sock' = FALSE /\ UNCHANGED <<alive, sent, msg>>
    /\ UNCHANGED <<server, terminal, stdin, rpc>>

-----------------------------------------------------------------------------
(* recv_msg, and main. *)

\* Mutant: the end of the connection is not told to send_msg.
RecvEnds_Silent ==
    /\ rpc = "read" /\ (~ server \/ ~ sock)
    /\ rpc' = "done" /\ sock' = sock
    /\ UNCHANGED <<server, terminal, sender, alive>>

\* The read() that sees the end; a line that is shown changes nothing.
RecvEnds ==
    /\ rpc = "read" /\ (~ server \/ ~ sock)
    /\ rpc' = "done" /\ sock' = FALSE
    /\ UNCHANGED <<server, terminal, sender, alive>>

\* main waits for send_msg only.
Join ==
    /\ spc = "done"
    /\ alive' = FALSE
    /\ UNCHANGED <<server, terminal, sender, sock, rpc>>

SendMsg == Select \/ Fgets \/ Write

Next == alive /\ (Types \/ HangsUp \/ ServerGoes \/ SendMsg \/ RecvEnds \/ Join)

Spec == Init /\ [][Next]_vars

\* The three threads are scheduled.
FairSpec == Spec /\ WF_vars(alive /\ SendMsg) /\ WF_vars(alive /\ RecvEnds) /\ WF_vars(alive /\ Join)

-----------------------------------------------------------------------------
(* Properties. *)

\* Every part of every line is sent once and in order, or still to come: in send_msg's
\* hands, in the buffer of stdin, or in the terminal.
InHand == IF msg = Nothing THEN <<>> ELSE <<msg>>
NothingLost ==
    sent \o InHand \o stdin \o FlattenSeq(tty) = FlattenSeq([n \in DOMAIN typed |-> Parts(n, typed[n])])

\* "quit" ends the client, whatever was typed before it: the rest of a long line waits in
\* the buffer of stdin only until the next line.
QuitEnds == (\E n \in DOMAIN typed : typed[n] = "quit") ~> ~ alive

\* When the server goes the client ends, whether or not the user types, and even if the
\* terminal is gone, which makes send_msg send empty messages without end.
EndsWithServer == ~ server ~> ~ alive
=============================================================================
