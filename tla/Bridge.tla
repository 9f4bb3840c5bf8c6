------------------------------- MODULE Bridge -------------------------------
(****************************************************************************)
(* The Bluetooth bridge, rpi/iot_client_bluetooth.c: send_msg assembles     *)
(* lines of the gate controller and writes them to the server, recv_msg     *)
(* writes what the server sends to the controller as it comes.  They share  *)
(* dev_fd->sockfd, which each sets to -1 to tell the other to stop.         *)
(*                                                                          *)
(* The two byte streams are external, and represented by positions: byte p  *)
(* of the controller is a newline iff p \in ends.  A read() returns any     *)
(* number of the bytes that have arrived.                                   *)
(****************************************************************************)
EXTENDS Integers

CONSTANTS
    BUF_SIZE,   \* size of send_msg's line buffer
    MaxBytes,   \* bound: bytes the controller sends
    MaxDown     \* bound: bytes the server sends

ASSUME BridgeAssumption == BUF_SIZE \in Nat \ {0} /\ MaxBytes \in Nat /\ MaxDown \in Nat

VARIABLES
    server,     \* the server's end: "up" or "gone"
    device,     \* the controller's end: "up", "reset" (an error is to be read), "gone"
    ends, arrived,      \* the controller's stream: newlines, bytes sent
    sent,       \* bytes the server has sent
    alive,      \* the process runs
    mpc,        \* main()
    sockfd,     \* dev_fd->sockfd is a descriptor, not -1
    spc,        \* send_msg
    watched,    \* the server's descriptor is in initset
    start,      \* position before msg[0]
    total,
    written,    \* bytes of the controller's stream written to the server
    rpc,        \* recv_msg
    got,        \* bytes of the server's stream that were read
    passed      \* and that were written to the controller

line   == <<start, total>>
ctrl   == <<device, ends, arrived>>
source == <<server, sent>>
sender == <<spc, watched, line, written>>
receiver == <<rpc, got, passed>>
vars   == <<server, ctrl, sent, alive, mpc, sockfd, sender, receiver>>

TypeOK ==
    /\ server \in {"up", "gone"} /\ device \in {"up", "reset", "gone"}
    /\ ends \subseteq Nat /\ {arrived, sent, written, got, passed, start} \subseteq Nat
    /\ alive \in BOOLEAN /\ sockfd \in BOOLEAN /\ watched \in BOOLEAN /\ total \in 0 .. BUF_SIZE
    /\ mpc \in {"login", "bluetooth", "join", "ended"}
    /\ spc \in {"none", "setup", "select", "read", "write", "done"}
    /\ rpc \in {"none", "read", "write", "done"}

Init ==
    /\ server = "up" /\ device = "up" /\ sent = 0
    /\ ends \in SUBSET (1 .. MaxBytes) /\ arrived = 0
    /\ alive = TRUE /\ mpc = "login" /\ sockfd = TRUE
    /\ spc = "none" /\ watched = FALSE /\ start = 0 /\ total = 0 /\ written = 0
    /\ rpc = "none" /\ got = 0 /\ passed = 0

-----------------------------------------------------------------------------
(* The two ends. *)

DeviceSends ==
    /\ device = "up" /\ arrived < MaxBytes
    /\ arrived' \in arrived + 1 .. MaxBytes
    /\ UNCHANGED <<device, ends, source, alive, mpc, sockfd, sender, receiver>>

DeviceGoes ==
    /\ device = "up" /\ mpc = "join"
    /\ device' \in {"reset", "gone"}
    /\ UNCHANGED <<ends, arrived, source, alive, mpc, sockfd, sender, receiver>>

ServerSends ==
    /\ server = "up" /\ mpc # "login" /\ sent < MaxDown
    /\ sent' \in sent + 1 .. MaxDown
    /\ UNCHANGED <<server, ctrl, alive, mpc, sockfd, sender, receiver>>

ServerGoes ==
    /\ server = "up"
    /\ server' = "gone"
    /\ UNCHANGED <<sent, ctrl, alive, mpc, sockfd, sender, receiver>>

-----------------------------------------------------------------------------
(* main() *)

\* A write() to an end that has gone: taken by the kernel, or SIGPIPE.
MayDie(gone) == alive' = TRUE \/ (gone /\ alive' = FALSE)

\* The login; a failed connect() to the server ends the process like SIGPIPE here.
Login ==
    /\ mpc = "login"
    /\ MayDie(server = "gone")
    /\ mpc' = IF alive' THEN "bluetooth" ELSE "ended"
    /\ UNCHANGED <<ctrl, source, sockfd, sender, receiver>>

\* connect() to the controller: exit(1) on failure, else the two threads.
Bluetooth ==
    /\ mpc = "bluetooth"
    /\ \/ mpc' = "ended" /\ alive' = FALSE /\ UNCHANGED <<spc, rpc>>
       \/ mpc' = "join" /\ spc' = "setup" /\ rpc' = "read" /\ UNCHANGED alive
    /\ UNCHANGED <<ctrl, source, sockfd, watched, line, written, got, passed>>

\* main returns when send_msg has; recv_msg ends with the process.
Join ==
    /\ mpc = "join" /\ spc = "done"
    /\ mpc' = "ended" /\ alive' = FALSE
    /\ UNCHANGED <<ctrl, source, sockfd, sender, receiver>>

-----------------------------------------------------------------------------
(* send_msg *)

Buffered == start + total

DeviceReadable == Buffered < arrived \/ device # "up"
SocketReadable == watched /\ (got < sent \/ server = "gone")

\* FD_SET of sockfd, which recv_msg may have set to -1 by now: then it is out of the
\* bounds of initset, which is fatal or harmless.
Setup ==
    /\ spc = "setup"
    /\ watched' = sockfd
    /\ alive' = TRUE \/ (~ sockfd /\ alive' = FALSE)
    /\ spc' = "select"
    /\ UNCHANGED <<ctrl, source, mpc, sockfd, line, written, receiver>>

\* select() of one second on both descriptors.  While only the server's is readable it
\* returns at once, and nothing is done: the test of sockfd is made after a timeout.
Select ==
    /\ spc = "select"
    /\ DeviceReadable \/ ~ SocketReadable
    /\ spc' = IF DeviceReadable THEN "read" ELSE IF sockfd THEN "select" ELSE "done"
    /\ UNCHANGED <<ctrl, source, alive, mpc, sockfd, watched, line, written, receiver>>

\* "sockfd = -1; return"
GiveUp == sockfd' = FALSE /\ spc' = "done" /\ UNCHANGED <<line, device, alive>>

\* Mutant: a read that ends in the middle of a line is passed on.
Read_NoLastByte ==
    /\ spc = "read"
    /\ \/ \E n \in 1 .. BUF_SIZE - total :
            /\ Buffered + n <= arrived
            /\ total' = total + n
            /\ spc' = "write"
            /\ UNCHANGED <<start, device, alive, sockfd>>
       \/ Buffered = arrived /\ device = "gone" /\ GiveUp
    /\ UNCHANGED <<ends, arrived, source, mpc, watched, written, receiver>>

\* Mutant: the end of the controller's stream is not told from a line to wait for.
Read_NoEnd ==
    /\ spc = "read"
    /\ \E n \in 0 .. BUF_SIZE - total :
        /\ Buffered + n <= arrived
        /\ total' = total + n
        /\ spc' = IF Buffered + n \in ends THEN "write" ELSE "select"
    /\ UNCHANGED <<start, ctrl, source, alive, mpc, sockfd, watched, written, receiver>>

\* n > 0 bytes: on to write() if the last one is a newline, else back to select().  When
\* they fill msg, its terminator goes past its end and may spoil what lies there.
Takes(n) ==
    /\ Buffered + n <= arrived
    /\ total' = total + n
    /\ spc' = IF Buffered + n \in ends THEN "write" ELSE "select"
    /\ alive' = TRUE \/ (total' = BUF_SIZE /\ spc' = "write" /\ alive' = FALSE)
    /\ UNCHANGED <<start, device, sockfd>>

\* -1: the byte before msg[total] is looked at all the same.
Fails ==
    /\ device' = "gone"
    /\ spc' = "select" \/ (total = 0 /\ spc' = "write")
    /\ UNCHANGED <<line, alive, sockfd>>

\* read() into what is left of msg; 0 is the end of the stream, or no room.
Read ==
    /\ spc = "read"
    /\ \/ \E n \in 1 .. BUF_SIZE - total : Takes(n)
       \/ total = BUF_SIZE /\ GiveUp
       \/ total < BUF_SIZE /\ Buffered = arrived /\ device = "gone" /\ GiveUp
       \/ total < BUF_SIZE /\ Buffered = arrived /\ device = "reset" /\ Fails
    /\ UNCHANGED <<ends, arrived, source, mpc, watched, written, receiver>>

\* Mutant: a failed write() is not looked at.
Write_Unchecked ==
    /\ spc = "write"
    /\ IF sockfd /\ total > 0 THEN MayDie(server = "gone") ELSE UNCHANGED alive
    /\ written' = written + total
    /\ start' = Buffered /\ total' = 0
    /\ spc' = "select"
    /\ UNCHANGED <<ctrl, source, sockfd, mpc, watched, receiver>>

\* write() of the line; nothing, or a descriptor of -1, counts as a failure.
Write ==
    /\ spc = "write"
    /\ IF sockfd /\ total > 0
       THEN /\ MayDie(server = "gone")
            /\ written' = written + total
            /\ start' = Buffered /\ total' = 0
            /\ spc' = "select"
            /\ UNCHANGED <<device, sockfd>>
       ELSE GiveUp /\ UNCHANGED written
    /\ UNCHANGED <<ends, arrived, source, mpc, watched, receiver>>

-----------------------------------------------------------------------------
(* recv_msg *)

\* The read() entered with the descriptor may outlive sockfd = -1.
RecvRead ==
    /\ rpc = "read"
    /\ \/ got' \in got + 1 .. sent /\ rpc' = "write" /\ UNCHANGED sockfd
       \/ /\ ~ sockfd \/ (got = sent /\ server = "gone")
          /\ rpc' = "done" /\ sockfd' = FALSE /\ UNCHANGED got
    /\ UNCHANGED <<ctrl, source, alive, mpc, sender, passed>>

\* The result of write() is not looked at.
RecvWrite ==
    /\ rpc = "write"
    /\ MayDie(device # "up")
    /\ passed' = got
    /\ rpc' = "read"
    /\ UNCHANGED <<ctrl, source, mpc, sockfd, sender, got>>

-----------------------------------------------------------------------------
Ends     == DeviceSends \/ DeviceGoes \/ ServerSends \/ ServerGoes
MainStep == Login \/ Bluetooth \/ Join
SendMsg  == Setup \/ Select \/ Read \/ Write
RecvMsg  == RecvRead \/ RecvWrite

Next == alive /\ (Ends \/ MainStep \/ SendMsg \/ RecvMsg)

Spec == Init /\ [][Next]_vars

\* The three threads are scheduled.
FairSpec ==
    /\ Spec
    /\ WF_vars(alive /\ MainStep) /\ WF_vars(alive /\ SendMsg) /\ WF_vars(alive /\ RecvMsg)

-----------------------------------------------------------------------------
(* Properties. *)

\* Whole lines of the controller reach the server, in order and each once, however the
\* stream is cut into reads; and send_msg gives up only when an end is gone or BUF_SIZE
\* bytes wait for the end of a line.
Relay == INSTANCE LineRelay WITH
            Limit <- BUF_SIZE,
            cut <- server = "gone" \/ device # "up",
            open <- spc # "done"

RelaysLines == Relay!Spec

\* When the controller goes, the bridge ends.
EndsWithDevice == (mpc = "join" /\ device # "up") ~> ~ alive

\* After recv_msg has seen the server go, the bridge ends once what the controller sent
\* stops at the end of a line.
EndsAtNextLine ==
    (mpc = "join" /\ ~ sockfd /\ written < arrived /\ arrived \in ends)
        ~> (~ alive \/ arrived \notin ends)
=============================================================================
