------------------------------ MODULE Messages ------------------------------
(****************************************************************************)
(* How a client thread of the server (clnt_connection in rpi/iot_server.c)  *)
(* takes one read() of its client's stream apart: strtok() over msg, which  *)
(* is cleared before each read(), into pArray, which is not.  The thread    *)
(* sends [from]pArray[1] to pArray[0], whatever else was read.              *)
(*                                                                          *)
(* A byte of the stream is represented by its position; only what strtok()  *)
(* and the ends of lines tell apart is kept of it.  Two threads in strtok() *)
(* at a time are not modelled here: see Receive in IotServer.               *)
(****************************************************************************)
EXTENDS Integers, Sequences, FiniteSets, SequencesExt, FiniteSetsExt

CONSTANTS
    SIZE,       \* bytes of one read(), sizeof(msg) - 1
    ARR_CNT,
    Lines,      \* lines a client sends
    MaxLines    \* bound: lines in the stream

\* An address in brackets, without a colon, and a text without a bracket: "[ADDRESS]TEXT\n".
IsLine(l) ==
    \E a \in 3 .. Len(l) - 1 :
        /\ l[1] = "[" /\ l[a] = "]" /\ l[Len(l)] = "\n"
        /\ \A j \in 2 .. Len(l) - 1 : l[j] \notin {"[", "\n"} /\ (l[j] = "]" => j = a)
        /\ \A j \in 2 .. a - 1 : l[j] # ":"

MessagesConstants ==
    /\ SIZE \in Nat \ {0} /\ ARR_CNT \in Nat \ 0 .. 3 /\ MaxLines \in Nat
    /\ Lines \subseteq Seq(STRING) /\ \A l \in Lines : IsLine(l)

NUL  == 0
Null == -1          \* a pointer that was never set

VARIABLES
    stream,     \* what the client wrote
    first, last,\* positions of the bytes of the last read()
    msg,        \* the position in each place of msg, or NUL
    pArray,     \* offsets into msg; place ARR_CNT is not in the array
    spilt,      \* that place was written by the last read()
    to, text,   \* what was sent on, as positions
    alive

vars == <<stream, first, last, msg, pArray, spilt, to, text, alive>>

Init ==
    /\ stream = <<>>
    /\ first = 1 /\ last = 0
    /\ msg = [o \in 0 .. SIZE |-> NUL] /\ pArray = [k \in 0 .. ARR_CNT |-> Null]
    /\ spilt = FALSE /\ to = <<>> /\ text = <<>> /\ alive = TRUE

-----------------------------------------------------------------------------
(* strtok() *)

IsOneOf(buf, o, delims) == buf[o] # NUL /\ stream[buf[o]] \in delims

SkipFrom(buf, o, delims) == Min({p \in o .. SIZE : ~ IsOneOf(buf, p, delims)})
EndFrom(buf, o, delims)  == Min({p \in o .. SIZE : buf[p] = NUL \/ IsOneOf(buf, p, delims)})

\* Mutant: the text is cut at colons, like the address.
Delims_Colon(k) == {"[", ":", "]"}

\* "[:]" for the first token, "[]" for the others.
Delims(k) == IF k = 0 THEN {"[", ":", "]"} ELSE {"[", "]"}

\* The token of call k, sought from o on; start = end at the end of msg.
TokenFrom(buf, o, k) ==
    LET s == SkipFrom(buf, o, Delims(k))
    IN  [start |-> s, end |-> EndFrom(buf, s, Delims(k))]

\* Where a call goes on that is given NULL.
Resume(buf, o) == IF buf[o] = NUL THEN o ELSE o + 1

\* What each call finds.
Tokens(buf) ==
    LET found[k \in 0 .. ARR_CNT + 1] ==
            IF k = 0 THEN <<>>
            ELSE LET f == found[k - 1]
                 IN  Append(f, TokenFrom(buf, IF k = 1 THEN 0 ELSE Resume(buf, f[k - 1].end), k - 1))
    IN  found[ARR_CNT + 1]

\* Mutant: strsep() for strtok(): empty tokens are stored too.
Stored_All(tokens) == 0 .. ARR_CNT

\* Tokens the loop stores: "i++ >= ARR_CNT" stops it after ARR_CNT + 1.
Stored(tokens) == {k \in 0 .. ARR_CNT : tokens[k + 1].start # tokens[k + 1].end}

\* Each of them ends with a NUL.
Cut(buf, ends) == [o \in 0 .. SIZE |-> IF o \in ends THEN NUL ELSE buf[o]]

StringAt(buf, o) == SubSeq([p \in 1 .. SIZE + 1 |-> buf[p - 1]], o + 1, EndFrom(buf, o, {}))

-----------------------------------------------------------------------------
(* clnt_connection *)

\* Mutant: msg is not cleared.
Filled_NoMemset(n) == [o \in 0 .. SIZE |-> IF o < n THEN last + 1 + o ELSE IF o = n THEN NUL ELSE msg[o]]

\* memset, read() of n bytes, and the terminator.
Filled(n) == [o \in 0 .. SIZE |-> IF o < n THEN last + 1 + o ELSE NUL]

Receive(n) ==
    \E buf \in {Filled(n)} : \E tokens \in {Tokens(buf)} : \E stored \in {Stored(tokens)} :
        /\ first' = last + 1 /\ last' = last + n
        /\ msg' = Cut(buf, {tokens[k + 1].end : k \in stored})
        /\ pArray' = [k \in 0 .. ARR_CNT |-> IF k \in stored THEN tokens[k + 1].start ELSE pArray[k]]
        /\ spilt' = (ARR_CNT \in stored)
        /\ UNCHANGED stream

\* What send_msg is given: with no address at all, or with what lies behind pArray
\* overwritten, the thread may take the server down.
Sends ==
    /\ alive' = TRUE \/ (alive' = FALSE /\ spilt')
    /\ to' = StringAt(msg', pArray'[0])
    /\ text' = IF pArray'[1] = Null THEN <<>> ELSE StringAt(msg', pArray'[1])

SegFault == alive' = FALSE /\ UNCHANGED <<to, text>>

LineEnds == {0} \cup {p \in 1 .. Len(stream) : stream[p] = "\n"}

\* The client writes one more line.
Write ==
    /\ Cardinality(LineEnds) <= MaxLines
    /\ \E l \in Lines : stream' = stream \o l
    /\ UNCHANGED <<first, last, msg, pArray, spilt, to, text, alive>>

\* One turn of the thread's loop.
Read ==
    \E n \in 1 .. SIZE :
        /\ alive /\ last + n <= Len(stream)
        /\ Receive(n)
        /\ IF pArray'[0] = Null THEN SegFault ELSE Sends

Next == Write \/ Read

Spec == Init /\ [][Next]_vars

-----------------------------------------------------------------------------
(* Properties. *)

\* The last read() was of whole lines.
WholeLines == first - 1 \in LineEnds /\ last \in LineEnds /\ last > 0

Byte(k)  == Min({p \in first .. last : stream[p] = k})
From(a, b) == [k \in 1 .. b - a + 1 |-> a + k - 1]

\* A read() of whole lines sends the text of its first line to the address of that line,
\* whatever the reads before it were cut into and left in pArray.
SendsFirstLine ==
    WholeLines => to = From(first + 1, Byte("]") - 1) /\ text = From(Byte("]") + 1, Byte("\n"))

\* Nothing that is sent was read before: an entry of pArray that was left from an earlier
\* message shows the new one, or nothing.
NothingOld == \A k \in ToSet(to) \cup ToSet(text) : first <= k

\* The loop writes past the end of pArray, but not for two whole lines joined in one read().
TwoLinesFit == WholeLines /\ Cardinality(LineEnds \cap first .. last) <= 2 => ~ spilt /\ alive
=============================================================================
