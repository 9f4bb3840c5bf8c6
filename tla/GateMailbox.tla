------------------------------ MODULE GateMailbox ------------------------------
(****************************************************************************)
(* The gate controller and the database, stm32/Core/Src/main.c: the UART    *)
(* interrupt fills btData and sets btFlag while the main loop copies,       *)
(* handles and clears them; the statuses of the cards follow the taps and   *)
(* the one GETDB answer, and the database follows the events.               *)
(*                                                                          *)
(* A line is two pieces, its command and its arguments: what the interrupt  *)
(* writes and the main loop copies one character at a time can be mixed of  *)
(* two lines.  What lies between the UART and the database (bridge, server, *)
(* gateway) is external: it keeps the order, and loses lines.               *)
(****************************************************************************)
EXTENDS Integers, Sequences

CONSTANTS
    Cards,      \* myCards
    None,       \* no card, no line
    Number,     \* what atoi makes of a card's id
    Fees,       \* fees the gateway may answer
    MaxTaps,    \* bound: cards shown in a run
    MaxServo,   \* bound: lines of other clients that reach the controller
    MaxBoots    \* bound: times the controller starts

Statuses == [Cards -> {0, 1}]

ASSUME MailboxAssumption ==
    /\ None \notin Cards
    /\ Number \in [Cards -> Nat] /\ Fees \subseteq Nat
    /\ MaxTaps \in Nat /\ MaxServo \in Nat /\ MaxBoots \in Nat \ {0}

Kinds    == {"GETDB", "EXIT", "SERVO"}
Line(k, c, f, s) == [kind |-> k, card |-> c, fee |-> f, status |-> s]
Zeros    == [c \in Cards |-> 0]
NoLine   == Line("SERVO", None, 0, Zeros)
Lines    == {l \in [kind : Kinds, card : Cards \cup {None}, fee : Fees \cup {0}, status : Statuses] :
                l.kind = "EXIT" => l.card \in Cards}
Requests == [cmd : {"GETDB"}, card : {None}] \cup [cmd : {"ENTER", "LEAVE"}, card : Cards]

VARIABLES
    out,        \* lines on their way to the database
    db,         \* car.state
    air,        \* lines on their way to the controller
    half,       \* the line the interrupt has begun to store, or None
    btData,     \* the pieces it has stored, each with its line
    btFlag,
    pc,         \* the main loop
    recvBuf,    \* its copy
    status,     \* myCards[].status
    shown,      \* the LCD: the amount, and (history) the fee of the line
    taps, servos, boots,
    done,       \* history: lines completed since the boot
    handled,    \* history: lines handled since the boot
    crowded,    \* history: a line began while another waited to be handled
    tapped,     \* history: cards shown since the last GETDB request
    crossed,    \* history: cards whose status was overwritten after their last tap
    unsure      \* history: cards whose last event was lost or crossed

mailbox == <<half, btData, btFlag, done, crowded>>
main    == <<pc, recvBuf, handled>>
far     == <<out, db, air>>
history == <<tapped, crossed, unsure>>
bounds  == <<taps, servos, boots>>
vars    == <<far, mailbox, main, status, shown, bounds, history>>

NoFee == [amount |-> 0, fee |-> 0]

TypeOK ==
    /\ out \in Seq(Requests) /\ db \in Statuses /\ air \in Seq(Lines)
    /\ half \in Lines \cup {None} /\ btData \in [cmd : Lines, args : Lines] /\ btFlag \in {0, 1}
    /\ pc \in {"loop", "cmd", "args", "handle", "clear"}
    /\ recvBuf \in [cmd : Lines, args : Lines]
    /\ status \in Statuses /\ shown \in [amount : Nat, fee : Nat]
    /\ {taps, servos, boots, done, handled} \subseteq Nat /\ crowded \in BOOLEAN
    /\ {tapped, crossed, unsure} \subseteq SUBSET Cards

\* Power on: nothing stored, all cards outside, GETDB requested.
Booted ==
    /\ half' = None /\ btData' = [cmd |-> NoLine, args |-> NoLine] /\ btFlag' = 0
    /\ pc' = "loop" /\ recvBuf' = [cmd |-> NoLine, args |-> NoLine]
    /\ status' = Zeros /\ shown' = NoFee
    /\ done' = 0 /\ handled' = 0 /\ crowded' = FALSE

GetDb == [cmd |-> "GETDB", card |-> None]

Init ==
    /\ half = None /\ btData = [cmd |-> NoLine, args |-> NoLine] /\ btFlag = 0
    /\ pc = "loop" /\ recvBuf = [cmd |-> NoLine, args |-> NoLine]
    /\ status = Zeros /\ shown = NoFee
    /\ done = 0 /\ handled = 0 /\ crowded = FALSE
    /\ out = <<GetDb>> /\ db \in Statuses /\ air = <<>>
    /\ taps = 0 /\ servos = 0 /\ boots = 1
    /\ tapped = {} /\ crossed = Cards /\ unsure = Cards

\* A GETDB request or its answer is still under way.
Asked == \/ \E k \in 1 .. Len(out) : out[k].cmd = "GETDB"
         \/ \E k \in 1 .. Len(air) : air[k].kind = "GETDB"

\* The power fails.
Boot ==
    /\ boots < MaxBoots
    /\ boots' = boots + 1
    /\ Booted
    /\ out' = Append(out, GetDb)
    /\ tapped' = IF Asked THEN tapped ELSE {}
    /\ crossed' = Cards /\ unsure' = Cards
    /\ UNCHANGED <<db, air, taps, servos>>

-----------------------------------------------------------------------------
(* Between the controller and the database. *)

\* The gateway's handlers, for a line that reaches it: an event is taken if it is news,
\* a LEAVE is answered with a fee, GETDB with the states.
Answered(r) ==
    \/ r.cmd = "ENTER" /\ db' = [db EXCEPT ![r.card] = 1] /\ UNCHANGED air
    \/ /\ r.cmd = "LEAVE" /\ db[r.card] = 1
       /\ db' = [db EXCEPT ![r.card] = 0]
       /\ \E f \in Fees : air' = Append(air, Line("EXIT", r.card, f, Zeros))
    \/ r.cmd = "LEAVE" /\ db[r.card] = 0 /\ UNCHANGED <<db, air>>
    \/ r.cmd = "GETDB" /\ air' = Append(air, Line("GETDB", None, 0, db)) /\ UNCHANGED db

Arrives ==
    /\ out # <<>>
    /\ out' = Tail(out)
    /\ Answered(Head(out))
    /\ unsure' = unsure \ ({Head(out).card} \ crossed)
    /\ UNCHANGED <<mailbox, main, status, shown, bounds, tapped, crossed>>

\* Joined with another line, or sent while a connection is down.
Lost ==
    \/ /\ out # <<>>
       /\ out' = Tail(out)
       /\ unsure' = unsure \cup ({Head(out).card} \cap Cards)
       /\ UNCHANGED <<db, air, mailbox, main, status, shown, bounds, tapped, crossed>>
    \/ /\ air # <<>>
       /\ air' = Tail(air)
       /\ UNCHANGED <<out, db, mailbox, main, status, shown, bounds, history>>

\* A client of the server sends a SERVO command, or any other line.
OtherClient ==
    /\ servos < MaxServo
    /\ servos' = servos + 1
    /\ air' = Append(air, NoLine)
    /\ UNCHANGED <<out, db, mailbox, main, status, shown, taps, boots, history>>

-----------------------------------------------------------------------------
(* HAL_UART_RxCpltCallback, for all but the last character, and for that. *)

\* Mutant: the flag is set with the first character.
LineBegins_FlagEarly ==
    /\ half = None /\ air # <<>>
    /\ half' = Head(air) /\ air' = Tail(air)
    /\ btData' = [btData EXCEPT !.cmd = Head(air)]
    /\ crowded' = (crowded \/ btFlag = 1)
    /\ btFlag' = 1
    /\ UNCHANGED <<out, db, done, main, status, shown, bounds, history>>

LineBegins ==
    /\ half = None /\ air # <<>>
    /\ half' = Head(air) /\ air' = Tail(air)
    /\ btData' = [btData EXCEPT !.cmd = Head(air)]
    /\ crowded' = (crowded \/ btFlag = 1)
    /\ UNCHANGED <<out, db, btFlag, done, main, status, shown, bounds, history>>

LineEnds ==
    /\ half # None
    /\ btData' = [btData EXCEPT !.args = half]
    /\ btFlag' = 1 /\ half' = None
    /\ done' = done + 1
    /\ UNCHANGED <<far, crowded, main, status, shown, bounds, history>>

-----------------------------------------------------------------------------
(* The main loop. *)

\* Mutant: the event is chosen before the status is toggled.
Tap_OldStatus ==
    /\ pc = "loop" /\ taps < MaxTaps
    /\ \E c \in Cards :
        /\ status' = [status EXCEPT ![c] = 1 - @]
        /\ out' = Append(out, [cmd |-> IF status[c] = 1 THEN "ENTER" ELSE "LEAVE", card |-> c])
        /\ tapped' = tapped \cup {c} /\ crossed' = crossed \ {c}
    /\ taps' = taps + 1
    /\ UNCHANGED <<db, air, mailbox, main, shown, servos, boots, unsure>>

\* A registered card: its status toggles, and the event tells the new one.
Tap ==
    /\ pc = "loop" /\ taps < MaxTaps
    /\ \E c \in Cards :
        /\ status' = [status EXCEPT ![c] = 1 - @]
        /\ out' = Append(out, [cmd |-> IF status'[c] = 1 THEN "ENTER" ELSE "LEAVE", card |-> c])
        /\ tapped' = tapped \cup {c} /\ crossed' = crossed \ {c}
    /\ taps' = taps + 1
    /\ UNCHANGED <<db, air, mailbox, main, shown, servos, boots, unsure>>

SeesFlag ==
    /\ pc = "loop" /\ btFlag = 1
    /\ pc' = "cmd"
    /\ UNCHANGED <<far, mailbox, recvBuf, handled, status, shown, bounds, history>>

\* strcpy of btData, while the interrupt may write it.
CopyCmd ==
    /\ pc = "cmd"
    /\ recvBuf' = [recvBuf EXCEPT !.cmd = btData.cmd]
    /\ pc' = "args"
    /\ UNCHANGED <<far, mailbox, handled, status, shown, bounds, history>>

CopyArgs ==
    /\ pc = "args"
    /\ recvBuf' = [recvBuf EXCEPT !.args = btData.args]
    /\ pc' = "handle"
    /\ UNCHANGED <<far, mailbox, handled, status, shown, bounds, history>>

\* GETDB, if it has its five fields: every status is overwritten.
TakesStatuses == recvBuf.cmd.kind = "GETDB" /\ recvBuf.args.kind = "GETDB"

\* EXIT: the second field is shown as the fee.
ShowsFee == recvBuf.cmd.kind = "EXIT" /\ recvBuf.args.kind = "EXIT"

\* bluetooth_Event, after the copy.  An EXIT with the arguments of another line shows
\* some number.
Handle ==
    /\ pc = "handle"
    /\ IF TakesStatuses
       THEN /\ status' = recvBuf.args.status
            /\ crossed' = tapped /\ unsure' = tapped
       ELSE UNCHANGED <<status, crossed, unsure>>
    /\ shown' = IF ShowsFee
                THEN [amount |-> Number[recvBuf.args.card], fee |-> recvBuf.args.fee]
                ELSE IF recvBuf.cmd.kind = "EXIT" THEN NoFee ELSE shown
    /\ handled' = handled + 1
    /\ pc' = "clear"
    /\ UNCHANGED <<far, mailbox, recvBuf, bounds, tapped>>

Clear ==
    /\ pc = "clear"
    /\ btFlag' = 0
    /\ pc' = "loop"
    /\ UNCHANGED <<far, half, btData, done, crowded, recvBuf, handled, status, shown, bounds, history>>

-----------------------------------------------------------------------------
Interrupt == LineBegins \/ LineEnds
Loop      == SeesFlag \/ CopyCmd \/ CopyArgs \/ Handle \/ Clear

Next == Boot \/ Arrives \/ Lost \/ OtherClient \/ Tap \/ Interrupt \/ Loop

Spec == Init /\ [][Next]_vars

-----------------------------------------------------------------------------
(* Properties. *)

\* The mailbox is exact as long as no line begins while another waits: every line is
\* handled once, whole, and none is handled that was not completed.
MailboxExact ==
    ~ crowded =>
        /\ done - handled = (IF btFlag = 1 /\ pc # "clear" THEN 1 ELSE 0)
        /\ pc = "handle" => recvBuf.cmd = recvBuf.args

\* With no event of a card under way, its status is the state of the database: taps and
\* events that the database ignores do not drift apart, and after a lost or crossed
\* event the next one that arrives brings both together again.
StatusFollowsDatabase ==
    \A c \in Cards \ unsure :
        (\A k \in 1 .. Len(out) : out[k].card # c) => status[c] = db[c]

\* main.c:314: the message is [CMD]@EXIT@CAR_NUM@FEE, and the fee is displayed.
ShowsTheFee == shown.amount = shown.fee
=============================================================================
