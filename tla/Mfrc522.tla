------------------------------- MODULE Mfrc522 -------------------------------
(****************************************************************************)
(* The card reader driver, stm32/Core/Src/MFRC522.c, as main.c polls it:    *)
(* MFRC522_Init once, then every 200 ms MFRC522_Request and, if a card      *)
(* answered, MFRC522_Anticoll into mfrc522_id, both through MFRC522_ToCard. *)
(*                                                                          *)
(* The chip and the cards are external: a card that comes into the field is *)
(* IDLE, answers REQA and becomes READY, answers ANTICOLL and stays READY;  *)
(* what it does not expect in READY makes it IDLE without an answer.  An    *)
(* answer comes before the last poll, whole, cut short or in error, or not  *)
(* at all.  A byte is represented by where it comes from; bytes of          *)
(* different origin do not pass the checksum.                               *)
(****************************************************************************)
EXTENDS Integers, Sequences

CONSTANTS
    Cards,
    None,       \* no card
    POLLS,      \* readings of CommIrqReg: 2000
    MaxMoves    \* bound: times a card enters or leaves the field

Others == {"cmd", "atqa", "empty"}  \* bytes that come from no card
Bytes  == Cards \cup Others

ReaderConstants ==
    /\ Cards \cap Others = {} /\ None \notin Cards /\ None \notin [bytes : Seq(Bytes), bad : BOOLEAN]
    /\ POLLS \in Nat \ 0 .. 2 /\ MaxMoves \in Nat

VARIABLES
    timer,      \* TPrescalerReg, TReloadRegH, TReloadRegL
    framing,    \* BitFramingReg: bits of the last byte to send, 0 for all eight
    rxIRq,      \* CommIrqReg
    error,      \* ErrorReg & 0x1B
    fifo,
    answer,     \* what is in the air for the chip to receive, or None
    field,      \* the state of each card
    pc,         \* main, or where ToCard is
    call,       \* what it was called for
    i,          \* its loop counter
    id,         \* mfrc522_id
    seen,       \* the card this poll of main accepted, or None
    heard,      \* history: the cards that answered ANTICOLL in it
    disturbed,  \* history: a card moved, or an answer was spoilt, since it began
    misses,     \* history: polls in a row, undisturbed, that did not see a card that was alone
    moves

chip    == <<framing, rxIRq, error, fifo, answer>>
driver  == <<pc, call, i, id>>
history == <<seen, heard, disturbed, misses>>
vars    == <<timer, chip, field, driver, history, moves>>

TypeOK ==
    /\ timer \in [prescaler : 0 .. 255, high : 0 .. 255, low : 0 .. 255]
    /\ framing \in {0, 7} /\ rxIRq \in BOOLEAN /\ error \in BOOLEAN
    /\ fifo \in Seq(Bytes)
    /\ field \in [Cards -> {"away", "idle", "ready"}]
    /\ pc \in {"off", "main", "send", "poll", "fetch"} /\ call \in {"REQA", "ANTICOLL"}
    /\ i \in 0 .. POLLS /\ id \in [0 .. 4 -> Bytes]
    /\ seen \in Cards \cup {None} /\ heard \subseteq Cards /\ disturbed \in BOOLEAN
    /\ misses \in Nat /\ moves \in Nat

Init ==
    /\ timer = [prescaler |-> 0, high |-> 0, low |-> 0]
    /\ framing = 0 /\ rxIRq = FALSE /\ error = FALSE /\ fifo = <<>> /\ answer = None
    /\ field \in [Cards -> {"away", "idle"}]
    /\ pc = "off" /\ call = "REQA" /\ i = 0 /\ id = [b \in 0 .. 4 |-> "empty"]
    /\ seen = None /\ heard = {} /\ disturbed = FALSE /\ misses = 0 /\ moves = 0

-----------------------------------------------------------------------------
(* The cards. *)

Moves(c) ==
    /\ moves < MaxMoves /\ moves' = moves + 1
    /\ field' = [field EXCEPT ![c] = IF @ = "away" THEN "idle" ELSE "away"]
    /\ disturbed' = TRUE /\ misses' = 0
    /\ UNCHANGED <<timer, chip, driver, seen, heard>>

\* Whom a command in the air makes answer, and what becomes of the cards.
Answering == {c \in Cards : IF call = "REQA" THEN framing' = 7 /\ field[c] = "idle"
                            ELSE framing' = 0 /\ field[c] = "ready"}
After(c) == IF c \in Answering THEN "ready" ELSE IF field[c] = "away" THEN "away" ELSE "idle"

\* The answers arrive as one; UIDs of two cards collide.
Signal == IF Answering = {} THEN {None}
          ELSE IF call = "REQA" THEN {[bytes |-> <<"atqa", "atqa">>, bad |-> FALSE]}
          ELSE {[bytes |-> [b \in 1 .. 5 |-> CHOOSE c \in Answering : TRUE],
                 bad |-> \E c, d \in Answering : c # d]}

Spoilt(s) == {None} \cup {[s EXCEPT !.bad = TRUE]}
                \cup {[s EXCEPT !.bytes = SubSeq(@, 1, n)] : n \in 0 .. Len(s.bytes) - 1}

\* The chip has received it.
Receive ==
    /\ pc = "poll" /\ answer # None
    /\ fifo' = answer.bytes /\ error' = answer.bad /\ rxIRq' = TRUE /\ answer' = None
    /\ UNCHANGED <<timer, framing, field, driver, history, moves>>

-----------------------------------------------------------------------------
(* MFRC522_Init, and main's poll. *)

MFRC522_Init ==
    /\ pc = "off"
    /\ timer' = [prescaler |-> 169, high |-> 232, low |-> 3]
    /\ pc' = "main"
    /\ UNCHANGED <<chip, field, call, i, id, history, moves>>

MFRC522_Request ==
    /\ pc = "main"
    /\ call' = "REQA" /\ pc' = "send"
    /\ seen' = None /\ heard' = {} /\ disturbed' = FALSE
    /\ UNCHANGED <<timer, chip, field, i, id, misses, moves>>

\* Mutant: BitFramingReg is not set back for ANTICOLL.
Framing_Left == IF call = "REQA" THEN 7 ELSE framing

Framing == IF call = "REQA" THEN 7 ELSE 0

\* The command is sent from the buffer that takes the answer.
Sent == IF call = "REQA" THEN id ELSE [id EXCEPT ![0] = "cmd", ![1] = "cmd"]

-----------------------------------------------------------------------------
(* MFRC522_ToCard *)

\* Interrupts cleared, FIFO flushed and filled, StartSend.
Send ==
    /\ pc = "send"
    /\ framing' = Framing /\ id' = Sent
    /\ rxIRq' = FALSE /\ fifo' = <<>> /\ error' = FALSE
    /\ field' = [c \in Cards |-> After(c)]
    /\ \/ answer' \in Signal /\ UNCHANGED <<disturbed, misses>>
       \/ /\ Answering # {}
          /\ answer' \in UNION {Spoilt(s) : s \in Signal} /\ disturbed' = TRUE /\ misses' = 0
    /\ heard' = IF call = "ANTICOLL" THEN Answering ELSE heard
    /\ i' = POLLS /\ pc' = "poll"
    /\ UNCHANGED <<timer, call, seen, moves>>

\* One reading of CommIrqReg.  (TimerIRq comes long after the last one: see TimerAsCommented.)
PollIrq ==
    /\ pc = "poll" /\ (answer # None => i > 2)
    /\ i' = i - 1
    /\ pc' = IF i' = 0 \/ rxIRq THEN "fetch" ELSE "poll"
    /\ UNCHANGED <<timer, chip, field, call, id, history, moves>>

\* At least one byte is read, even from an empty FIFO.
Fetched == IF fifo = <<>> THEN <<"empty">> ELSE fifo
OK == i # 0 /\ ~ error

\* One card on the reader.
Alone == \E c \in Cards : {d \in Cards : field[d] # "away"} = {c}

\* Back in main: with a card or without.
Returns(c) ==
    /\ pc' = "main" /\ call' = call
    /\ seen' = c
    /\ misses' = IF c # None \/ disturbed \/ ~ Alone THEN 0 ELSE misses + 1

\* MFRC522_Request: sixteen bits, else no card.
FetchRequest ==
    /\ pc = "fetch" /\ call = "REQA"
    /\ IF OK /\ Len(fifo) = 2
       THEN pc' = "send" /\ call' = "ANTICOLL" /\ UNCHANGED <<seen, misses>>
       ELSE Returns(None)
    /\ UNCHANGED <<timer, chip, field, i, id, heard, disturbed, moves>>

\* Mutant: the bytes that arrived are compared, not the five of the buffer.
Checked_Arrived(buf) == {c \in Cards : Len(fifo) > 0 /\ \A b \in 1 .. Len(fifo) : fifo[b] = c}

\* The checksum over the five bytes.
Checked(buf) == {c \in Cards : \A b \in 0 .. 4 : buf[b] = c}

\* MFRC522_Anticoll: the length of the answer is not looked at.
FetchId ==
    /\ pc = "fetch" /\ call = "ANTICOLL"
    /\ id' = IF OK THEN [b \in 0 .. 4 |-> IF b < Len(Fetched) THEN Fetched[b + 1] ELSE id[b]] ELSE id
    /\ IF OK /\ Checked(id') # {} THEN \E c \in Checked(id') : Returns(c) ELSE Returns(None)
    /\ UNCHANGED <<timer, chip, field, i, heard, disturbed, moves>>

-----------------------------------------------------------------------------
ToCard == Send \/ PollIrq \/ FetchRequest \/ FetchId
Poll   == MFRC522_Request \/ ToCard

Next == (\E c \in Cards : Moves(c)) \/ Receive \/ MFRC522_Init \/ Poll

Spec == Init /\ [][Next]_vars

-----------------------------------------------------------------------------
(* Properties. *)

\* An id is accepted only of a card that answered in this very poll, although the buffer
\* keeps the bytes of earlier cards and the length of the answer is not checked.
AcceptsWhoAnswered == seen # None => seen \in heard /\ \A b \in 0 .. 4 : id[b] = seen

\* A card alone on the reader is seen at every other poll at least: main does not halt or
\* select it, and the REQA that finds it READY sends it back to IDLE.
SeenEveryOther == misses <= 1

\* MFRC522.c:154: the timer is set to 24 ms (in microseconds, by the formula given there).
TimerAsCommented ==
    pc # "off" => (timer.prescaler * (256 * timer.high + timer.low) * 100) \div 678 \in 24000 .. 24999
=============================================================================
