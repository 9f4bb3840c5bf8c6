----------------------------- MODULE MCPeripherals -----------------------------
(****************************************************************************)
(* Small instances for TLC of three programs that stand alone: the display  *)
(* driver Lcd, the card reader driver Mfrc522 and the console client        *)
(* Console.  They share no state, so each behaviour is one of a single      *)
(* part, while the others stay as they begin.                               *)
(****************************************************************************)
EXTENDS Lcd

CONSTANTS
    Cards, None, POLLS, MaxMoves,   \* Mfrc522
    MaxLines                        \* Console

VARIABLES
    part,       \* the one that moves
    timer, framing, rxIRq, error, fifo, answer, field, pc, call, i, id, seen, heard, disturbed, misses, moves,
    server, typed, tty, hungup, stdin, sock, spc, msg, rpc, sent, alive

reader  == <<timer, framing, rxIRq, error, fifo, answer, field, pc, call, i, id, seen, heard, disturbed, misses, moves>>
console == <<server, typed, tty, hungup, stdin, sock, spc, msg, rpc, sent, alive>>

\* "A" and "gt".
TwoTexts == {<<65>>, <<103, 116>>}

R == INSTANCE Mfrc522
C == INSTANCE Console

ASSUME PartsAssumption == R!ReaderConstants /\ C!ConsoleConstants

PartsInit ==
    /\ part \in {"lcd", "reader", "console"}
    /\ Init /\ R!Init /\ C!Init
    /\ part # "lcd" => port = Zero /\ bits = 4 /\ half = NoHalf
    /\ part # "reader" => field = [c \in Cards |-> "away"]

PartsNext ==
    /\ part' = part
    /\ \/ part = "lcd"     /\ Next   /\ UNCHANGED <<reader, console>>
       \/ part = "reader"  /\ R!Next /\ UNCHANGED <<vars, console>>
       \/ part = "console" /\ C!Next /\ UNCHANGED <<vars, reader>>

\* The fairness of Console, where it is the one that moves.
PartsSpec ==
    /\ PartsInit /\ [][PartsNext]_<<part, vars, reader, console>>
    /\ WF_console(part = "console" /\ alive /\ C!SendMsg)
    /\ WF_console(part = "console" /\ alive /\ C!RecvEnds)
    /\ WF_console(part = "console" /\ alive /\ C!Join)

\* An id is accepted only of a card that answered in the same poll: Mfrc522.
AcceptsWhoAnswered == R!AcceptsWhoAnswered

\* A card alone on the reader is seen at every other poll at least: Mfrc522.
SeenEveryOther == R!SeenEveryOther

\* Every part of every line typed is sent once and in order, or still to come: Console.
NothingLost == C!NothingLost

\* "quit" ends the client: Console.
QuitEnds == C!QuitEnds

\* The client ends when the server goes: Console.
EndsWithServer == C!EndsWithServer
=============================================================================
