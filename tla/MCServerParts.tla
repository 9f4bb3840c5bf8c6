----------------------------- MODULE MCServerParts -----------------------------
(****************************************************************************)
(* Small instances for TLC of the three details of the server that          *)
(* IotServer leaves out: Replies, Messages and SharedStrtok.  They share no *)
(* state, so each behaviour is one of a single part, while the others stay  *)
(* as they begin.                                                           *)
(****************************************************************************)
EXTENDS Replies, Sequences, TLC

CONSTANTS
    SIZE, ARR_CNT, Lines, MaxLines, \* Messages
    Threads, Main, TOKENS           \* SharedStrtok; TOKENS is its ARR_CNT

VARIABLES
    part,       \* the one that moves
    stream, first, last, msg, pArray, spilt, to, text, alive,
    running, pc, buf, i, tokens, at, olds, crossed

messages == <<stream, first, last, msg, pArray, spilt, to, text, alive>>
strtok   == <<running, pc, buf, i, tokens, at, olds, crossed>>

\* [S]x\n, [T]x:y\n and [U]\n: a text, a text with a colon, and none.
ThreeLines == {<<"[", "S", "]", "x", "\n">>, <<"[", "T", "]", "x", ":", "y", "\n">>, <<"[", "U", "]", "\n">>}

M == INSTANCE Messages
S == INSTANCE SharedStrtok WITH pArray <- tokens, ARR_CNT <- TOKENS

ASSUME PartsAssumption == M!MessagesConstants /\ S!StrtokConstants

PartsInit ==
    /\ part \in {"replies", "messages", "strtok"}
    /\ Init /\ M!Init /\ S!Init

PartsNext ==
    /\ part' = part
    /\ \/ part = "replies"  /\ Next   /\ UNCHANGED <<messages, strtok>>
       \/ part = "messages" /\ M!Next /\ UNCHANGED <<vars, strtok>>
       \/ part = "strtok"   /\ S!Next /\ UNCHANGED <<vars, messages>>

PartsSpec == PartsInit /\ [][PartsNext]_<<part, vars, messages, strtok>>

ThreadSymmetry == Permutations(Threads)

\* What the server's clients send joined is routed by its first line: Messages.
SendsFirstLine == M!SendsFirstLine

\* No byte of an earlier message is sent again: Messages.
NothingOld == M!NothingOld

\* Two joined lines do not pass the end of pArray: Messages.
TwoLinesFit == M!TwoLinesFit

\* A message that no other thread's strtok() crossed is sent as it is: SharedStrtok.
OwnUnlessCrossed == S!OwnUnlessCrossed

\* main has something to compare with a password: SharedStrtok.
LoginHasPassword == S!LoginHasPassword
=============================================================================
