---------------------------- MODULE MCGateMailbox ----------------------------
(* Small instances of GateMailbox for TLC. *)
EXTENDS GateMailbox

CONSTANTS a, b

\* atoi("67174B...") and atoi("B31632...").
TwoNumbers == [c \in Cards |-> IF c = a THEN 67174 ELSE 0]
=============================================================================
