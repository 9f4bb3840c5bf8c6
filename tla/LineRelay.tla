------------------------------ MODULE LineRelay ------------------------------
(* What the Bluetooth bridge promises to the gate controller: its bytes go  *)
(* to the server in order, each once, only up to the end of a line; it      *)
(* gives up only when an end is gone or a line outgrows it.                 *)
EXTENDS Naturals

CONSTANTS
    Limit       \* bytes that may wait for the end of their line

VARIABLES
    ends,       \* positions of the newlines in the stream
    arrived,    \* bytes sent so far
    written,    \* bytes passed on so far
    cut,        \* the server or the controller has gone
    open        \* the relay still works

vars == <<ends, arrived, written, cut, open>>

Init == ends \subseteq Nat /\ arrived = 0 /\ written = 0 /\ cut = FALSE /\ open = TRUE

Arrive == arrived' > arrived /\ UNCHANGED <<ends, written, cut, open>>

Forward ==
    /\ open
    /\ \E p \in ends : written < p /\ p <= arrived /\ p - written <= Limit /\ written' = p
    /\ UNCHANGED <<ends, arrived, cut, open>>

Cut == cut' = TRUE /\ UNCHANGED <<ends, arrived, written, open>>

Stop ==
    /\ open /\ (cut \/ arrived - written >= Limit)
    /\ open' = FALSE
    /\ UNCHANGED <<ends, arrived, written, cut>>

Next == Arrive \/ Forward \/ Cut \/ Stop

Spec == Init /\ [][Next]_vars
=============================================================================
