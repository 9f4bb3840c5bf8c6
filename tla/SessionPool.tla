----------------------------- MODULE SessionPool -----------------------------
(* What the message server promises about its sessions, with no table, no   *)
(* threads and no mutex: at most Limit of them at once, each entered once,  *)
(* left once, and counted exactly.                                          *)
EXTENDS Naturals

CONSTANTS Sessions, Limit

VARIABLES waiting, active, count

Init == waiting = Sessions /\ active = {} /\ count = 0

Enter(s) ==
    /\ s \in waiting
    /\ count < Limit
    /\ waiting' = waiting \ {s}
    /\ active' = active \cup {s}
    /\ count' = count + 1

Leave(s) ==
    /\ s \in active
    /\ active' = active \ {s}
    /\ count' = count - 1
    /\ waiting' = waiting

Next == \E s \in Sessions : Enter(s) \/ Leave(s)

Spec == Init /\ [][Next]_<<waiting, active, count>>
=============================================================================
