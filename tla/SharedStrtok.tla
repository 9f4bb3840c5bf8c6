----------------------------- MODULE SharedStrtok -----------------------------
(****************************************************************************)
(* strtok() keeps its place in one static pointer, and main() and every     *)
(* client thread of rpi/iot_server.c call it without a lock: a call that    *)
(* continues a string continues the string of whoever called last.          *)
(*                                                                          *)
(* Messages has the bytes of one thread's buffer; here a buffer is known by *)
(* the tokens in it and a pointer is <<thread, token>>.  What a thread does *)
(* with a stranger's bytes while they change is not followed any further.   *)
(****************************************************************************)
EXTENDS Naturals, FiniteSets

CONSTANTS
    Threads,    \* the client threads
    Main,
    ARR_CNT

StrtokConstants == Main \notin Threads /\ ARR_CNT \in Nat \ 0 .. 1

All  == Threads \cup {Main}
Null == <<Main, 0>>

VARIABLES
    running,    \* client threads that were started and have not ended
    pc,         \* "read", "call" and "store" in strtok(), "use" of the tokens
    buf,        \* how many tokens are in msg (main: in idpasswd)
    i,
    pArray,     \* its first two places
    at,         \* where a call of strtok() found the static pointer
    olds,       \* that pointer
    crossed     \* history: threads in whose taking apart another one called strtok()

vars == <<running, pc, buf, i, pArray, at, olds, crossed>>

Init ==
    /\ running = {} /\ olds = Null /\ crossed = {}
    /\ pc = [t \in All |-> "read"]
    /\ buf = [t \in All |-> 0] /\ i = [t \in All |-> 0]
    /\ pArray = [t \in All |-> [k \in {0, 1} |-> Null]] /\ at = [t \in All |-> Null]

\* What a client writes: its login has a password, a message may be without a text.
Read(t) ==
    /\ pc[t] = "read" /\ t \in running \cup {Main}
    /\ \E tokens \in IF t = Main THEN {2} ELSE {1, 2} : buf' = [buf EXCEPT ![t] = tokens]
    /\ pc' = [pc EXCEPT ![t] = "call"] /\ crossed' = crossed \ {t}
    /\ UNCHANGED <<running, i, pArray, at, olds>>

\* What another thread is doing meanwhile is no longer its own affair.
Crosses(t) == crossed' = crossed \cup {u \in All \ {t} : pc[u] # "read"}

\* Mutant: strtok(NULL, ...) for the first token too.
Load_Continues(t) ==
    /\ pc[t] = "call"
    /\ at' = [at EXCEPT ![t] = olds]
    /\ pc' = [pc EXCEPT ![t] = "store"]
    /\ Crosses(t)
    /\ UNCHANGED <<running, buf, i, pArray, olds>>

\* strtok(msg, ...) begins with the own string, strtok(NULL, ...) where the pointer is.
Load(t) ==
    /\ pc[t] = "call"
    /\ at' = [at EXCEPT ![t] = IF i[t] = 0 THEN <<t, 1>> ELSE olds]
    /\ pc' = [pc EXCEPT ![t] = "store"]
    /\ Crosses(t)
    /\ UNCHANGED <<running, buf, i, pArray, olds>>

Found(t) == at[t] # Null /\ at[t][2] <= buf[at[t][1]]

\* pArray[i] = pToken; if(i++ >= ARR_CNT) break
Taken(t) ==
    /\ i' = [i EXCEPT ![t] = @ + 1]
    /\ pArray' = IF i[t] <= 1 THEN [pArray EXCEPT ![t][i[t]] = at[t]] ELSE pArray
    /\ pc' = [pc EXCEPT ![t] = IF i[t] >= ARR_CNT THEN "use" ELSE "call"]

\* The pointer is left behind the token, or at the end where there is none.
Store(t) ==
    /\ pc[t] = "store"
    /\ \/ Found(t) /\ Taken(t) /\ olds' = <<at[t][1], at[t][2] + 1>>
       \/ ~ Found(t) /\ olds' = at[t] /\ pc' = [pc EXCEPT ![t] = "use"] /\ UNCHANGED <<i, pArray>>
    /\ at' = [at EXCEPT ![t] = Null]
    /\ Crosses(t)
    /\ UNCHANGED <<running, buf>>

Own(t) == pArray[t][0] = <<t, 1>> /\ (buf[t] = 2 => pArray[t][1] = <<t, 2>>)

\* Mutant: pArray is local to the loop.
Login_FreshArray ==
    /\ pc[Main] = "use"
    /\ \/ Own(Main) /\ \E t \in Threads \ running : running' = running \cup {t}
       \/ running' = running
    /\ pc' = [pc EXCEPT ![Main] = "read"]
    /\ pArray' = [pArray EXCEPT ![Main] = [k \in {0, 1} |-> Null]] /\ i' = [i EXCEPT ![Main] = 0]
    /\ UNCHANGED <<buf, at, olds, crossed>>

\* main: the login is accepted, and a thread started, or refused.
Login ==
    /\ pc[Main] = "use"
    /\ \/ Own(Main) /\ \E t \in Threads \ running : running' = running \cup {t}
       \/ running' = running
    /\ pc' = [pc EXCEPT ![Main] = "read"] /\ i' = [i EXCEPT ![Main] = 0]
    /\ UNCHANGED <<buf, pArray, at, olds, crossed>>

\* A client thread sends its message, and clears its buffer for the next.
Send(t) ==
    /\ t \in Threads /\ pc[t] = "use"
    /\ pc' = [pc EXCEPT ![t] = "read"] /\ buf' = [buf EXCEPT ![t] = 0]
    /\ i' = [i EXCEPT ![t] = 0]
    /\ UNCHANGED <<running, pArray, at, olds, crossed>>

\* Its client has gone; a later thread has variables of its own.
Leave(t) ==
    /\ t \in running /\ pc[t] = "read"
    /\ running' = running \ {t}
    /\ pArray' = [pArray EXCEPT ![t] = [k \in {0, 1} |-> Null]]
    /\ UNCHANGED <<pc, buf, i, at, olds, crossed>>

Parses(t) == Load(t) \/ Store(t) \/ Send(t) \/ (t = Main /\ Login)

Next == \E t \in All : Read(t) \/ Parses(t) \/ Leave(t)

Spec == Init /\ [][Next]_vars

-----------------------------------------------------------------------------
(* Properties. *)

\* A message goes to its own address with its own text, unless another thread called
\* strtok() while it was taken apart: what an earlier crossing left in the static pointer
\* or in pArray does it no harm.
OwnUnlessCrossed == \A t \in All : pc[t] = "use" /\ t \notin crossed => Own(t)

\* main never compares a password with a null pointer: only a client thread can take the
\* password of a login away, and then an earlier login has left one in pArray.
LoginHasPassword == pc[Main] = "use" => pArray[Main][0] # Null /\ pArray[Main][1] # Null

=============================================================================
