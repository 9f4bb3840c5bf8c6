------------------------------- MODULE Replies -------------------------------
(****************************************************************************)
(* To whom the server answers IDLIST and GETTIME: send_msg writes to        *)
(* msg_info.fd, a char that clnt_connection sets from the client's          *)
(* descriptor.  Descriptors are given out lowest first, and those of        *)
(* refused connections are never closed, so that they grow for ever.  What  *)
(* a session goes through besides is in IotServer.                          *)
(****************************************************************************)
EXTENDS Integers, FiniteSets

CONSTANTS
    FIRST,      \* the first descriptor a connection can have
    LIMIT,      \* the first one the process may not have
    MAX_CLNT,
    CHARS,      \* values of a char: 256
    Signed      \* char is signed, as the build decides: not on the Raspberry Pi

ASSUME RepliesAssumption ==
    /\ FIRST \in Nat /\ LIMIT \in Nat /\ FIRST <= LIMIT /\ MAX_CLNT \in Nat \ {0}
    /\ CHARS \in Nat \ {0} /\ CHARS % 2 = 0 /\ Signed \in BOOLEAN

Fds == FIRST .. LIMIT - 1
Lost == -1

VARIABLES
    online,     \* descriptors of sessions
    refused,    \* descriptors shut down and never closed
    asker,      \* the descriptor of the client that was last answered, or Lost
    answered,   \* the descriptor the answer was written to
    emfile      \* accept() has failed for want of a descriptor

vars == <<online, refused, asker, answered, emfile>>

TypeOK ==
    /\ online \subseteq Fds /\ refused \subseteq Fds
    /\ asker \in Fds \cup {Lost} /\ answered \in Int /\ emfile \in BOOLEAN

Init == online = {} /\ refused = {} /\ asker = Lost /\ answered = Lost /\ emfile = FALSE

Free == Fds \ (online \cup refused)
IsLowest(f) == \A g \in Free : f <= g

\* main: accept(), and a login that is taken or not; none is when the server is full.
Accept ==
    /\ emfile' = (Free = {})
    /\ IF Free = {} THEN UNCHANGED <<online, refused>>
       ELSE \E f \in Free :
            /\ IsLowest(f)
            /\ \/ Cardinality(online) < MAX_CLNT /\ online' = online \cup {f} /\ refused' = refused
               \/ refused' = refused \cup {f} /\ online' = online
    /\ UNCHANGED <<asker, answered>>

Leave(f) ==
    /\ f \in online /\ online' = online \ {f}
    /\ UNCHANGED <<refused, asker, answered, emfile>>

\* Mutant: one bit less.
Char_Half(f) == f % (CHARS \div 2)

\* A descriptor as a char.
Char(f) == IF Signed /\ f % CHARS >= CHARS \div 2 THEN (f % CHARS) - CHARS ELSE f % CHARS

Ask(f) ==
    /\ f \in online
    /\ asker' = f /\ answered' = Char(f)
    /\ UNCHANGED <<online, refused, emfile>>

Next == Accept \/ \E f \in Fds : Leave(f) \/ Ask(f)

Spec == Init /\ [][Next]_vars

-----------------------------------------------------------------------------
(* Properties. *)

\* Descriptors a char can hold.
Room == IF Signed THEN CHARS \div 2 ELSE CHARS

\* An answer goes to whom it is for, as long as the refused connections leave room: with
\* the 32 clients of the server, and 4 the first descriptor, until 220 have been refused.
\* With more, it may go to another client.
AnswersAsker ==
    FIRST + Cardinality(refused) + MAX_CLNT <= Room => answered = asker

\* A client finds a descriptor as long as the refused connections leave one.
FindsDescriptor ==
    FIRST + Cardinality(refused) + MAX_CLNT < LIMIT => ~ emfile
=============================================================================
