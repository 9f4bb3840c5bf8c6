--------------------------- MODULE GateMailboxProofs ---------------------------
(****************************************************************************)
(* Proofs about GateMailbox, for any cards, fees and number of lines.       *)
(****************************************************************************)
EXTENDS GateMailbox, TLAPS

LEMMA Constants ==
    /\ None \notin Cards /\ Number \in [Cards -> Nat] /\ Fees \subseteq Nat
    /\ MaxTaps \in Nat /\ MaxServo \in Nat /\ MaxBoots \in Nat \ {0}
  BY MailboxAssumption

LEMMA StatusTypes == NoLine \in Lines /\ Zeros \in Statuses /\ GetDb \in Requests
<1>1. Zeros \in Statuses
  BY DEF Zeros, Statuses
<1>2. GetDb \in Requests
  BY DEF GetDb, Requests
<1>. QED
  BY <1>1, <1>2 DEF NoLine, Lines, Line, Kinds

LEMMA AnswerTypes ==
    /\ \A c \in Cards, f \in Fees : Line("EXIT", c, f, Zeros) \in Lines
    /\ \A d \in Statuses : Line("GETDB", None, 0, d) \in Lines
  BY StatusTypes DEF Lines, Line, Kinds

LEMMA LineFields ==
  ASSUME NEW l \in Lines
  PROVE  /\ l.kind \in Kinds /\ l.fee \in Nat /\ l.status \in Statuses
         /\ l.kind = "EXIT" => l.card \in Cards
<1>1. /\ l \in [kind : Kinds, card : Cards \cup {None}, fee : Fees \cup {0}, status : Statuses]
      /\ l.kind = "EXIT" => l.card \in Cards
  BY DEF Lines
<1>2. l.kind \in Kinds /\ l.status \in Statuses
  BY <1>1
<1>3. l.fee \in Nat
  <2>1. l.fee \in Fees \cup {0}
    BY <1>1
  <2>2. Fees \subseteq Nat
    BY Constants
  <2>3. 0 \in Nat
    OBVIOUS
  <2>. QED BY <2>1, <2>2, <2>3, Zenon
<1>. QED BY <1>1, <1>2, <1>3, Zenon

\* Sequences that are extended and shortened.
LEMMA Queues ==
  ASSUME NEW S, NEW s \in Seq(S)
  PROVE  /\ \A e \in S : Append(s, e) \in Seq(S)
         /\ s # <<>> => Head(s) \in S /\ Tail(s) \in Seq(S)
  OBVIOUS

LEMMA TypeInit == Init => TypeOK
<1>. SUFFICES ASSUME Init PROVE TypeOK
  OBVIOUS
<1>1. crowded \in BOOLEAN
  BY DEF Init
<1>2. out \in Seq(Requests) /\ air \in Seq(Lines)
  BY StatusTypes DEF Init
<1>3. [cmd |-> NoLine, args |-> NoLine] \in [cmd : Lines, args : Lines]
  BY StatusTypes
<1>. QED BY <1>1, <1>2, <1>3, StatusTypes DEF Init, TypeOK, NoFee

LEMMA TypeStep == TypeOK /\ [Next]_vars => TypeOK'
<1>. SUFFICES ASSUME TypeOK, [Next]_vars PROVE TypeOK'
  OBVIOUS
<1>0. crowded' \in BOOLEAN
  BY Zenon DEF TypeOK, Next, Boot, Booted, Arrives, Lost, OtherClient, Tap, Interrupt, LineBegins, LineEnds,
     Loop, SeesFlag, CopyCmd, CopyArgs, Handle, Clear, vars, mailbox
<1>. USE <1>0, StatusTypes, AnswerTypes, LineFields
<1>1. CASE Boot
  <2>1. [cmd |-> NoLine, args |-> NoLine] \in [cmd : Lines, args : Lines]
    OBVIOUS
  <2>. QED BY <1>1, <2>1, Queues DEF TypeOK, Boot, Booted, NoFee
<1>2. CASE Arrives
  <2>1. out # <<>> /\ Head(out) \in Requests /\ out' \in Seq(Requests)
    BY <1>2, Queues DEF TypeOK, Arrives
  <2>2. db' \in Statuses /\ air' \in Seq(Lines)
    <3>1. db \in Statuses /\ air \in Seq(Lines) /\ Answered(Head(out))
      BY <1>2 DEF TypeOK, Arrives
    <3>2. db' \in Statuses
      BY <3>1 DEF Answered, Statuses
    <3>3. air' \in Seq(Lines)
      <4>1. \/ UNCHANGED air
            \/ \E f \in Fees : Head(out).cmd = "LEAVE" /\ air' = Append(air, Line("EXIT", Head(out).card, f, Zeros))
            \/ air' = Append(air, Line("GETDB", None, 0, db))
        BY <3>1 DEF Answered
      <4>2. Head(out).cmd = "LEAVE" => Head(out).card \in Cards
        BY <2>1 DEF Requests
      <4>. QED BY <3>1, <4>1, <4>2, Queues
    <3>. QED BY <3>2, <3>3
  <2>. QED BY <1>2, <2>1, <2>2 DEF TypeOK, Arrives, mailbox, main, bounds
<1>3. CASE Lost
  <2>1. /\ out' \in Seq(Requests) /\ air' \in Seq(Lines) /\ unsure' \subseteq Cards
        /\ UNCHANGED <<db, mailbox, main, status, shown, bounds, tapped, crossed>>
    <3>1. CASE out # <<>> /\ out' = Tail(out) /\ UNCHANGED air
      BY <1>3, <3>1, Queues DEF TypeOK, Lost, history
    <3>2. CASE air # <<>> /\ air' = Tail(air) /\ UNCHANGED out
      BY <1>3, <3>2, Queues DEF TypeOK, Lost, history
    <3>. QED BY <1>3, <3>1, <3>2 DEF Lost
  <2>. QED BY <2>1 DEF TypeOK, mailbox, main, bounds
<1>4. CASE OtherClient
  BY <1>4, Queues DEF TypeOK, OtherClient, mailbox, main, history
<1>5. CASE Tap
  <2>1. PICK c \in Cards :
          /\ status' = [status EXCEPT ![c] = 1 - @]
          /\ out' = Append(out, [cmd |-> IF status'[c] = 1 THEN "ENTER" ELSE "LEAVE", card |-> c])
          /\ tapped' = tapped \cup {c} /\ crossed' = crossed \ {c}
    BY <1>5 DEF Tap
  <2>2. [cmd |-> IF status'[c] = 1 THEN "ENTER" ELSE "LEAVE", card |-> c] \in Requests
    BY DEF Requests
  <2>3. out' \in Seq(Requests)
    BY <2>1, <2>2, Queues DEF TypeOK
  <2>. QED BY <1>5, <2>1, <2>3 DEF TypeOK, Tap, Statuses, mailbox, main
<1>6. CASE LineBegins
  BY <1>6, Queues DEF TypeOK, LineBegins, main, bounds, history
<1>7. CASE LineEnds
  BY <1>7 DEF TypeOK, LineEnds, far, main, bounds, history
<1>8. CASE SeesFlag
  BY <1>8 DEF TypeOK, SeesFlag, far, mailbox, bounds, history
<1>9. CASE CopyCmd
  BY <1>9 DEF TypeOK, CopyCmd, far, mailbox, bounds, history
<1>10. CASE CopyArgs
  BY <1>10 DEF TypeOK, CopyArgs, far, mailbox, bounds, history
<1>11. CASE Handle
  <2>1. shown' \in [amount : Nat, fee : Nat]
    BY <1>11, Constants DEF TypeOK, Handle, ShowsFee, NoFee
  <2>2. status' \in Statuses /\ crossed' \subseteq Cards /\ unsure' \subseteq Cards
    BY <1>11 DEF TypeOK, Handle
  <2>. QED BY <1>11, <2>1, <2>2 DEF TypeOK, Handle, far, mailbox, bounds
<1>12. CASE Clear
  BY <1>12 DEF TypeOK, Clear, far, bounds, history
<1>13. CASE UNCHANGED vars
  BY <1>13 DEF TypeOK, vars, far, mailbox, main, bounds, history
<1>. QED
  BY <1>1, <1>2, <1>3, <1>4, <1>5, <1>6, <1>7, <1>8, <1>9, <1>10, <1>11, <1>12, <1>13
     DEF Next, Interrupt, Loop

\* Lines, requests and statuses keep to their types; an EXIT always names a card.
THEOREM TypeCorrect == Spec => []TypeOK
  BY TypeInit, TypeStep, PTL DEF Spec

-----------------------------------------------------------------------------
(* The mailbox. *)

\* As long as no line began while another waited: the interrupt stores while the main
\* loop has nothing to do, and what the loop copies is one line.
Phases ==
    ~ crowded =>
        /\ half # None => btFlag = 0 /\ btData.cmd = half
        /\ btFlag = 0 => pc = "loop"
        /\ btFlag = 1 => btData.cmd = btData.args
        /\ pc = "args" => recvBuf.cmd = btData.cmd
        /\ pc = "handle" => recvBuf.cmd = recvBuf.args
        /\ done - handled = IF btFlag = 1 /\ pc # "clear" THEN 1 ELSE 0

LEMMA PhasesInit == Init => Phases
  BY DEF Init, Phases

LEMMA PhasesStep ==
  ASSUME TypeOK, Phases, [Next]_vars
  PROVE  Phases'
<1>0. /\ btData \in [cmd : Lines, args : Lines] /\ recvBuf \in [cmd : Lines, args : Lines]
      /\ btFlag \in {0, 1} /\ done \in Nat /\ handled \in Nat
      /\ pc \in {"loop", "cmd", "args", "handle", "clear"}
  BY DEF TypeOK
<1>1. CASE Boot
  BY <1>1 DEF Boot, Booted, Phases
<1>2. CASE Arrives \/ Lost \/ OtherClient \/ Tap \/ UNCHANGED vars
  BY <1>2 DEF Arrives, Lost, OtherClient, Tap, vars, mailbox, main, Phases
<1>3. CASE LineBegins
  <2>1. ~ crowded' => ~ crowded /\ btFlag # 1
    BY <1>3, Zenon DEF LineBegins
  <2>. QED BY <1>0, <1>3, <2>1 DEF LineBegins, main, Phases
<1>4. CASE LineEnds
  BY <1>0, <1>4 DEF LineEnds, main, Phases
<1>5. CASE SeesFlag
  BY <1>0, <1>5 DEF SeesFlag, mailbox, Phases
<1>6. CASE CopyCmd
  BY <1>0, <1>6 DEF CopyCmd, mailbox, Phases
<1>7. CASE CopyArgs
  BY <1>0, <1>7 DEF CopyArgs, mailbox, Phases
<1>8. CASE Handle
  BY <1>0, <1>8 DEF Handle, mailbox, Phases
<1>9. CASE Clear
  BY <1>0, <1>9 DEF Clear, Phases
<1>. QED
  BY <1>1, <1>2, <1>3, <1>4, <1>5, <1>6, <1>7, <1>8, <1>9 DEF Next, Interrupt, Loop

\* Every line is handled once and whole as long as none begins while another waits, for
\* any number of lines and wherever the interrupt comes.
THEOREM MailboxIsExact == Spec => []MailboxExact
<1>1. TypeOK /\ Phases => MailboxExact
  BY DEF Phases, MailboxExact
<1>. QED
  BY <1>1, TypeInit, TypeStep, PhasesInit, PhasesStep, PTL DEF Spec

-----------------------------------------------------------------------------
(* The statuses and the database. *)

\* Answers to GETDB that the controller may still take.
Answers == {l \in Lines :
    /\ l.kind = "GETDB"
    /\ \/ \E k \in 1 .. Len(air) : air[k] = l
       \/ half # None /\ half = l
       \/ l \in {btData.cmd, btData.args, recvBuf.cmd, recvBuf.args}}

NoEvent(c) == \A k \in 1 .. Len(out) : out[k].card # c

\* What was asked of the database after the last tap of a card does not know the tap: it
\* comes behind the events of the card, and with it the answers.
NotAhead(c) ==
    c \notin tapped =>
        /\ \A l \in Answers : l.status[c] = db[c] /\ NoEvent(c)
        /\ \A j, k \in 1 .. Len(out) : out[j].card = c /\ out[k].cmd = "GETDB" => j < k

\* The last event of a card that is under way tells its status.
LastTells(c) ==
    c \notin crossed => \A k \in 1 .. Len(out) :
        out[k].card = c /\ (\A j \in k + 1 .. Len(out) : out[j].card # c)
            => (out[k].cmd = "ENTER" <=> status[c] = 1)

Agrees(c) == c \notin unsure /\ NoEvent(c) => status[c] = db[c]

Sync(c) == NotAhead(c) /\ LastTells(c) /\ (c \in crossed => c \in unsure) /\ Agrees(c)

LEMMA SyncInit == ASSUME Init, NEW c \in Cards PROVE Sync(c)
<1>1. Answers = {} /\ c \in unsure /\ c \in crossed
  BY DEF Init, Answers, NoLine, Line
<1>2. Len(out) = 1 /\ out[1] = GetDb /\ c # None
  BY Constants DEF Init
<1>3. \A k \in 1 .. Len(out) : out[k].card # c
  BY <1>2 DEF GetDb
<1>. QED BY <1>1, <1>3 DEF Sync, NotAhead, LastTells, Agrees

\* The first of the lines under way goes.
LEMMA OutTail ==
  ASSUME TypeOK, out # <<>>, out' = Tail(out)
  PROVE  /\ Len(out) \in Nat /\ Len(out) > 0 /\ Len(out') = Len(out) - 1
         /\ \A k \in 1 .. Len(out') : out'[k] = out[k + 1]
         /\ Head(out) = out[1]
  BY DEF TypeOK

\* One more comes.
LEMMA OutAppend ==
  ASSUME TypeOK, NEW r \in Requests, out' = Append(out, r)
  PROVE  /\ Len(out) \in Nat /\ Len(out') = Len(out) + 1
         /\ \A k \in 1 .. Len(out) : out'[k] = out[k]
         /\ out'[Len(out) + 1] = r
  BY DEF TypeOK

\* Only an answer of the database is new.
LEMMA AnswersStep ==
  ASSUME TypeOK, [Next]_vars
  PROVE  \/ Answers' \subseteq Answers
         \/ /\ Arrives /\ Head(out).cmd = "GETDB"
            /\ Answers' \subseteq Answers \cup {Line("GETDB", None, 0, db)}
<1>. USE DEF Answers
<1>0. air \in Seq(Lines) /\ btData \in [cmd : Lines, args : Lines] /\ recvBuf \in [cmd : Lines, args : Lines]
  BY DEF TypeOK
<1>1. NoLine.kind # "GETDB" /\ \A c, f, d : Line("EXIT", c, f, d).kind # "GETDB"
  BY DEF NoLine, Line
<1>2. CASE Boot
  BY <1>1, <1>2 DEF Boot, Booted
<1>3. CASE Arrives
  <2>1. UNCHANGED <<half, btData, recvBuf>>
    BY <1>3 DEF Arrives, mailbox, main
  <2>2. CASE UNCHANGED air
    BY <2>1, <2>2
  <2>3. ASSUME NEW l \in Lines, air' = Append(air, l)
        PROVE  Answers' \subseteq Answers \cup ({l} \cap {m \in Lines : m.kind = "GETDB"})
    <3>1. \A k \in 1 .. Len(air') : air'[k] = l \/ \E j \in 1 .. Len(air) : air[j] = air'[k]
      BY <1>0, <2>3
    <3>. QED BY <2>1, <3>1
  <2>4. \/ UNCHANGED air
        \/ \E f \in Fees : Head(out).card \in Cards /\ air' = Append(air, Line("EXIT", Head(out).card, f, Zeros))
        \/ Head(out).cmd = "GETDB" /\ air' = Append(air, Line("GETDB", None, 0, db))
    <3>1. Head(out) \in Requests
      BY <1>3, Queues DEF TypeOK, Arrives
    <3>2. Head(out).cmd = "LEAVE" => Head(out).card \in Cards
      BY <3>1 DEF Requests
    <3>. QED BY <1>3, <3>2 DEF Arrives, Answered
  <2>5. ASSUME NEW f \in Fees, Head(out).card \in Cards, air' = Append(air, Line("EXIT", Head(out).card, f, Zeros))
        PROVE  Answers' \subseteq Answers
    BY <1>1, <2>3, <2>5, AnswerTypes
  <2>6. CASE Head(out).cmd = "GETDB" /\ air' = Append(air, Line("GETDB", None, 0, db))
    <3>1. Line("GETDB", None, 0, db) \in Lines
      BY AnswerTypes DEF TypeOK
    <3>. QED BY <1>3, <2>3, <2>6, <3>1
  <2>. QED BY <2>2, <2>4, <2>5, <2>6
<1>4. CASE Lost
  <2>1. UNCHANGED <<half, btData, recvBuf>> /\ (air' = air \/ (air # <<>> /\ air' = Tail(air)))
    BY <1>4 DEF Lost, mailbox, main
  <2>2. \A k \in 1 .. Len(air') : \E j \in 1 .. Len(air) : air[j] = air'[k]
    BY <1>0, <2>1
  <2>. QED BY <2>1, <2>2
<1>5. CASE OtherClient
  <2>1. UNCHANGED <<half, btData, recvBuf>> /\ air' = Append(air, NoLine)
    BY <1>5 DEF OtherClient, mailbox, main
  <2>2. \A k \in 1 .. Len(air') : air'[k] = NoLine \/ \E j \in 1 .. Len(air) : air[j] = air'[k]
    BY <1>0, <2>1, StatusTypes
  <2>. QED BY <1>1, <2>1, <2>2
<1>6. CASE LineBegins
  <2>1. /\ air # <<>> /\ half' = Head(air) /\ air' = Tail(air) /\ recvBuf' = recvBuf
        /\ btData' = [btData EXCEPT !.cmd = Head(air)]
    BY <1>6 DEF LineBegins, main
  <2>2. \A k \in 1 .. Len(air') : \E j \in 1 .. Len(air) : air[j] = air'[k]
    BY <1>0, <2>1
  <2>3. Head(air) = air[1] /\ 1 \in 1 .. Len(air)
    BY <1>0, <2>1
  <2>4. btData'.cmd = Head(air) /\ btData'.args = btData.args
    BY <1>0, <2>1
  <2>. QED BY <2>1, <2>2, <2>3, <2>4
<1>7. CASE LineEnds
  <2>1. half # None /\ half' = None /\ air' = air /\ recvBuf' = recvBuf
        /\ btData'.args = half /\ btData'.cmd = btData.cmd
    BY <1>0, <1>7 DEF LineEnds, far, main
  <2>. QED BY <2>1
<1>8. CASE Tap \/ SeesFlag \/ Handle \/ Clear \/ UNCHANGED vars
  BY <1>8 DEF Tap, SeesFlag, Handle, Clear, vars, far, mailbox, main
<1>9. CASE CopyCmd
  <2>1. UNCHANGED <<air, half, btData>> /\ recvBuf'.cmd = btData.cmd /\ recvBuf'.args = recvBuf.args
    BY <1>0, <1>9 DEF CopyCmd, far, mailbox
  <2>. QED BY <2>1
<1>10. CASE CopyArgs
  <2>1. UNCHANGED <<air, half, btData>> /\ recvBuf'.cmd = recvBuf.cmd /\ recvBuf'.args = btData.args
    BY <1>0, <1>10 DEF CopyArgs, far, mailbox
  <2>. QED BY <2>1
<1>. QED
  BY <1>2, <1>3, <1>4, <1>5, <1>6, <1>7, <1>8, <1>9, <1>10 DEF Next, Interrupt, Loop

\* A step that takes the first line, with or without handing it to the database.
LEMMA SyncPop ==
  ASSUME TypeOK, NEW c \in Cards, Sync(c), out # <<>>, out' = Tail(out),
         UNCHANGED <<status, tapped, crossed>>,
         Answers' \subseteq Answers \/ (Head(out).cmd = "GETDB" /\ db' = db
                                        /\ Answers' \subseteq Answers \cup {Line("GETDB", None, 0, db)}),
         db'[c] = db[c] \/ Head(out).card = c,
         c \notin unsure' => \/ c \notin unsure /\ db'[c] = db[c] /\ Head(out).card # c
                             \/ /\ c \notin crossed /\ Head(out).card = c
                                /\ db'[c] = (IF Head(out).cmd = "ENTER" THEN 1 ELSE 0),
         c \in crossed => c \in unsure'
  PROVE  Sync(c)'
<1>1. /\ Len(out) \in Nat /\ Len(out) > 0 /\ Len(out') = Len(out) - 1
      /\ \A k \in 1 .. Len(out') : out'[k] = out[k + 1] /\ k + 1 \in 1 .. Len(out)
      /\ Head(out) = out[1] /\ 1 \in 1 .. Len(out)
  BY OutTail
<1>2. NoEvent(c) => NoEvent(c)'
  BY <1>1 DEF NoEvent
<1>3. NotAhead(c)'
  <2>. SUFFICES ASSUME c \notin tapped PROVE NotAhead(c)'
    BY DEF NotAhead
  <2>1. \A j, k \in 1 .. Len(out') : out'[j].card = c /\ out'[k].cmd = "GETDB" => j < k
    <3>. SUFFICES ASSUME NEW j \in 1 .. Len(out'), NEW k \in 1 .. Len(out'),
                         out'[j].card = c, out'[k].cmd = "GETDB"
                  PROVE  j < k
      OBVIOUS
    <3>1. j + 1 < k + 1
      BY <1>1 DEF Sync, NotAhead
    <3>. QED BY <3>1, <1>1
  <2>2. Head(out).cmd = "GETDB" => NoEvent(c)'
    <3>. SUFFICES ASSUME Head(out).cmd = "GETDB", NEW k \in 1 .. Len(out'), out'[k].card = c
                  PROVE  FALSE
      BY DEF NoEvent
    <3>1. k + 1 < 1
      BY <1>1 DEF Sync, NotAhead
    <3>. QED BY <3>1, <1>1
  <2>3. ASSUME NEW l \in Answers' PROVE l.status[c] = db'[c] /\ NoEvent(c)'
    <3>1. CASE l \in Answers
      <4>1. NoEvent(c) /\ l.status[c] = db[c]
        BY <3>1 DEF Sync, NotAhead
      <4>2. Head(out).card # c
        BY <1>1, <4>1 DEF NoEvent
      <4>. QED BY <1>2, <4>1, <4>2
    <3>2. CASE l \notin Answers
      <4>1. l = Line("GETDB", None, 0, db) /\ Head(out).cmd = "GETDB" /\ db' = db
        BY <2>3, <3>2
      <4>. QED BY <2>2, <4>1 DEF Line
    <3>. QED BY <3>1, <3>2
  <2>. QED BY <2>1, <2>3 DEF NotAhead
<1>4. LastTells(c)'
  <2>. SUFFICES ASSUME c \notin crossed, NEW k \in 1 .. Len(out'), out'[k].card = c,
                       \A j \in k + 1 .. Len(out') : out'[j].card # c
                PROVE  out'[k].cmd = "ENTER" <=> status[c] = 1
    BY DEF LastTells
  <2>1. k + 1 \in 1 .. Len(out) /\ out[k + 1].card = c
    BY <1>1
  <2>2. ASSUME NEW j \in (k + 1) + 1 .. Len(out) PROVE out[j].card # c
    <3>1. j - 1 \in k + 1 .. Len(out') /\ j - 1 \in 1 .. Len(out')
      BY <1>1
    <3>2. out'[j - 1] = out[(j - 1) + 1] /\ (j - 1) + 1 = j
      BY <1>1, <3>1
    <3>. QED BY <3>1, <3>2
  <2>. QED BY <1>1, <2>1, <2>2 DEF Sync, LastTells
<1>5. Agrees(c)'
  <2>. SUFFICES ASSUME c \notin unsure', NoEvent(c)' PROVE status[c] = db'[c]
    BY DEF Agrees
  <2>1. ASSUME NEW j \in 2 .. Len(out) PROVE out[j].card # c
    <3>1. j - 1 \in 1 .. Len(out') /\ (j - 1) + 1 = j
      BY <1>1
    <3>. QED BY <1>1, <3>1 DEF NoEvent
  <2>2. CASE c \notin unsure /\ db'[c] = db[c] /\ Head(out).card # c
    <3>1. NoEvent(c)
      <4>. SUFFICES ASSUME NEW k \in 1 .. Len(out) PROVE out[k].card # c
        BY DEF NoEvent
      <4>. QED BY <1>1, <2>1, <2>2
    <3>. QED BY <2>2, <3>1 DEF Sync, Agrees
  <2>3. CASE /\ c \notin crossed /\ Head(out).card = c
             /\ db'[c] = (IF Head(out).cmd = "ENTER" THEN 1 ELSE 0)
    <3>1. out[1].cmd = "ENTER" <=> status[c] = 1
      BY <1>1, <2>1, <2>3 DEF Sync, LastTells
    <3>2. status[c] \in {0, 1}
      BY DEF TypeOK, Statuses
    <3>. QED BY <1>1, <2>3, <3>1, <3>2
  <2>. QED BY <2>2, <2>3
<1>. QED BY <1>3, <1>4, <1>5 DEF Sync

\* A step that leaves the lines under way, the database and the taps alone.
LEMMA SyncFrame ==
  ASSUME TypeOK, NEW c \in Cards, Sync(c), UNCHANGED <<out, db, tapped, status, crossed, unsure>>,
         Answers' \subseteq Answers
  PROVE  Sync(c)'
  BY DEF Sync, NotAhead, LastTells, Agrees, NoEvent

LEMMA SyncStep ==
  ASSUME TypeOK, NEW c \in Cards, Sync(c), [Next]_vars
  PROVE  Sync(c)'
<1>0. c # None /\ status \in Statuses /\ db \in Statuses /\ tapped \subseteq Cards
  BY Constants DEF TypeOK
<1>1. CASE Boot
  <2>1. /\ out' = Append(out, GetDb) /\ db' = db /\ c \in crossed' /\ c \in unsure'
        /\ tapped' = IF Asked THEN tapped ELSE {}
        /\ air' = air /\ half' = None
        /\ btData' = [cmd |-> NoLine, args |-> NoLine] /\ recvBuf' = [cmd |-> NoLine, args |-> NoLine]
    BY <1>1 DEF Boot, Booted
  <2>2. /\ Len(out) \in Nat /\ Len(out') = Len(out) + 1
        /\ \A k \in 1 .. Len(out) : out'[k] = out[k]
        /\ out'[Len(out) + 1] = GetDb
    BY <2>1, OutAppend, StatusTypes
  <2>3. GetDb.card # c /\ GetDb.cmd = "GETDB"
    BY <1>0 DEF GetDb
  <2>4. NoEvent(c) => NoEvent(c)'
    BY <2>2, <2>3 DEF NoEvent
  <2>5. \A l \in Answers' : l \in Answers /\ \E k \in 1 .. Len(air) : air[k].kind = "GETDB"
    BY <2>1 DEF Answers, NoLine, Line
  <2>6. NotAhead(c)'
    <3>. SUFFICES ASSUME c \notin tapped'
                  PROVE  /\ \A l \in Answers' : l.status[c] = db'[c] /\ NoEvent(c)'
                         /\ \A j, k \in 1 .. Len(out') :
                                out'[j].card = c /\ out'[k].cmd = "GETDB" => j < k
      BY DEF NotAhead
    <3>1. CASE Asked
      <4>1. c \notin tapped
        BY <2>1, <3>1
      <4>. QED BY <2>1, <2>2, <2>3, <2>4, <2>5, <4>1 DEF Sync, NotAhead
    <3>2. CASE ~ Asked
      <4>1. Answers' = {} /\ \A k \in 1 .. Len(out) : out[k].cmd # "GETDB"
        BY <2>5, <3>2 DEF Asked
      <4>. QED BY <2>2, <2>3, <4>1
    <3>. QED BY <3>1, <3>2
  <2>. QED BY <2>1, <2>6 DEF Sync, LastTells, Agrees
<1>2. CASE Arrives
  <2>1. /\ out # <<>> /\ out' = Tail(out) /\ UNCHANGED <<status, tapped, crossed>>
        /\ Answered(Head(out)) /\ unsure' = unsure \ ({Head(out).card} \ crossed)
    BY <1>2 DEF Arrives
  <2>2. Head(out) \in Requests
    BY <2>1, Queues DEF TypeOK
  <2>3. Head(out).card # c => db'[c] = db[c]
    BY <1>0, <2>1 DEF Answered, Statuses
  <2>4. Head(out).card = c => db'[c] = IF Head(out).cmd = "ENTER" THEN 1 ELSE 0
    <3>1. Head(out).card = c => Head(out).cmd \in {"ENTER", "LEAVE"}
      BY <1>0, <2>2 DEF Requests
    <3>. QED BY <1>0, <2>1, <3>1 DEF Answered, Statuses
  <2>5. Head(out).cmd = "GETDB" => db' = db
    BY <2>1 DEF Answered
  <2>6. c \notin unsure' => \/ c \notin unsure /\ Head(out).card # c
                            \/ c \notin crossed /\ Head(out).card = c
    BY <2>1 DEF Sync
  <2>7. c \in crossed => c \in unsure'
    BY <2>1 DEF Sync
  <2>. QED BY <2>1, <2>3, <2>4, <2>5, <2>6, <2>7, AnswersStep, SyncPop
<1>3. CASE Lost
  <2>1. Answers' \subseteq Answers
    <3>1. UNCHANGED <<half, btData, recvBuf>> /\ (air' = air \/ (air # <<>> /\ air' = Tail(air)))
      BY <1>3 DEF Lost, mailbox, main
    <3>2. \A k \in 1 .. Len(air') : \E j \in 1 .. Len(air) : air[j] = air'[k]
      <4>1. air \in Seq(Lines)
        BY DEF TypeOK
      <4>. QED BY <3>1, <4>1
    <3>. QED BY <3>1, <3>2 DEF Answers
  <2>2. CASE /\ out # <<>> /\ out' = Tail(out) /\ unsure' = unsure \cup ({Head(out).card} \cap Cards)
             /\ UNCHANGED <<db, status, tapped, crossed>>
    BY <2>1, <2>2, SyncPop DEF Sync
  <2>3. CASE UNCHANGED <<out, db, status, history>>
    BY <2>1, <2>3, SyncFrame DEF history
  <2>. QED BY <1>3, <2>2, <2>3 DEF Lost
<1>4. CASE Tap
  <2>1. PICK d \in Cards :
          /\ status' = [status EXCEPT ![d] = 1 - @]
          /\ out' = Append(out, [cmd |-> IF status'[d] = 1 THEN "ENTER" ELSE "LEAVE", card |-> d])
          /\ tapped' = tapped \cup {d} /\ crossed' = crossed \ {d}
    BY <1>4 DEF Tap
  <2> DEFINE r == [cmd |-> IF status'[d] = 1 THEN "ENTER" ELSE "LEAVE", card |-> d]
  <2>2. r \in Requests /\ r.card = d /\ r.cmd # "GETDB" /\ (r.cmd = "ENTER" <=> status'[d] = 1)
    BY DEF Requests
  <2> HIDE DEF r
  <2>3. /\ Len(out) \in Nat /\ Len(out') = Len(out) + 1
        /\ \A k \in 1 .. Len(out) : out'[k] = out[k]
        /\ out'[Len(out) + 1] = r
    BY <2>1, <2>2, OutAppend DEF r
  <2>4. UNCHANGED <<db, unsure>> /\ Answers' = Answers
    BY <1>4 DEF Tap, Answers, mailbox, main
  <2>5. CASE d = c
    <3>1. c \in tapped' /\ c \notin crossed'
      BY <2>1, <2>5
    <3>2. ~ NoEvent(c)'
      BY <2>2, <2>3, <2>5 DEF NoEvent
    <3>3. LastTells(c)'
      <4>. SUFFICES ASSUME NEW k \in 1 .. Len(out'), out'[k].card = c,
                           \A j \in k + 1 .. Len(out') : out'[j].card # c
                    PROVE  out'[k].cmd = "ENTER" <=> status'[c] = 1
        BY DEF LastTells
      <4>1. k = Len(out) + 1
        BY <2>2, <2>3, <2>5
      <4>. QED BY <2>2, <2>3, <2>5, <4>1
    <3>. QED BY <3>1, <3>2, <3>3 DEF Sync, NotAhead, Agrees
  <2>6. CASE d # c
    <3>1. status'[c] = status[c] /\ (c \in tapped' <=> c \in tapped) /\ (c \in crossed' <=> c \in crossed)
      BY <1>0, <2>1, <2>6 DEF Statuses
    <3>2. NoEvent(c)' <=> NoEvent(c)
      BY <2>2, <2>3, <2>6 DEF NoEvent
    <3>3. NotAhead(c)'
      BY <2>2, <2>3, <2>4, <2>6, <3>1, <3>2 DEF Sync, NotAhead
    <3>4. LastTells(c)'
      <4>. SUFFICES ASSUME c \notin crossed', NEW k \in 1 .. Len(out'), out'[k].card = c,
                           \A j \in k + 1 .. Len(out') : out'[j].card # c
                    PROVE  out'[k].cmd = "ENTER" <=> status'[c] = 1
        BY DEF LastTells
      <4>1. k \in 1 .. Len(out) /\ out[k].card = c
        BY <2>2, <2>3, <2>6
      <4>2. \A j \in k + 1 .. Len(out) : out[j].card # c
        BY <2>3, <4>1
      <4>. QED BY <2>3, <3>1, <4>1, <4>2 DEF Sync, LastTells
    <3>5. Agrees(c)'
      BY <2>4, <3>1, <3>2 DEF Sync, Agrees
    <3>. QED BY <2>4, <3>1, <3>3, <3>4, <3>5 DEF Sync
  <2>. QED BY <2>5, <2>6
<1>5. CASE Handle
  <2>1. UNCHANGED <<out, db, tapped>> /\ Answers' = Answers
    BY <1>5 DEF Handle, far, mailbox, Answers
  <2>2. CASE TakesStatuses
    <3>1. status' = recvBuf.args.status /\ crossed' = tapped /\ unsure' = tapped
      BY <1>5, <2>2 DEF Handle
    <3>2. recvBuf.args \in Answers
      BY <2>2 DEF TypeOK, TakesStatuses, Answers
    <3>3. NotAhead(c)'
      BY <2>1 DEF Sync, NotAhead, NoEvent
    <3>4. c \notin tapped => NoEvent(c) /\ status'[c] = db[c]
      BY <3>1, <3>2 DEF Sync, NotAhead
    <3>5. LastTells(c)' /\ Agrees(c)'
      BY <2>1, <3>1, <3>4 DEF LastTells, Agrees, NoEvent
    <3>. QED BY <3>1, <3>3, <3>5 DEF Sync
  <2>3. CASE ~ TakesStatuses
    <3>1. UNCHANGED <<status, crossed, unsure>>
      BY <1>5, <2>3 DEF Handle
    <3>. QED BY <2>1, <3>1, SyncFrame
  <2>. QED BY <2>2, <2>3
<1>6. CASE OtherClient \/ Interrupt \/ SeesFlag \/ CopyCmd \/ CopyArgs \/ Clear \/ UNCHANGED vars
  <2>1. UNCHANGED <<out, db, tapped, status, crossed, unsure>>
    BY <1>6 DEF OtherClient, Interrupt, LineBegins, LineEnds, SeesFlag, CopyCmd, CopyArgs, Clear,
       vars, far, history
  <2>2. Answers' \subseteq Answers
    <3>1. ~ Arrives \/ Answers' \subseteq Answers
      BY <1>6, <2>1, OutTail DEF Arrives
    <3>. QED BY <3>1, AnswersStep
  <2>. QED BY <2>1, <2>2, SyncFrame
<1>. QED BY <1>1, <1>2, <1>3, <1>4, <1>5, <1>6 DEF Next, Loop

\* With no event of a card under way the controller and the database agree on it, for any
\* number of cards, taps, losses and restarts, but for a card whose last event was lost
\* or crossed the answer to GETDB.
THEOREM StatusesFollow == Spec => []StatusFollowsDatabase
<1> DEFINE Inv == TypeOK /\ \A c \in Cards : Sync(c)
<1>1. Init => Inv
  BY TypeInit, SyncInit
<1>2. Inv /\ [Next]_vars => Inv'
  BY TypeStep, SyncStep
<1>3. Inv => StatusFollowsDatabase
  BY DEF Sync, Agrees, NoEvent, StatusFollowsDatabase
<1>. QED BY <1>1, <1>2, <1>3, PTL DEF Spec
=============================================================================
