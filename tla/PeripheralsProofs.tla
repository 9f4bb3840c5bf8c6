--------------------------- MODULE PeripheralsProofs ---------------------------
(****************************************************************************)
(* The three programs of MCPeripherals, for any cards, readings of          *)
(* CommIrqReg, moves, lines typed and texts shown.                          *)
(*                                                                          *)
(* Mfrc522: no card is accepted that did not answer in the same poll, and   *)
(* one that stays alone is missed in one poll at most.                      *)
(*                                                                          *)
(* Console: nothing that is typed is lost, doubled or moved.  What is in    *)
(* the terminal is joined by FlattenSeq, of which the second section shows, *)
(* by the least number of sequences it would fail for, that it takes its    *)
(* sequences one after the other.                                           *)
(*                                                                          *)
(* Lcd: a text is where it belongs once a call has ended, in whatever state *)
(* LCD_init found the display.  The invariant says of each moment of a call *)
(* what is left of it and what the display has of it.                       *)
(*                                                                          *)
(* Each is shown of the module itself, R!Spec, C!Spec and Spec; the run of  *)
(* MCPeripherals checks the same, as PartsAsAlone shows.                    *)
(****************************************************************************)
EXTENDS MCPeripherals, SequenceTheorems, WellFoundedInduction, TLAPS

-----------------------------------------------------------------------------
(* Mfrc522 *)

Signals == [bytes : Seq(R!Bytes), bad : BOOLEAN]

\* Only while ToCard reads CommIrqReg is something in the air, or received.
ReaderTypes ==
    /\ R!TypeOK /\ answer \in Signals \cup {None}
    /\ answer # None => pc = "poll"
    /\ pc = "poll" => i > 0
    /\ answer # None => ~ rxIRq

\* What main accepted was heard, and what the chip receives is of cards that are heard.
HeardOnly ==
    /\ seen # None => pc = "main" /\ seen \in heard /\ \A b \in 0 .. 4 : id[b] = seen
    /\ call = "ANTICOLL" /\ pc \in {"poll", "fetch"} =>
          /\ \A b \in DOMAIN fifo : fifo[b] \in heard
          /\ answer # None => \A b \in DOMAIN answer.bytes : answer.bytes[b] \in heard

Sole(c) == \A d \in Cards : field[d] # "away" <=> d = c

\* An answer of these bytes is in the air, or was received, and will be fetched.
Arriving(bytes) ==
    \/ answer = [bytes |-> bytes, bad |-> FALSE] /\ ~ rxIRq /\ pc = "poll" /\ i >= 2
    \/ answer = None /\ rxIRq /\ fifo = bytes /\ ~ error /\ i >= (IF pc = "poll" THEN 2 ELSE 1)

\* How far an undisturbed poll has come with a card that is alone.
Asked(c) ==
    \/ pc = "send" /\ call = "REQA" /\ (misses = 0 \/ field[c] = "idle")
    \/ pc \in {"poll", "fetch"} /\ call = "REQA" /\ field[c] = "ready" /\ Arriving(<<"atqa", "atqa">>)
    \/ pc \in {"poll", "fetch"} /\ call = "REQA" /\ field[c] = "idle" /\ misses = 0 /\ answer = None /\ fifo = <<>>
    \/ pc = "send" /\ call = "ANTICOLL" /\ field[c] = "ready"
    \/ pc \in {"poll", "fetch"} /\ call = "ANTICOLL" /\ field[c] = "ready" /\ Arriving([b \in 1 .. 5 |-> c])

\* A card that was missed was sent back to IDLE by it.
MissedOnce ==
    /\ misses \in {0, 1}
    /\ misses = 1 => ~ disturbed /\ \E c \in Cards : Sole(c) /\ (pc = "main" => field[c] = "idle")
    /\ pc \notin {"off", "main"} /\ ~ disturbed => \A c \in Cards : Sole(c) => Asked(c)
    /\ pc = "off" => misses = 0

ReaderInv == ReaderTypes /\ HeardOnly /\ MissedOnce


LEMMA ReaderInit == R!ReaderConstants /\ R!Init => ReaderInv
<1>. SUFFICES ASSUME R!ReaderConstants, R!Init PROVE ReaderInv
  OBVIOUS
<1>1. ReaderTypes
  <2>1. /\ timer \in [prescaler : 0 .. 255, high : 0 .. 255, low : 0 .. 255]
        /\ i \in 0 .. POLLS /\ misses \in Nat /\ moves \in Nat
    BY DEF R!ReaderConstants, R!Init
  <2>2. id \in [0 .. 4 -> R!Bytes] /\ fifo \in Seq(R!Bytes)
    BY DEF R!Init, R!Bytes, R!Others
  <2>3. field \in [Cards -> {"away", "idle", "ready"}]
    BY DEF R!Init
  <2>4. seen \in Cards \cup {None} /\ heard \subseteq Cards /\ disturbed \in BOOLEAN
    BY DEF R!Init
  <2>5. framing \in {0, 7} /\ rxIRq \in BOOLEAN /\ error \in BOOLEAN
    BY DEF R!Init
  <2>. QED BY <2>1, <2>2, <2>3, <2>4, <2>5 DEF R!Init, ReaderTypes, R!TypeOK
<1>2. HeardOnly /\ MissedOnce
  BY DEF R!ReaderConstants, R!Init, HeardOnly, MissedOnce
<1>. QED BY <1>1, <1>2 DEF ReaderInv

\* What is sent is answered by signals, by one card or by none.
LEMMA SignalTypes ==
  ASSUME R!ReaderConstants, ReaderTypes, R!Send
  PROVE  /\ answer' \in Signals \cup {None} /\ R!Answering \subseteq Cards
         /\ call = "ANTICOLL" /\ answer' # None => \A b \in DOMAIN answer'.bytes : answer'.bytes[b] \in R!Answering
<1>. DEFINE atqa == [bytes |-> <<"atqa", "atqa">>, bad |-> FALSE]
            ids  == [bytes |-> [b \in 1 .. 5 |-> CHOOSE c \in R!Answering : TRUE],
                     bad |-> \E c, d \in R!Answering : c # d]
<1>1. R!Answering \subseteq Cards
  BY DEF R!Answering
<1>2. atqa \in Signals
  BY DEF Signals, R!Bytes, R!Others
<1>3. ASSUME R!Answering # {}
      PROVE  ids \in Signals /\ \A b \in DOMAIN ids.bytes : ids.bytes[b] \in R!Answering
  <2>1. (CHOOSE c \in R!Answering : TRUE) \in R!Answering
    BY <1>3
  <2>2. [b \in 1 .. 5 |-> CHOOSE c \in R!Answering : TRUE] \in Seq(R!Bytes)
    BY <1>1, <2>1 DEF R!Bytes
  <2>. QED BY <2>1, <2>2 DEF Signals
<1>4. ASSUME NEW s \in R!Signal
      PROVE  /\ s = None \/ s \in Signals
             /\ R!Answering # {} => s \in Signals
             /\ call = "ANTICOLL" /\ s # None => \A b \in DOMAIN s.bytes : s.bytes[b] \in R!Answering
  BY <1>2, <1>3, <1>4 DEF R!Signal
<1>5. ASSUME NEW s \in Signals, NEW a \in R!Spoilt(s)
      PROVE  /\ a = None \/ a \in Signals
             /\ a # None => \A b \in DOMAIN a.bytes : b \in DOMAIN s.bytes /\ a.bytes[b] = s.bytes[b]
  <2>1. s.bytes \in Seq(R!Bytes) /\ s.bad \in BOOLEAN /\ s = [bytes |-> s.bytes, bad |-> s.bad]
    BY DEF Signals
  <2>2. CASE a = None
    BY <2>2
  <2>3. CASE a = [s EXCEPT !.bad = TRUE]
    BY <2>1, <2>3 DEF Signals
  <2>4. CASE \E n \in 0 .. Len(s.bytes) - 1 : a = [s EXCEPT !.bytes = SubSeq(@, 1, n)]
    <3>1. PICK n \in 0 .. Len(s.bytes) - 1 : a = [s EXCEPT !.bytes = SubSeq(@, 1, n)]
      BY <2>4
    <3>2. a.bytes = SubSeq(s.bytes, 1, n) /\ a \in Signals
      <4>1. SubSeq(s.bytes, 1, n) \in Seq(R!Bytes)
        BY <2>1
      <4>2. a = [bytes |-> SubSeq(s.bytes, 1, n), bad |-> s.bad]
        BY <2>1, <3>1
      <4>. QED BY <2>1, <4>1, <4>2 DEF Signals
    <3>3. \A b \in 1 .. n : b \in DOMAIN s.bytes /\ SubSeq(s.bytes, 1, n)[b] = s.bytes[b]
      BY <2>1
    <3>4. DOMAIN SubSeq(s.bytes, 1, n) = 1 .. n
      BY <2>1
    <3>. QED BY <3>2, <3>3, <3>4
  <2>. QED BY <2>2, <2>3, <2>4 DEF R!Spoilt
<1>6. CASE answer' \in R!Signal
  BY <1>1, <1>4, <1>6
<1>7. CASE R!Answering # {} /\ answer' \in UNION {R!Spoilt(s) : s \in R!Signal}
  <2>1. PICK s \in R!Signal : answer' \in R!Spoilt(s)
    BY <1>7
  <2>2. s \in Signals /\ s # None
    BY <1>4, <1>7 DEF R!ReaderConstants, Signals
  <2>. QED BY <1>1, <1>4, <1>5, <2>1, <2>2
<1>. QED BY <1>6, <1>7 DEF R!Send

LEMMA ReaderTypesStep ==
  ASSUME R!ReaderConstants, ReaderTypes, R!Next
  PROVE  ReaderTypes'
<1>. USE DEF ReaderTypes, R!TypeOK, R!chip, R!driver, R!history
<1>1. ASSUME NEW c \in Cards, R!Moves(c) PROVE ReaderTypes'
  BY <1>1 DEF R!Moves
<1>2. CASE R!Receive
  BY <1>2 DEF R!Receive, Signals
<1>3. CASE R!MFRC522_Init
  BY <1>3 DEF R!MFRC522_Init
<1>4. CASE R!MFRC522_Request
  BY <1>4 DEF R!MFRC522_Request
<1>5. CASE R!Send
  <2>1. answer' \in Signals \cup {None} /\ R!Answering \subseteq Cards
    BY <1>5, SignalTypes
  <2>2. framing' \in {0, 7} /\ id' \in [0 .. 4 -> R!Bytes]
    BY <1>5 DEF R!Send, R!Framing, R!Sent, R!Bytes, R!Others
  <2>3. field' \in [Cards -> {"away", "idle", "ready"}]
    BY <1>5 DEF R!Send, R!After
  <2>4. POLLS \in Nat /\ i' = POLLS /\ pc' = "poll"
    BY <1>5 DEF R!Send, R!ReaderConstants
  <2>5. /\ UNCHANGED <<timer, call, seen, moves>> /\ rxIRq' = FALSE /\ fifo' = <<>> /\ error' = FALSE
        /\ UNCHANGED <<disturbed, misses>> \/ (disturbed' = TRUE /\ misses' = 0)
    BY <1>5 DEF R!Send
  <2>6. heard' \subseteq Cards
    BY <1>5, <2>1 DEF R!Send
  <2>7. POLLS \in 0 .. POLLS /\ POLLS > 0
    BY DEF R!ReaderConstants
  <2>8. timer' \in [prescaler : 0 .. 255, high : 0 .. 255, low : 0 .. 255] /\ fifo' \in Seq(R!Bytes)
    BY <2>5
  <2>9. i' \in 0 .. POLLS /\ i' > 0
    BY <2>4, <2>7
  <2>10. misses' \in Nat /\ moves' \in Nat /\ disturbed' \in BOOLEAN
    <3>1. misses \in Nat /\ moves \in Nat /\ disturbed \in BOOLEAN
      OBVIOUS
    <3>2. misses' \in Nat /\ moves' \in Nat
      BY <2>5, <3>1
    <3>3. disturbed' \in BOOLEAN
      BY <2>5, <3>1, Zenon
    <3>. QED BY <3>2, <3>3
  <2>. QED BY <2>1, <2>2, <2>3, <2>4, <2>5, <2>6, <2>8, <2>9, <2>10
<1>6. CASE R!PollIrq
  <2>1. i - 1 \in 0 .. POLLS /\ (i - 1 # 0 => i - 1 > 0)
    BY <1>6 DEF R!PollIrq, R!ReaderConstants
  <2>2. i' = i - 1 /\ pc' \in {"poll", "fetch"} /\ (pc' = "poll" => i' # 0)
    BY <1>6 DEF R!PollIrq
  <2>3. answer # None => pc' = "poll"
    <3>1. answer # None => i - 1 # 0 /\ ~ rxIRq
      BY <1>6 DEF R!PollIrq, R!ReaderConstants
    <3>. QED BY <1>6, <3>1 DEF R!PollIrq
  <2>. QED BY <1>6, <2>1, <2>2, <2>3 DEF R!PollIrq
<1>7. CASE R!FetchRequest
  BY <1>7 DEF R!FetchRequest, R!Returns
<1>8. CASE R!FetchId
  <2>1. id' \in [0 .. 4 -> R!Bytes]
    <3>1. R!Fetched \in Seq(R!Bytes)
      <4>1. <<"empty">> \in Seq(R!Bytes)
        BY DEF R!Bytes, R!Others
      <4>. QED BY <4>1 DEF R!Fetched
    <3>2. \A b \in 0 .. 4 : b < Len(R!Fetched) => R!Fetched[b + 1] \in R!Bytes
      BY <3>1
    <3>. QED BY <1>8, <3>2 DEF R!FetchId
  <2>2. \A c \in R!Checked(id') : c \in Cards
    BY DEF R!Checked
  <2>3. PICK c \in Cards \cup {None} : R!Returns(c)
    BY <1>8, <2>2 DEF R!FetchId
  <2>4. pc' = "main" /\ call' = call /\ seen' \in Cards \cup {None} /\ misses' \in Nat
    BY <2>3 DEF R!Returns
  <2>5. UNCHANGED <<timer, R!chip, field, i, heard, disturbed, moves>> /\ answer = None
    BY <1>8 DEF R!FetchId
  <2>. QED BY <2>1, <2>4, <2>5
<1>. QED BY <1>1, <1>2, <1>3, <1>4, <1>5, <1>6, <1>7, <1>8 DEF R!Next, R!Poll, R!ToCard

LEMMA HeardStep ==
  ASSUME R!ReaderConstants, ReaderTypes, HeardOnly, R!Next
  PROVE  HeardOnly'
<1>. USE DEF R!chip, R!driver, R!history
<1>1. ASSUME NEW c \in Cards, R!Moves(c) PROVE HeardOnly'
  BY <1>1 DEF R!Moves, HeardOnly
<1>2. CASE R!Receive
  BY <1>2 DEF R!Receive, HeardOnly
<1>3. CASE R!MFRC522_Init
  BY <1>3 DEF R!MFRC522_Init, HeardOnly
<1>4. CASE R!MFRC522_Request
  BY <1>4 DEF R!MFRC522_Request, HeardOnly
<1>5. CASE R!Send
  <2>1. seen' = None
    BY <1>5 DEF R!Send, HeardOnly
  <2>2. fifo' = <<>> /\ call' = call /\ (call = "ANTICOLL" => heard' = R!Answering)
    BY <1>5 DEF R!Send
  <2>. QED BY <1>5, <2>1, <2>2, SignalTypes DEF HeardOnly
<1>6. CASE R!PollIrq
  BY <1>6 DEF R!PollIrq, HeardOnly
<1>7. CASE R!FetchRequest
  BY <1>7 DEF R!FetchRequest, R!Returns, HeardOnly
<1>8. CASE R!FetchId
  <2>1. PICK c \in Cards \cup {None} :
          /\ pc' = "main" /\ call' = call /\ seen' = c /\ UNCHANGED <<heard, fifo, answer>>
          /\ c # None => R!OK /\ c \in R!Checked(id')
    BY <1>8 DEF R!FetchId, R!Returns, R!Checked
  <2>2. ASSUME c # None PROVE c \in heard /\ \A b \in 0 .. 4 : id'[b] = c
    <3>1. c \in Cards /\ \A b \in 0 .. 4 : id'[b] = c
      BY <2>1, <2>2 DEF R!Checked
    <3>2. id'[0] = R!Fetched[1]
      <4>1. Len(R!Fetched) > 0
        BY DEF R!Fetched, ReaderTypes, R!TypeOK
      <4>. QED BY <1>8, <2>1, <2>2, <4>1 DEF R!FetchId
    <3>3. R!Fetched[1] = "empty" \/ (1 \in DOMAIN fifo /\ R!Fetched[1] = fifo[1])
      BY DEF R!Fetched, ReaderTypes, R!TypeOK
    <3>4. c # "empty"
      BY <3>1 DEF R!ReaderConstants, R!Others
    <3>5. 1 \in DOMAIN fifo /\ c = fifo[1]
      BY <3>1, <3>2, <3>3, <3>4
    <3>. QED BY <1>8, <3>1, <3>5 DEF R!FetchId, HeardOnly
  <2>. QED BY <2>1, <2>2 DEF HeardOnly
<1>. QED BY <1>1, <1>2, <1>3, <1>4, <1>5, <1>6, <1>7, <1>8 DEF R!Next, R!Poll, R!ToCard

\* A card that is alone is the only one that can answer, or be missed.
LEMMA SoleAlone == \A c \in Cards : Sole(c) => R!Alone
  BY DEF Sole, R!Alone

LEMMA AloneSole == ReaderTypes /\ R!Alone => \E c \in Cards : Sole(c)
  BY DEF Sole, R!Alone

LEMMA OnlySole == \A c, d \in Cards : Sole(c) /\ Sole(d) => c = d
  BY DEF Sole

\* Sending moves no card in or out; it makes a READY card that REQA finds IDLE, and the other way round.
LEMMA SendSole ==
  ASSUME R!ReaderConstants, ReaderTypes, R!Send, NEW c \in Cards
  PROVE  /\ Sole(c)' <=> Sole(c)
         /\ Sole(c) /\ call = "REQA" => field'[c] = IF field[c] = "idle" THEN "ready" ELSE "idle"
         /\ Sole(c) /\ call = "ANTICOLL" => field'[c] = IF field[c] = "ready" THEN "ready" ELSE "idle"
         /\ Sole(c) => R!Answering \subseteq {c}
         /\ Sole(c) => (c \in R!Answering <=> field[c] = IF call = "REQA" THEN "idle" ELSE "ready")
<1>1. /\ field' = [d \in Cards |-> R!After(d)] /\ call \in {"REQA", "ANTICOLL"}
      /\ framing' = IF call = "REQA" THEN 7 ELSE 0
      /\ field \in [Cards -> {"away", "idle", "ready"}]
  BY DEF R!Send, R!Framing, ReaderTypes, R!TypeOK
<1>2. \A d \in Cards : d \in R!Answering <=> field[d] = IF call = "REQA" THEN "idle" ELSE "ready"
  BY <1>1 DEF R!Answering
<1>3. \A d \in Cards : field'[d] = "away" <=> field[d] = "away"
  BY <1>1, <1>2 DEF R!After
<1>4. Sole(c)' <=> Sole(c)
  BY <1>3 DEF Sole
<1>5. Sole(c) => R!Answering \subseteq {c} /\ field[c] # "away"
  BY <1>1, <1>2 DEF Sole, R!Answering
<1>6. Sole(c) => field'[c] = IF c \in R!Answering THEN "ready" ELSE "idle"
  BY <1>1, <1>5 DEF R!After
<1>7. field[c] \in {"away", "idle", "ready"}
  BY <1>1
<1>. QED BY <1>1, <1>2, <1>4, <1>5, <1>6, <1>7

\* What a card that is alone answers, if nothing spoils it.
LEMMA SoleSignal ==
  ASSUME R!ReaderConstants, NEW c \in Cards, answer' \in R!Signal
  PROVE  /\ R!Answering = {} => answer' = None
         /\ R!Answering = {c} /\ call = "REQA" => answer' = [bytes |-> <<"atqa", "atqa">>, bad |-> FALSE]
         /\ R!Answering = {c} /\ call # "REQA" => answer' = [bytes |-> [b \in 1 .. 5 |-> c], bad |-> FALSE]
<1>1. ASSUME R!Answering = {c}
      PROVE  (CHOOSE d \in R!Answering : TRUE) = c /\ (\E d, e \in R!Answering : d # e) = FALSE /\ R!Answering # {}
  BY <1>1
<1>. QED BY <1>1 DEF R!Signal

LEMMA SendMissed ==
  ASSUME R!ReaderConstants, ReaderTypes, MissedOnce, R!Send
  PROVE  MissedOnce'
<1>1. /\ pc = "send" /\ pc' = "poll" /\ call' = call /\ i' = POLLS /\ rxIRq' = FALSE /\ fifo' = <<>>
      /\ error' = FALSE /\ call \in {"REQA", "ANTICOLL"}
  BY DEF R!Send, ReaderTypes, R!TypeOK
<1>2. CASE disturbed' = TRUE /\ misses' = 0
  BY <1>1, <1>2 DEF MissedOnce
<1>3. CASE answer' \in R!Signal /\ UNCHANGED <<disturbed, misses>>
  <2>1. misses' = 1 => ~ disturbed' /\ \E c \in Cards : Sole(c)' /\ pc' # "main"
    BY <1>1, <1>3, SendSole DEF MissedOnce
  <2>2. ASSUME ~ disturbed', NEW c \in Cards, Sole(c)' PROVE Asked(c)'
    <3>1. Sole(c) /\ Asked(c)
      BY <1>1, <1>3, <2>2, SendSole DEF MissedOnce
    <3>2. POLLS >= 2
      BY DEF R!ReaderConstants
    <3>3. CASE call = "REQA" /\ field[c] = "idle"
      <4>1. R!Answering = {c} /\ field'[c] = "ready"
        BY <3>1, <3>3, SendSole
      <4>2. answer' = [bytes |-> <<"atqa", "atqa">>, bad |-> FALSE]
        BY <1>3, <3>3, <4>1, SoleSignal
      <4>3. Arriving(<<"atqa", "atqa">>)'
        BY <1>1, <3>2, <4>2 DEF Arriving
      <4>. QED BY <1>1, <3>3, <4>1, <4>3 DEF Asked
    <3>4. CASE call = "REQA" /\ field[c] # "idle"
      <4>1. R!Answering = {} /\ field'[c] = "idle" /\ misses = 0
        BY <1>1, <3>1, <3>4, SendSole DEF Asked
      <4>2. answer' = None
        BY <1>3, <4>1, SoleSignal
      <4>. QED BY <1>1, <1>3, <3>4, <4>1, <4>2 DEF Asked
    <3>5. CASE call = "ANTICOLL"
      <4>1. field[c] = "ready"
        BY <1>1, <3>1, <3>5 DEF Asked
      <4>2. R!Answering = {c} /\ field'[c] = "ready"
        BY <3>1, <3>5, <4>1, SendSole
      <4>3. answer' = [bytes |-> [b \in 1 .. 5 |-> c], bad |-> FALSE]
        BY <1>3, <3>5, <4>2, SoleSignal
      <4>4. Arriving([b \in 1 .. 5 |-> c])'
        BY <1>1, <3>2, <4>3 DEF Arriving
      <4>. QED BY <1>1, <3>5, <4>2, <4>4 DEF Asked
    <3>. QED BY <1>1, <3>3, <3>4, <3>5
  <2>. QED BY <1>1, <1>3, <2>1, <2>2 DEF MissedOnce
<1>. QED BY <1>2, <1>3 DEF R!Send

\* What is on its way stays on its way until it is fetched.
LEMMA ArrivingStep ==
  ASSUME R!ReaderConstants, ReaderTypes, R!Receive \/ R!PollIrq, NEW bytes \in Seq(R!Bytes), Arriving(bytes)
  PROVE  Arriving(bytes)'
<1>1. None # [bytes |-> bytes, bad |-> FALSE]
  <2>1. [bytes |-> bytes, bad |-> FALSE] \in Signals
    BY DEF Signals
  <2>. QED BY <2>1 DEF Signals, R!ReaderConstants
<1>2. CASE R!Receive
  BY <1>2 DEF Arriving, R!Receive, R!driver
<1>3. CASE R!PollIrq
  <2>1. i' = i - 1 /\ i \in Nat /\ pc = "poll" /\ UNCHANGED R!chip
    BY <1>3 DEF R!PollIrq, ReaderTypes, R!TypeOK
  <2>2. CASE answer = None
    BY <1>1, <1>3, <2>1, <2>2 DEF Arriving, R!PollIrq, R!chip
  <2>3. CASE answer # None
    BY <1>3, <2>1, <2>3 DEF Arriving, R!PollIrq, R!chip
  <2>. QED BY <2>2, <2>3
<1>. QED BY <1>2, <1>3

LEMMA AnswerTypes == <<"atqa", "atqa">> \in Seq(R!Bytes) /\ \A c \in Cards : [b \in 1 .. 5 |-> c] \in Seq(R!Bytes)
  BY DEF R!Bytes, R!Others

LEMMA ReturnsMissed ==
  ASSUME ReaderTypes, MissedOnce, pc = "fetch", NEW c, R!Returns(c), UNCHANGED <<field, disturbed>>,
         c = None => \A d \in Cards : Sole(d) /\ ~ disturbed => field[d] = "idle" /\ misses = 0
  PROVE  MissedOnce'
<1>1. pc' = "main" /\ misses' = IF c # None \/ disturbed \/ ~ R!Alone THEN 0 ELSE misses + 1
  BY DEF R!Returns
<1>2. CASE c # None \/ disturbed \/ ~ R!Alone
  BY <1>1, <1>2 DEF MissedOnce
<1>3. CASE ~ (c # None \/ disturbed \/ ~ R!Alone)
  <2>1. PICK d \in Cards : Sole(d)
    BY <1>3, AloneSole
  <2>2. field[d] = "idle" /\ misses = 0
    BY <1>3, <2>1
  <2>3. Sole(d)'
    BY <2>1 DEF Sole
  <2>. QED BY <1>1, <1>3, <2>2, <2>3 DEF MissedOnce
<1>. QED BY <1>2, <1>3

LEMMA MissedStep ==
  ASSUME R!ReaderConstants, ReaderTypes, MissedOnce, R!Next
  PROVE  MissedOnce'
<1>1. ASSUME NEW c \in Cards, R!Moves(c) PROVE MissedOnce'
  BY <1>1 DEF R!Moves, MissedOnce, R!driver
<1>2. CASE R!Receive
  <2>1. pc = "poll" /\ answer # None /\ UNCHANGED <<pc, call, field, disturbed, misses>>
    BY <1>2 DEF R!Receive, R!driver, R!history
  <2>2. ASSUME NEW c \in Cards, Asked(c) PROVE Asked(c)'
    BY <1>2, <2>1, <2>2, ArrivingStep, AnswerTypes DEF Asked
  <2>. QED BY <2>1, <2>2 DEF MissedOnce, Sole
<1>3. CASE R!MFRC522_Init
  BY <1>3 DEF R!MFRC522_Init, MissedOnce, R!history
<1>4. CASE R!MFRC522_Request
  <2>1. pc = "main" /\ pc' = "send" /\ call' = "REQA" /\ disturbed' = FALSE /\ UNCHANGED <<field, misses>>
    BY <1>4 DEF R!MFRC522_Request
  <2>2. ASSUME NEW c \in Cards, Sole(c) PROVE misses = 0 \/ field[c] = "idle"
    BY <2>1, <2>2, OnlySole DEF MissedOnce
  <2>3. \A c \in Cards : Sole(c)' <=> Sole(c)
    BY <2>1 DEF Sole
  <2>. QED BY <2>1, <2>2, <2>3 DEF MissedOnce, Asked
<1>5. CASE R!Send
  BY <1>5, SendMissed
<1>6. CASE R!PollIrq
  <2>1. pc = "poll" /\ pc' \in {"poll", "fetch"} /\ UNCHANGED <<R!chip, call, field, disturbed, misses>>
    BY <1>6 DEF R!PollIrq, R!history
  <2>2. ASSUME NEW c \in Cards, Asked(c) PROVE Asked(c)'
    BY <1>6, <2>1, <2>2, ArrivingStep, AnswerTypes DEF Asked, R!chip
  <2>. QED BY <2>1, <2>2 DEF MissedOnce, Sole
<1>7. CASE R!FetchRequest
  <2>1. pc = "fetch" /\ call = "REQA" /\ UNCHANGED <<R!chip, field, disturbed>> /\ answer = None
    BY <1>7 DEF R!FetchRequest, ReaderTypes
  <2>2. ASSUME NEW c \in Cards, Sole(c), ~ disturbed
        PROVE  \/ field[c] = "ready" /\ R!OK /\ Len(fifo) = 2
               \/ field[c] = "idle" /\ misses = 0 /\ Len(fifo) # 2
    <3>1. Asked(c)
      BY <2>1, <2>2 DEF MissedOnce
    <3>2. CASE field[c] = "ready" /\ Arriving(<<"atqa", "atqa">>)
      <4>1. fifo = <<"atqa", "atqa">> /\ ~ error /\ i >= 1
        BY <2>1, <3>2 DEF Arriving
      <4>2. i # 0
        BY <4>1 DEF ReaderTypes, R!TypeOK
      <4>. QED BY <3>2, <4>1, <4>2 DEF R!OK
    <3>. QED BY <2>1, <3>1, <3>2 DEF Asked
  <2>3. CASE R!OK /\ Len(fifo) = 2
    <3>1. pc' = "send" /\ call' = "ANTICOLL" /\ UNCHANGED misses
      BY <1>7, <2>3 DEF R!FetchRequest
    <3>2. ASSUME NEW c \in Cards, Sole(c), ~ disturbed PROVE field[c] = "ready"
      BY <2>2, <2>3, <3>2
    <3>. QED BY <2>1, <3>1, <3>2 DEF MissedOnce, Sole, Asked
  <2>4. CASE ~ (R!OK /\ Len(fifo) = 2)
    <3>1. R!Returns(None)
      BY <1>7, <2>4 DEF R!FetchRequest
    <3>. QED BY <2>1, <2>2, <2>4, <3>1, ReturnsMissed
  <2>. QED BY <2>3, <2>4
<1>8. CASE R!FetchId
  <2>1. pc = "fetch" /\ call = "ANTICOLL" /\ UNCHANGED <<R!chip, field, disturbed>> /\ answer = None
    BY <1>8 DEF R!FetchId, ReaderTypes
  <2>2. ASSUME NEW c \in Cards, Sole(c), ~ disturbed PROVE R!OK /\ R!Checked(id') # {}
    <3>1. Arriving([b \in 1 .. 5 |-> c])
      BY <2>1, <2>2 DEF MissedOnce, Asked
    <3>2. fifo = [b \in 1 .. 5 |-> c] /\ R!OK
      BY <2>1, <3>1 DEF Arriving, R!OK, ReaderTypes, R!TypeOK
    <3>3. R!Fetched = fifo /\ Len(fifo) = 5
      BY <3>2 DEF R!Fetched
    <3>4. \A b \in 0 .. 4 : id'[b] = c
      BY <1>8, <3>2, <3>3 DEF R!FetchId
    <3>. QED BY <3>2, <3>4 DEF R!Checked
  <2>3. CASE R!OK /\ R!Checked(id') # {}
    <3>1. PICK c \in Cards : R!Returns(c)
      BY <1>8, <2>3 DEF R!FetchId, R!Checked
    <3>2. c # None
      BY DEF R!ReaderConstants
    <3>. QED BY <2>1, <3>1, <3>2, ReturnsMissed
  <2>4. CASE ~ (R!OK /\ R!Checked(id') # {})
    <3>1. R!Returns(None)
      BY <1>8, <2>4 DEF R!FetchId
    <3>. QED BY <2>1, <2>2, <2>4, <3>1, ReturnsMissed
  <2>. QED BY <2>3, <2>4
<1>. QED BY <1>1, <1>2, <1>3, <1>4, <1>5, <1>6, <1>7, <1>8 DEF R!Next, R!Poll, R!ToCard

LEMMA ReaderStep == R!ReaderConstants /\ ReaderInv /\ [R!Next]_R!vars => ReaderInv'
<1>. SUFFICES ASSUME R!ReaderConstants, ReaderInv, [R!Next]_R!vars PROVE ReaderInv'
  OBVIOUS
<1>1. CASE UNCHANGED R!vars
  BY <1>1 DEF R!vars, R!chip, R!driver, R!history, ReaderInv, ReaderTypes, R!TypeOK, HeardOnly, MissedOnce,
     Sole, Asked, Arriving
<1>2. CASE R!Next
  BY <1>2, ReaderTypesStep, HeardStep, MissedStep DEF ReaderInv
<1>. QED BY <1>1, <1>2

\* An id is accepted only of a card that answered ANTICOLL in the same poll: what ToCard left in
\* mfrc522_id from an earlier poll is never taken for an answer.
THEOREM AcceptsOnlyHeard == R!Spec => []AcceptsWhoAnswered
<1>1. R!Init => ReaderInv
  BY PartsAssumption, ReaderInit
<1>2. ReaderInv /\ [R!Next]_R!vars => ReaderInv'
  BY PartsAssumption, ReaderStep
<1>3. ReaderInv => AcceptsWhoAnswered
  BY DEF ReaderInv, HeardOnly, R!AcceptsWhoAnswered, AcceptsWhoAnswered
<1>. QED BY <1>1, <1>2, <1>3, PTL DEF R!Spec

\* A card that stays alone on the reader, undisturbed, is seen at every other poll at least:
\* the REQA it does not answer makes it IDLE, and the next one is answered.
THEOREM MissedOnceAtMost == R!Spec => []SeenEveryOther
<1>1. R!Init => ReaderInv
  BY PartsAssumption, ReaderInit
<1>2. ReaderInv /\ [R!Next]_R!vars => ReaderInv'
  BY PartsAssumption, ReaderStep
<1>3. ReaderInv => SeenEveryOther
  BY DEF ReaderInv, MissedOnce, R!SeenEveryOther, SeenEveryOther
<1>. QED BY <1>1, <1>2, <1>3, PTL DEF R!Spec

\* A set of numbers has a least one.
LEMMA Least == ASSUME NEW T, T \subseteq Nat, T # {} PROVE \E n \in T : \A m \in T : n <= m
<1>1. IsWellFoundedOn(OpToRel(<, Nat), Nat)
  BY NatLessThanWellFounded
<1>2. PICK n \in T : \A m \in T : ~ (<<m, n>> \in OpToRel(<, Nat))
  BY <1>1, WFMin
<1>3. \A m \in T : ~ (m < n)
  BY <1>2 DEF OpToRel
<1>. QED BY <1>3

\* Sequences joined.  (The provers do not reason well about \o itself.)
Cat(a, b) == a \o b

LEMMA Associative == \A S : \A x, y, z \in Seq(S) : Cat(Cat(x, y), z) = Cat(x, Cat(y, z))
  BY ConcatAssociative DEF Cat

-----------------------------------------------------------------------------
(* FlattenSeq. *)

\* f has the first one, two, ... n sequences of s joined.
Joins(f, s, n) == \A k \in 1 .. n : f[k] = IF k = 1 THEN s[1] ELSE f[k - 1] \o s[k]

LEMMA JoinsUnique ==
  ASSUME NEW s, NEW n \in Nat, NEW f, NEW g, Joins(f, s, n), Joins(g, s, n)
  PROVE  \A k \in 1 .. n : f[k] = g[k]
<1>. DEFINE T == {k \in 1 .. n : f[k] # g[k]}
<1>. SUFFICES ASSUME T # {} PROVE FALSE
  OBVIOUS
<1>1. PICK k \in T : \A m \in T : k <= m
  <2>1. T \subseteq Nat
    OBVIOUS
  <2>. QED BY <2>1, Least
<1>2. k # 1
  BY DEF Joins
<1>3. k - 1 \in 1 .. n /\ k - 1 \notin T
  BY <1>1, <1>2
<1>. QED BY <1>1, <1>2, <1>3 DEF Joins

LEMMA JoinsExists ==
  ASSUME NEW S, NEW N \in Nat, NEW s, \A k \in 1 .. N : s[k] \in Seq(S)
  PROVE  \A n \in 0 .. N : \E f \in [1 .. n -> Seq(S)] : Joins(f, s, n)
<1>. DEFINE T == {n \in 0 .. N : ~ \E f \in [1 .. n -> Seq(S)] : Joins(f, s, n)}
<1>. SUFFICES ASSUME T # {} PROVE FALSE
  OBVIOUS
<1>1. PICK n \in T : \A m \in T : n <= m
  <2>1. T \subseteq Nat
    OBVIOUS
  <2>. QED BY <2>1, Least
<1>2. n \in 0 .. N /\ n \in Nat /\ n # 0
  <2>1. [k \in 1 .. 0 |-> <<>>] \in [1 .. 0 -> Seq(S)] /\ Joins([k \in 1 .. 0 |-> <<>>], s, 0)
    BY DEF Joins
  <2>2. 0 \notin T
    BY <2>1
  <2>3. n \in 0 .. N
    OBVIOUS
  <2>. HIDE DEF T
  <2>. QED BY <2>2, <2>3
<1>3. n - 1 \in 0 .. N /\ n - 1 \notin T
  <2>1. n - 1 \in 0 .. N /\ ~ (n <= n - 1)
    BY <1>2
  <2>. HIDE DEF T
  <2>. QED BY <1>1, <2>1
<1>4. PICK f \in [1 .. n - 1 -> Seq(S)] : Joins(f, s, n - 1)
  BY <1>3
<1>. DEFINE g == [k \in 1 .. n |-> IF k = 1 THEN s[1] ELSE f[k - 1] \o s[k]]
<1>5. \A k \in 1 .. n : s[k] \in Seq(S) /\ (k # 1 => f[k - 1] \in Seq(S) /\ k - 1 \in 1 .. n - 1)
  BY <1>2
<1>6. g \in [1 .. n -> Seq(S)]
  <2>1. \A k \in 1 .. n : k # 1 => f[k - 1] \o s[k] \in Seq(S)
    BY <1>5, ConcatProperties
  <2>. QED BY <1>5, <2>1
<1>7. ASSUME NEW k \in 1 .. n - 1 PROVE g[k] = f[k]
  <2>1. k \in 1 .. n
    BY <1>2
  <2>2. g[k] = IF k = 1 THEN s[1] ELSE f[k - 1] \o s[k]
    BY <2>1
  <2>3. f[k] = IF k = 1 THEN s[1] ELSE f[k - 1] \o s[k]
    BY <1>4 DEF Joins
  <2>. QED BY <2>2, <2>3
<1>8. Joins(g, s, n)
  <2>. SUFFICES ASSUME NEW k \in 1 .. n PROVE g[k] = IF k = 1 THEN s[1] ELSE g[k - 1] \o s[k]
    BY DEF Joins
  <2>1. g[k] = IF k = 1 THEN s[1] ELSE f[k - 1] \o s[k]
    OBVIOUS
  <2>2. k # 1 => g[k - 1] = f[k - 1]
    BY <1>5, <1>7
  <2>. HIDE DEF g
  <2>. QED BY <2>1, <2>2
<1>9. n \notin T
  BY <1>6, <1>8
<1>. QED BY <1>1, <1>9

LEMMA FlattenIs ==
  ASSUME NEW S, NEW s \in Seq(Seq(S)), s # <<>>, NEW f, Joins(f, s, Len(s))
  PROVE  FlattenSeq(s) = f[Len(s)]
<1>. DEFINE n == Len(s)
            Fix(h) == h = [k \in 1 .. n |-> IF k = 1 THEN s[k] ELSE h[k - 1] \o s[k]]
            F == CHOOSE h : Fix(h)
<1>0. n \in Nat /\ n # 0 /\ \A k \in 1 .. n : s[k] \in Seq(S)
  OBVIOUS
<1>1. FlattenSeq(s) = F[n]
  BY <1>0 DEF FlattenSeq
<1>. HIDE DEF n
<1>2. PICK h \in [1 .. n -> Seq(S)] : Joins(h, s, n)
  <2>1. n \in 0 .. n
    BY <1>0
  <2>. QED BY <1>0, <2>1, JoinsExists
<1>3. Fix(h)
  BY <1>2 DEF Joins
<1>4. Fix(F)
  BY <1>3
<1>5. Joins(F, s, n)
  <2>. HIDE DEF F
  <2>. SUFFICES ASSUME NEW k \in 1 .. n PROVE F[k] = IF k = 1 THEN s[1] ELSE F[k - 1] \o s[k]
    BY DEF Joins
  <2>1. F[k] = IF k = 1 THEN s[k] ELSE F[k - 1] \o s[k]
    <3>1. [j \in 1 .. n |-> IF j = 1 THEN s[j] ELSE F[j - 1] \o s[j]][k] = IF k = 1 THEN s[k] ELSE F[k - 1] \o s[k]
      OBVIOUS
    <3>. QED BY <1>4, <3>1
  <2>. QED BY <2>1
<1>6. F[n] = f[n]
  <2>. HIDE DEF F
  <2>1. \A k \in 1 .. n : F[k] = f[k]
    BY <1>0, <1>5, JoinsUnique DEF n
  <2>. QED BY <1>0, <2>1
<1>. QED BY <1>1, <1>6 DEF n

LEMMA FlattenEmpty == FlattenSeq(<<>>) = <<>>
  BY DEF FlattenSeq

\* Members of a sequence of sequences.
LEMMA Members ==
  ASSUME NEW S, NEW s \in Seq(Seq(S))
  PROVE  /\ Len(s) \in Nat /\ (s # <<>> <=> Len(s) # 0) /\ Len(s) \in 0 .. Len(s)
         /\ \A k \in 1 .. Len(s) : s[k] \in Seq(S)
  OBVIOUS

LEMMA FlattenType == ASSUME NEW S, NEW s \in Seq(Seq(S)) PROVE FlattenSeq(s) \in Seq(S)
<1>1. CASE s = <<>>
  <2>1. <<>> \in Seq(S)
    OBVIOUS
  <2>. QED BY <1>1, <2>1, FlattenEmpty
<1>2. CASE s # <<>>
  <2>1. PICK f \in [1 .. Len(s) -> Seq(S)] : Joins(f, s, Len(s))
    BY Members, JoinsExists
  <2>2. Len(s) \in 1 .. Len(s)
    BY <1>2
  <2>3. f[Len(s)] \in Seq(S)
    BY <2>1, <2>2
  <2>. QED BY <1>2, <2>1, <2>3, FlattenIs
<1>. QED BY <1>1, <1>2

LEMMA FlattenAppend ==
  ASSUME NEW S, NEW s \in Seq(Seq(S)), NEW e \in Seq(S)
  PROVE  FlattenSeq(Append(s, e)) = FlattenSeq(s) \o e
<1>. DEFINE t == Append(s, e)
            n == Len(s)
<1>1. /\ t \in Seq(Seq(S)) /\ t # <<>> /\ Len(t) = n + 1 /\ t[n + 1] = e
      /\ \A k \in 1 .. n : t[k] = s[k]
  BY AppendProperties
<1>. HIDE DEF t
<1>2. CASE s = <<>>
  <2>1. n = 0
    BY <1>2
  <2>. DEFINE g == [k \in 1 .. 1 |-> e]
  <2>2. Joins(g, t, Len(t)) /\ Len(t) = 1 /\ g[1] = e
    BY <1>1, <2>1 DEF Joins
  <2>3. FlattenSeq(t) = e
    <3>. HIDE DEF g
    <3>. QED BY <1>1, <2>2, FlattenIs
  <2>. QED BY <1>2, <2>3, FlattenEmpty, ConcatEmptySeq DEF t
<1>3. CASE s # <<>>
  <2>1. PICK f \in [1 .. n -> Seq(S)] : Joins(f, s, n)
    BY Members, JoinsExists
  <2>. DEFINE g == [k \in 1 .. n + 1 |-> IF k <= n THEN f[k] ELSE f[n] \o e]
  <2>2. n \in Nat /\ n # 0
    BY <1>3
  <2>5. FlattenSeq(s) = f[n]
    BY <1>3, <2>1, FlattenIs
  <2>. HIDE DEF n
  <2>3. Joins(g, t, n + 1)
    <3>. SUFFICES ASSUME NEW k \in 1 .. n + 1 PROVE g[k] = IF k = 1 THEN t[1] ELSE g[k - 1] \o t[k]
      BY DEF Joins
    <3>1. CASE k <= n
      <4>1. k \in 1 .. n /\ 1 \in 1 .. n /\ (k # 1 => k - 1 \in 1 .. n + 1 /\ k - 1 <= n)
        BY <2>2, <3>1
      <4>2. g[k] = f[k] /\ (k # 1 => g[k - 1] = f[k - 1])
        BY <3>1, <4>1
      <4>3. f[k] = IF k = 1 THEN s[1] ELSE f[k - 1] \o s[k]
        BY <2>1, <4>1 DEF Joins
      <4>4. t[1] = s[1] /\ t[k] = s[k]
        BY <1>1, <4>1
      <4>. HIDE DEF g
      <4>. QED BY <4>2, <4>3, <4>4
    <3>2. CASE k = n + 1
      <4>1. ~ (n + 1 <= n) /\ n <= n /\ n \in 1 .. n + 1 /\ k # 1 /\ k - 1 = n
        BY <2>2, <3>2
      <4>2. g[n + 1] = f[n] \o e /\ g[n] = f[n]
        BY <2>2, <4>1
      <4>. HIDE DEF g
      <4>. QED BY <1>1, <3>2, <4>1, <4>2
    <3>. QED BY <2>2, <3>1, <3>2
  <2>4. FlattenSeq(t) = g[n + 1]
    <3>. HIDE DEF g
    <3>. QED BY <1>1, <2>3, FlattenIs
  <2>6. g[n + 1] = f[n] \o e
    <3>1. n + 1 \in 1 .. n + 1 /\ ~ (n + 1 <= n)
      BY <2>2
    <3>. QED BY <3>1
  <2>. QED BY <2>4, <2>5, <2>6 DEF t
<1>. QED BY <1>2, <1>3

LEMMA FlattenHead ==
  ASSUME NEW S, NEW s \in Seq(Seq(S)), s # <<>>
  PROVE  FlattenSeq(s) = Head(s) \o FlattenSeq(Tail(s))
<1>. DEFINE t == Tail(s)
            n == Len(s)
<1>1. /\ t \in Seq(Seq(S)) /\ n \in Nat /\ n > 0 /\ Len(t) = n - 1 /\ Head(s) = s[1]
      /\ \A k \in 1 .. n - 1 : t[k] = s[k + 1]
      /\ \A k \in 1 .. n : s[k] \in Seq(S)
  BY HeadTailProperties
<1>0. \A a, b, c \in Seq(S) : Cat(Cat(a, b), c) = Cat(a, Cat(b, c))
  BY Associative
<1>2. CASE n = 1
  <2>1. t = <<>> /\ s[1] \in Seq(S)
    <3>1. Len(t) = 0
      BY <1>1, <1>2
    <3>. HIDE DEF t
    <3>. QED BY <1>1, <1>2, <3>1
  <2>2. Joins(s, s, n)
    BY <1>2 DEF Joins
  <2>3. FlattenSeq(s) = s[1]
    BY <1>2, <2>2, FlattenIs
  <2>4. s[1] \o <<>> = s[1]
    BY <2>1, ConcatEmptySeq
  <2>5. FlattenSeq(t) = <<>>
    BY <2>1, FlattenEmpty
  <2>. HIDE DEF t, n
  <2>. QED BY <1>1, <2>3, <2>4, <2>5 DEF t
<1>3. CASE n # 1
  <2>. HIDE DEF t
  <2>0. t # <<>> /\ n - 1 \in Nat /\ n - 1 > 0
    <3>1. n - 1 # 0 /\ n - 1 \in Nat
      BY <1>1, <1>3
    <3>2. Len(t) # 0
      BY <1>1, <3>1
    <3>. QED BY <1>1, <3>1, <3>2, Members
  <2>1. PICK f \in [1 .. n - 1 -> Seq(S)] : Joins(f, t, n - 1)
    <3>1. \A k \in 1 .. n - 1 : t[k] \in Seq(S)
      BY <1>1, Members
    <3>2. n - 1 \in 0 .. n - 1
      BY <2>0
    <3>. QED BY <2>0, <3>1, <3>2, JoinsExists
  <2>4. FlattenSeq(t) = f[n - 1]
    BY <1>1, <2>0, <2>1, FlattenIs
  <2>. DEFINE g == [k \in 1 .. n |-> IF k = 1 THEN s[1] ELSE s[1] \o f[k - 1]]
  <2>2. Joins(g, s, n)
    <3>. HIDE DEF n
    <3>. SUFFICES ASSUME NEW k \in 1 .. n PROVE g[k] = IF k = 1 THEN s[1] ELSE g[k - 1] \o s[k]
      BY DEF Joins
    <3>0. \A j \in 1 .. n : g[j] = IF j = 1 THEN s[1] ELSE s[1] \o f[j - 1]
      OBVIOUS
    <3>. HIDE DEF g
    <3>1. CASE k = 1
      BY <3>0, <3>1
    <3>2. CASE k = 2
      <4>1. 1 \in 1 .. n - 1 /\ 1 \in 1 .. n /\ 2 \in 1 .. n /\ 2 - 1 = 1 /\ 1 + 1 = 2 /\ 2 # 1
        BY <1>1, <2>0, <3>2
      <4>2. f[1] = t[1]
        BY <2>1, <4>1 DEF Joins
      <4>3. t[1] = s[2]
        BY <1>1, <4>1
      <4>4. g[2] = s[1] \o f[1] /\ g[1] = s[1]
        BY <3>0, <4>1
      <4>. QED BY <3>2, <4>1, <4>2, <4>3, <4>4
    <3>3. CASE k > 2
      <4>0. /\ k - 1 \in 1 .. n - 1 /\ k - 1 \in 1 .. n /\ k - 2 \in 1 .. n - 1
            /\ k - 1 # 1 /\ k # 1 /\ (k - 1) - 1 = k - 2 /\ (k - 1) + 1 = k /\ 1 \in 1 .. n
        <5>1. n \in Nat /\ k \in 3 .. n
          BY <1>1, <2>0, <3>3
        <5>. QED BY <5>1
      <4>1. f[k - 1] = f[k - 2] \o s[k]
        <5>1. f[k - 1] = f[(k - 1) - 1] \o t[k - 1]
          BY <2>1, <4>0 DEF Joins
        <5>2. t[k - 1] = s[(k - 1) + 1]
          BY <1>1, <4>0
        <5>. QED BY <4>0, <5>1, <5>2
      <4>2. g[k] = s[1] \o f[k - 1] /\ g[k - 1] = s[1] \o f[k - 2]
        BY <3>0, <4>0
      <4>3. f[k - 2] \in Seq(S) /\ s[1] \in Seq(S) /\ s[k] \in Seq(S)
        BY <1>1, <2>1, <4>0
      <4>4. Cat(Cat(s[1], f[k - 2]), s[k]) = Cat(s[1], Cat(f[k - 2], s[k]))
        BY <1>0, <4>3
      <4>5. (s[1] \o f[k - 2]) \o s[k] = s[1] \o (f[k - 2] \o s[k])
        BY <4>4 DEF Cat
      <4>. QED BY <4>0, <4>1, <4>2, <4>5
    <3>4. k = 1 \/ k = 2 \/ k > 2
      OBVIOUS
    <3>. QED BY <3>1, <3>2, <3>3, <3>4
  <2>3. FlattenSeq(s) = g[n]
    <3>. HIDE DEF g
    <3>. QED BY <2>2, FlattenIs
  <2>5. g[n] = s[1] \o f[n - 1]
    <3>1. n \in 1 .. n /\ n # 1
      BY <1>1, <1>3
    <3>. HIDE DEF n
    <3>. QED BY <3>1
  <2>. HIDE DEF g, n
  <2>. QED BY <1>1, <2>3, <2>4, <2>5 DEF t
<1>. QED BY <1>2, <1>3

-----------------------------------------------------------------------------
(* Console *)

AllParts == [line : Nat, kind : C!Kinds, half : {1, 2}]

\* What a line of the terminal holds is never empty, and no part of it is the end of the input.
Typed(s) == s # <<>> /\ \A k \in DOMAIN s : s[k].line # 0

ConsoleTypes ==
    /\ typed \in Seq(C!Kinds)
    /\ tty \in Seq(Seq(AllParts)) /\ \A k \in DOMAIN tty : Typed(tty[k])
    /\ stdin \in Seq(AllParts) /\ \A k \in DOMAIN stdin : stdin[k].line # 0
    /\ sent \in Seq(AllParts) /\ msg \in AllParts
    /\ spc \in {"select", "fgets", "write", "done"}
    /\ spc \in {"select", "fgets"} => msg = C!Nothing

LinesOf(t) == [n \in DOMAIN t |-> C!Parts(n, t[n])]

ConsoleInv == ConsoleTypes /\ C!NothingLost

LEMMA PartsTypes ==
  ASSUME NEW n \in Nat \ {0}, NEW k \in C!Kinds
  PROVE  C!Parts(n, k) \in Seq(AllParts) /\ Typed(C!Parts(n, k))
<1>1. C!Part(n, k, 1) \in AllParts /\ C!Part(n, k, 2) \in AllParts /\ C!Part(n, k, 1).line = n /\ C!Part(n, k, 2).line = n
  BY DEF AllParts, C!Part
<1>. HIDE DEF C!Part
<1>2. CASE k = "long"
  BY <1>1, <1>2 DEF C!Parts, Typed
<1>3. CASE k # "long"
  BY <1>1, <1>3 DEF C!Parts, Typed
<1>. QED BY <1>2, <1>3

LEMMA LinesTypes ==
  ASSUME NEW t \in Seq(C!Kinds)
  PROVE  LinesOf(t) \in Seq(Seq(AllParts)) /\ Len(LinesOf(t)) = Len(t)
<1>1. \A n \in 1 .. Len(t) : t[n] \in C!Kinds /\ n \in Nat \ {0}
  OBVIOUS
<1>2. \A n \in 1 .. Len(t) : C!Parts(n, t[n]) \in Seq(AllParts)
  BY <1>1, PartsTypes
<1>. HIDE DEF C!Parts
<1>. QED BY <1>2 DEF LinesOf

LEMMA NothingTypes == C!Nothing \in AllParts /\ C!Nothing.line = 0
  BY DEF C!Nothing, C!Part, AllParts, C!Kinds

LEMMA ConsoleInit == C!Init => ConsoleInv
<1>. SUFFICES ASSUME C!Init PROVE ConsoleInv
  OBVIOUS
<1>1. ConsoleTypes
  BY NothingTypes DEF C!Init, ConsoleTypes
<1>2. LinesOf(typed) = <<>>
  BY DEF C!Init, LinesOf
<1>3. C!NothingLost
  BY <1>2, FlattenEmpty DEF C!Init, C!NothingLost, LinesOf, C!InHand
<1>. QED BY <1>1, <1>3 DEF ConsoleInv

LEMMA JoinAssoc == \A x, y, z \in Seq(AllParts) : Cat(Cat(x, y), z) = Cat(x, Cat(y, z))
  BY Associative

LEMMA JoinType == \A x, y \in Seq(AllParts) : Cat(x, y) \in Seq(AllParts)
  BY ConcatProperties DEF Cat

LEMMA JoinEmpty == <<>> \in Seq(AllParts) /\ \A x \in Seq(AllParts) : Cat(<<>>, x) = x /\ Cat(x, <<>>) = x
  BY ConcatEmptySeq DEF Cat

LEMMA Joined ==
  \A a, b, c, d \in Seq(AllParts) : Cat(Cat(Cat(a, b), c), d) = Cat(a, Cat(b, Cat(c, d)))
  BY JoinAssoc, JoinType

\* What was typed, as what has become of it.
Whole(s, h, b, t) == Cat(s, Cat(h, Cat(b, FlattenSeq(t))))

\* In the instance, FlattenSeq goes by another name.
LEMMA SameFlatten == \A s : C!FlattenSeq(s) = FlattenSeq(s)
  BY DEF C!FlattenSeq, FlattenSeq

LEMMA NothingLostIs ==
  ASSUME ConsoleTypes
  PROVE  /\ C!NothingLost <=> Whole(sent, C!InHand, stdin, tty) = FlattenSeq(LinesOf(typed))
         /\ C!InHand \in Seq(AllParts) /\ FlattenSeq(tty) \in Seq(AllParts)
<1>1. C!InHand \in Seq(AllParts)
  BY DEF C!InHand, ConsoleTypes
<1>2. FlattenSeq(tty) \in Seq(AllParts)
  BY FlattenType DEF ConsoleTypes
<1>3. ((sent \o C!InHand) \o stdin) \o FlattenSeq(tty) = Cat(sent, Cat(C!InHand, Cat(stdin, FlattenSeq(tty))))
  <2>1. sent \in Seq(AllParts) /\ stdin \in Seq(AllParts)
    BY DEF ConsoleTypes
  <2>2. ((sent \o C!InHand) \o stdin) \o FlattenSeq(tty) = Cat(Cat(Cat(sent, C!InHand), stdin), FlattenSeq(tty))
    BY DEF Cat
  <2>. QED BY <1>1, <1>2, <2>1, <2>2, Joined
<1>. QED BY <1>1, <1>2, <1>3, SameFlatten DEF C!NothingLost, Whole, LinesOf

LEMMA NothingLostNext ==
  ASSUME ConsoleTypes'
  PROVE  C!NothingLost' <=> Whole(sent', C!InHand', stdin', tty') = FlattenSeq(LinesOf(typed'))
<1>1. C!InHand' \in Seq(AllParts)
  BY DEF C!InHand, ConsoleTypes
<1>2. FlattenSeq(tty') \in Seq(AllParts)
  BY FlattenType DEF ConsoleTypes
<1>3. ((sent' \o C!InHand') \o stdin') \o FlattenSeq(tty') = Cat(sent', Cat(C!InHand', Cat(stdin', FlattenSeq(tty'))))
  <2>1. sent' \in Seq(AllParts) /\ stdin' \in Seq(AllParts)
    BY DEF ConsoleTypes
  <2>2. ((sent' \o C!InHand') \o stdin') \o FlattenSeq(tty') = Cat(Cat(Cat(sent', C!InHand'), stdin'), FlattenSeq(tty'))
    BY DEF Cat
  <2>. QED BY <1>1, <1>2, <2>1, <2>2, Joined
<1>. QED BY <1>1, <1>2, <1>3, SameFlatten DEF C!NothingLost, Whole, LinesOf

LEMMA TypesStep ==
  ASSUME ConsoleInv, C!Types
  PROVE  ConsoleInv'
<1>1. PICK k \in C!Kinds : typed' = Append(typed, k) /\ tty' = Append(tty, C!Parts(Len(typed'), k))
  BY DEF C!Types
<1>. DEFINE n == Len(typed) + 1
            e == C!Parts(n, k)
<1>2. Len(typed') = n /\ n \in Nat \ {0} /\ typed \in Seq(C!Kinds) /\ typed' \in Seq(C!Kinds)
  BY <1>1 DEF ConsoleInv, ConsoleTypes
<1>3. e \in Seq(AllParts) /\ Typed(e)
  BY <1>2, PartsTypes
<1>4. UNCHANGED <<stdin, spc, msg, sent>> /\ tty' = Append(tty, e)
  BY <1>1, <1>2 DEF C!Types, C!sender
<1>. HIDE DEF e
<1>5. tty' \in Seq(Seq(AllParts)) /\ \A j \in DOMAIN tty' : Typed(tty'[j])
  <2>1. tty \in Seq(Seq(AllParts)) /\ \A j \in DOMAIN tty : Typed(tty[j])
    BY DEF ConsoleInv, ConsoleTypes
  <2>2. /\ tty' \in Seq(Seq(AllParts)) /\ Len(tty') = Len(tty) + 1 /\ tty'[Len(tty) + 1] = e
        /\ \A j \in 1 .. Len(tty) : tty'[j] = tty[j]
    BY <1>3, <1>4, <2>1, AppendProperties
  <2>3. \A j \in DOMAIN tty' : j \in 1 .. Len(tty) \/ j = Len(tty) + 1
    BY <2>1, <2>2
  <2>4. DOMAIN tty = 1 .. Len(tty)
    BY <2>1
  <2>. QED BY <1>3, <2>1, <2>2, <2>3, <2>4
<1>6. ConsoleTypes'
  BY <1>2, <1>4, <1>5 DEF ConsoleInv, ConsoleTypes
<1>7. LinesOf(typed') = Append(LinesOf(typed), e)
  <2>1. /\ LinesOf(typed) \in Seq(Seq(AllParts)) /\ LinesOf(typed') \in Seq(Seq(AllParts))
        /\ Len(LinesOf(typed)) = Len(typed) /\ Len(LinesOf(typed')) = n
    BY <1>2, LinesTypes
  <2>2. DOMAIN typed = 1 .. Len(typed) /\ DOMAIN typed' = 1 .. n
    BY <1>2
  <2>3. typed'[n] = k /\ \A j \in 1 .. Len(typed) : typed'[j] = typed[j] /\ j \in 1 .. n
    BY <1>1, <1>2
  <2>4. LinesOf(typed')[n] = e
    BY <1>2, <2>2, <2>3 DEF LinesOf, e
  <2>5. \A j \in 1 .. Len(typed) : LinesOf(typed')[j] = LinesOf(typed)[j]
    BY <1>2, <2>2, <2>3 DEF LinesOf
  <2>. QED BY <1>2, <1>3, <2>1, <2>4, <2>5
<1>8. /\ FlattenSeq(LinesOf(typed')) = Cat(FlattenSeq(LinesOf(typed)), e)
      /\ FlattenSeq(tty') = Cat(FlattenSeq(tty), e)
  <2>1. LinesOf(typed) \in Seq(Seq(AllParts)) /\ tty \in Seq(Seq(AllParts))
    BY <1>2, LinesTypes DEF ConsoleInv, ConsoleTypes
  <2>. QED BY <1>3, <1>4, <1>7, <2>1, FlattenAppend DEF Cat
<1>9. C!NothingLost'
  <2>1. /\ sent \in Seq(AllParts) /\ stdin \in Seq(AllParts) /\ C!InHand \in Seq(AllParts)
        /\ FlattenSeq(tty) \in Seq(AllParts)
    BY NothingLostIs DEF ConsoleInv, ConsoleTypes
  <2>2. Whole(sent, C!InHand, stdin, tty) = FlattenSeq(LinesOf(typed))
    BY NothingLostIs DEF ConsoleInv
  <2>3. Whole(sent, C!InHand, stdin, tty') = Cat(FlattenSeq(LinesOf(typed)), e)
    <3>1. Cat(stdin, FlattenSeq(tty')) = Cat(Cat(stdin, FlattenSeq(tty)), e)
      BY <1>3, <1>8, <2>1, JoinAssoc, JoinType
    <3>2. Cat(stdin, FlattenSeq(tty)) \in Seq(AllParts)
      BY <2>1, JoinAssoc, JoinType
    <3>3. Cat(C!InHand, Cat(stdin, FlattenSeq(tty'))) = Cat(Cat(C!InHand, Cat(stdin, FlattenSeq(tty))), e)
      BY <1>3, <2>1, <3>1, <3>2, JoinAssoc, JoinType
    <3>4. Cat(C!InHand, Cat(stdin, FlattenSeq(tty))) \in Seq(AllParts)
      BY <2>1, <3>2, JoinAssoc, JoinType
    <3>5. Whole(sent, C!InHand, stdin, tty') = Cat(Whole(sent, C!InHand, stdin, tty), e)
      BY <1>3, <2>1, <3>3, <3>4, JoinAssoc, JoinType DEF Whole
    <3>. QED BY <2>2, <3>5
  <2>4. Whole(sent', C!InHand', stdin', tty') = FlattenSeq(LinesOf(typed'))
    BY <1>4, <1>8, <2>3 DEF C!InHand
  <2>. QED BY <1>6, <2>4, NothingLostNext
<1>. QED BY <1>6, <1>9 DEF ConsoleInv

\* What is typed stays, where send_msg takes it from one place to the next.
LEMMA TakenOn ==
  ASSUME ConsoleInv, ConsoleTypes', typed' = typed,
         Whole(sent', C!InHand', stdin', tty') = Whole(sent, C!InHand, stdin, tty)
  PROVE  ConsoleInv'
BY NothingLostIs, NothingLostNext DEF ConsoleInv

LEMMA FgetsStep ==
  ASSUME ConsoleInv, C!Fgets
  PROVE  ConsoleInv'
<1>1. /\ ConsoleTypes /\ spc = "fgets" /\ msg = C!Nothing /\ C!InHand = <<>>
      /\ msg' = Head(C!Input) /\ stdin' = Tail(C!Input)
      /\ tty' = IF stdin = <<>> /\ tty # <<>> THEN Tail(tty) ELSE tty
      /\ spc' \in {"done", "write"} /\ UNCHANGED <<typed, sent>>
  BY DEF C!Fgets, ConsoleInv, ConsoleTypes, C!InHand
<1>2. /\ stdin \in Seq(AllParts) /\ tty \in Seq(Seq(AllParts))
      /\ sent \in Seq(AllParts) /\ typed \in Seq(C!Kinds)
      /\ \A k \in DOMAIN stdin : stdin[k].line # 0
      /\ \A k \in DOMAIN tty : Typed(tty[k])
  BY <1>1 DEF ConsoleTypes
<1>3. FlattenSeq(tty) \in Seq(AllParts) /\ \A u \in Seq(AllParts) : Cat(<<>>, u) = u
  BY <1>2, FlattenType, JoinEmpty
\* Where Input has a part, it is one of a line.
<1>4. ASSUME NEW s \in Seq(AllParts), C!Input = s, Typed(s)
      PROVE  /\ msg' \in AllParts /\ msg' # C!Nothing /\ C!InHand' = <<msg'>>
             /\ stdin' \in Seq(AllParts) /\ \A k \in DOMAIN stdin' : stdin'[k].line # 0
             /\ Cat(C!InHand', stdin') = s /\ C!InHand' \in Seq(AllParts)
  <2>1. s # <<>> /\ \A k \in 1 .. Len(s) : s[k].line # 0
    BY <1>4 DEF Typed
  <2>2. /\ msg' = s[1] /\ stdin' = Tail(s) /\ 1 \in 1 .. Len(s) /\ Len(s) \in Nat
        /\ stdin' \in Seq(AllParts) /\ Len(stdin') = Len(s) - 1
        /\ \A k \in 1 .. Len(s) - 1 : stdin'[k] = s[k + 1] /\ k + 1 \in 1 .. Len(s)
    BY <1>1, <1>4, <2>1, HeadTailProperties
  <2>3. msg' \in AllParts /\ msg'.line # 0
    BY <2>1, <2>2
  <2>4. msg' # C!Nothing
    BY <2>3, NothingTypes
  <2>5. C!InHand' = <<msg'>>
    BY <2>4 DEF C!InHand
  <2>6. Cat(<<msg'>>, stdin') = s
    BY <2>1, <2>2 DEF Cat
  <2>. QED BY <2>1, <2>2, <2>3, <2>4, <2>5, <2>6
<1>5. CASE stdin # <<>>
  <2>1. C!Input = stdin /\ tty' = tty /\ Typed(stdin)
    BY <1>1, <1>2, <1>5 DEF C!Input, Typed
  <2>2. ConsoleTypes'
    BY <1>1, <1>2, <1>4, <2>1 DEF ConsoleTypes
  <2>3. Whole(sent', C!InHand', stdin', tty') = Whole(sent, C!InHand, stdin, tty)
    <3>1. Cat(C!InHand', Cat(stdin', FlattenSeq(tty))) = Cat(Cat(C!InHand', stdin'), FlattenSeq(tty))
      BY <1>2, <1>3, <1>4, <2>1, JoinAssoc, JoinType
    <3>2. Cat(stdin, FlattenSeq(tty)) \in Seq(AllParts)
      BY <1>2, <1>3, JoinAssoc, JoinType
    <3>. QED BY <1>1, <1>2, <1>3, <1>4, <2>1, <3>1, <3>2 DEF Whole
  <2>. QED BY <1>1, <2>2, <2>3, TakenOn
<1>6. CASE stdin = <<>> /\ tty # <<>>
  <2>1. C!Input = Head(tty) /\ tty' = Tail(tty)
    BY <1>1, <1>6 DEF C!Input
  <2>2. /\ Head(tty) = tty[1] /\ 1 \in DOMAIN tty /\ Head(tty) \in Seq(AllParts)
        /\ Tail(tty) \in Seq(Seq(AllParts)) /\ Len(tty) \in Nat /\ Len(Tail(tty)) = Len(tty) - 1
        /\ \A k \in 1 .. Len(tty) - 1 : Tail(tty)[k] = tty[k + 1] /\ k + 1 \in DOMAIN tty
    BY <1>2, <1>6, HeadTailProperties
  <2>3. Typed(Head(tty)) /\ \A k \in DOMAIN tty' : Typed(tty'[k])
    <3>1. \A k \in DOMAIN tty : Typed(tty[k])
      BY <1>2
    <3>2. Typed(Head(tty))
      BY <2>2, <3>1
    <3>3. DOMAIN tty' = 1 .. Len(tty) - 1
      BY <2>1, <2>2
    <3>4. \A k \in 1 .. Len(tty) - 1 : Typed(Tail(tty)[k])
      BY <2>2, <3>1
    <3>. QED BY <2>1, <3>2, <3>3, <3>4
  <2>4. ConsoleTypes'
    BY <1>1, <1>2, <1>4, <2>1, <2>2, <2>3 DEF ConsoleTypes
  <2>5. FlattenSeq(tty) = Cat(Head(tty), FlattenSeq(tty')) /\ FlattenSeq(tty') \in Seq(AllParts)
    BY <1>2, <1>6, <2>1, <2>2, FlattenHead, FlattenType DEF Cat
  <2>6. Whole(sent', C!InHand', stdin', tty') = Whole(sent, C!InHand, stdin, tty)
    <3>1. Cat(C!InHand', Cat(stdin', FlattenSeq(tty'))) = Cat(Cat(C!InHand', stdin'), FlattenSeq(tty'))
      BY <1>4, <2>1, <2>2, <2>3, <2>5, JoinAssoc, JoinType
    <3>2. Cat(C!InHand', Cat(stdin', FlattenSeq(tty'))) = FlattenSeq(tty)
      BY <1>4, <2>1, <2>2, <2>3, <2>5, <3>1
    <3>. QED BY <1>1, <1>3, <1>6, <3>2 DEF Whole
  <2>. QED BY <1>1, <2>4, <2>6, TakenOn
<1>7. CASE stdin = <<>> /\ tty = <<>>
  <2>1. C!Input = <<C!Nothing>> /\ tty' = tty
    BY <1>1, <1>7 DEF C!Input
  <2>2. msg' = C!Nothing /\ stdin' = <<>>
    BY <1>1, <2>1
  <2>3. C!InHand' = <<>>
    BY <2>2 DEF C!InHand
  <2>4. ConsoleTypes'
    BY <1>1, <1>2, <1>7, <2>1, <2>2, NothingTypes DEF ConsoleTypes
  <2>5. Whole(sent', C!InHand', stdin', tty') = Whole(sent, C!InHand, stdin, tty)
    BY <1>1, <1>7, <2>1, <2>2, <2>3
  <2>. QED BY <1>1, <2>4, <2>5, TakenOn
<1>. QED BY <1>5, <1>6, <1>7

LEMMA WriteStep ==
  ASSUME ConsoleInv, C!Write
  PROVE  ConsoleInv'
<1>1. ConsoleTypes /\ spc = "write" /\ UNCHANGED <<typed, tty, stdin>> /\ msg \in AllParts /\ sent \in Seq(AllParts)
  BY DEF C!Write, C!terminal, ConsoleInv, ConsoleTypes
<1>2. CASE sock
  <2>1. sent' = (IF msg = C!Nothing THEN sent ELSE Append(sent, msg)) /\ msg' = C!Nothing /\ spc' = "select"
    BY <1>2 DEF C!Write
  <2>2. C!InHand' = <<>> /\ sent' = Cat(sent, C!InHand) /\ sent' \in Seq(AllParts)
    <3>1. CASE msg = C!Nothing
      BY <1>1, <2>1, <3>1, JoinEmpty DEF C!InHand
    <3>2. CASE msg # C!Nothing
      BY <1>1, <2>1, <3>2, AppendIsConcat, AppendProperties DEF C!InHand, Cat
    <3>. QED BY <3>1, <3>2
  <2>3. ConsoleTypes'
    BY <1>1, <2>1, <2>2, NothingTypes DEF ConsoleTypes
  <2>4. Whole(sent', C!InHand', stdin', tty') = Whole(sent, C!InHand, stdin, tty)
    <3>. DEFINE rest == Cat(stdin, FlattenSeq(tty))
    <3>1. rest \in Seq(AllParts) /\ C!InHand \in Seq(AllParts)
      BY <1>1, NothingLostIs, JoinAssoc, JoinType DEF ConsoleTypes
    <3>2. Cat(Cat(sent, C!InHand), rest) = Cat(sent, Cat(C!InHand, rest))
      BY <1>1, <3>1, JoinAssoc, JoinType
    <3>3. Cat(<<>>, rest) = rest
      BY <3>1, JoinEmpty
    <3>4. Whole(sent', C!InHand', stdin', tty') = Cat(Cat(sent, C!InHand), Cat(<<>>, rest))
      BY <1>1, <2>2 DEF Whole
    <3>. HIDE DEF rest
    <3>. QED BY <3>2, <3>3, <3>4 DEF Whole, rest
  <2>. QED BY <1>1, <2>3, <2>4, TakenOn
<1>3. CASE ~ sock
  <2>1. UNCHANGED <<sent, msg>> /\ spc' = "done"
    BY <1>3 DEF C!Write
  <2>. QED BY <1>1, <2>1 DEF ConsoleInv, ConsoleTypes, C!NothingLost, C!InHand
<1>. QED BY <1>2, <1>3

LEMMA ConsoleStep == ConsoleInv /\ [C!Next]_C!vars => ConsoleInv'
<1>. SUFFICES ASSUME ConsoleInv, [C!Next]_C!vars PROVE ConsoleInv'
  OBVIOUS
<1>1. ASSUME UNCHANGED <<typed, tty, stdin, msg, sent>>,
             spc' = spc \/ (spc = "select" /\ spc' \in {"select", "fgets", "done"})
      PROVE  ConsoleInv'
  BY <1>1 DEF ConsoleInv, ConsoleTypes, C!NothingLost, C!InHand
<1>2. CASE UNCHANGED C!vars \/ C!HangsUp \/ C!ServerGoes \/ C!Select \/ C!RecvEnds \/ C!Join
  BY <1>1, <1>2 DEF C!vars, C!terminal, C!sender, C!HangsUp, C!ServerGoes, C!Select, C!RecvEnds, C!Join
<1>3. CASE C!Types \/ C!Fgets \/ C!Write
  BY <1>3, TypesStep, FgetsStep, WriteStep
<1>. QED BY <1>2, <1>3 DEF C!Next, C!SendMsg, C!vars

\* Every part of every line that fgets() splits is sent once and in order, or still to come.
THEOREM NothingTypedIsLost == C!Spec => []NothingLost
<1>1. C!Init => ConsoleInv
  BY ConsoleInit
<1>2. ConsoleInv /\ [C!Next]_C!vars => ConsoleInv'
  BY ConsoleStep
<1>3. ConsoleInv => NothingLost
  BY DEF ConsoleInv, NothingLost
<1>. QED BY <1>1, <1>2, <1>3, PTL DEF C!Spec

-----------------------------------------------------------------------------
(* Lcd: a call, as what is left of it to do. *)

Change == ({"rs", "rw", "e", "bl"} \X {0, 1}) \cup ({"data"} \X Nibble)

\* What a change leaves to do, before r.
Then(pin, v, r) == Cat(<<<<pin, v>>>>, r)

\* The three states of a nibble under way: before "e", with "e" up, and with the bits out.
Before(n, r) == Then("e", 1, Then("data", n, Then("e", 0, r)))
Raised(n, r) == Then("data", n, Then("e", 0, r))
Out(r)       == Then("e", 0, r)

Two(b, r)      == Before(b \div 16, Before(b % 16, r))
Block(v, b, r) == Then("rs", v, Then("rw", 0, Two(b, r)))

LEMMA ThenIs ==
  ASSUME NEW pin, NEW v, <<pin, v>> \in Change, NEW r \in Seq(Change)
  PROVE  /\ Then(pin, v, r) \in Seq(Change) /\ Then(pin, v, r) # <<>>
         /\ Head(Then(pin, v, r)) = <<pin, v>> /\ Tail(Then(pin, v, r)) = r
<1>. DEFINE c == <<pin, v>>
            s == <<c>> \o r
<1>1. <<c>> \in Seq(Change) /\ Len(<<c>>) = 1
  OBVIOUS
<1>2. /\ s \in Seq(Change) /\ Len(s) = 1 + Len(r)
      /\ \A k \in 1 .. 1 + Len(r) : s[k] = IF k <= 1 THEN <<c>>[k] ELSE r[k - 1]
  <2>. HIDE DEF c
  <2>. QED BY <1>1, ConcatProperties
<1>. HIDE DEF s, c
<1>3. s # <<>> /\ Head(s) = s[1] /\ s[1] = c
  BY <1>2
<1>4. Tail(s) \in Seq(Change) /\ Len(Tail(s)) = Len(r) /\ \A k \in 1 .. Len(r) : Tail(s)[k] = s[k + 1]
  BY <1>2, <1>3
<1>5. \A k \in 1 .. Len(r) : Tail(s)[k] = r[k]
  <2>1. \A k \in 1 .. Len(r) : k + 1 \in 1 .. 1 + Len(r) /\ ~ (k + 1 <= 1) /\ (k + 1) - 1 = k
    OBVIOUS
  <2>. QED BY <1>2, <1>4, <2>1
<1>6. Tail(s) = r
  BY <1>4, <1>5
<1>. QED BY <1>2, <1>3, <1>6 DEF Then, Cat, s, c

LEMMA Changes ==
  /\ \A v \in {0, 1} : \A p \in {"rs", "rw", "e", "bl"} : <<p, v>> \in Change
  /\ \A n \in Nibble : <<"data", n>> \in Change
  BY DEF Change

LEMMA BeforeType ==
  ASSUME NEW n \in Nibble, NEW r \in Seq(Change)
  PROVE  Before(n, r) \in Seq(Change) /\ Raised(n, r) \in Seq(Change) /\ Out(r) \in Seq(Change)
  BY Changes, ThenIs DEF Before, Raised, Out

\* The driver's calls are made of such steps.
LEMMA Singles ==
  ASSUME NEW c \in Change, NEW d \in Change
  PROVE  <<c>> \in Seq(Change) /\ <<c, d>> = <<c>> \o <<d>>
<1>1. <<c>> \in Seq(Change) /\ <<d>> \in Seq(Change) /\ <<c, d>> \in Seq(Change)
  OBVIOUS
<1>. DEFINE s == <<c>> \o <<d>>
<1>2. /\ s \in Seq(Change) /\ Len(s) = 2
      /\ \A k \in 1 .. 2 : s[k] = IF k <= 1 THEN <<c>>[k] ELSE <<d>>[k - 1]
  <2>1. /\ s \in Seq(Change) /\ Len(s) = Len(<<c>>) + Len(<<d>>)
        /\ \A k \in 1 .. Len(<<c>>) + Len(<<d>>) : s[k] = IF k <= Len(<<c>>) THEN <<c>>[k] ELSE <<d>>[k - Len(<<c>>)]
    BY <1>1, ConcatProperties
  <2>. QED BY <2>1
<1>. HIDE DEF s
<1>3. s[1] = c /\ s[2] = d
  BY <1>2
<1>4. s = <<c, d>>
  BY <1>2, <1>3
<1>. QED BY <1>1, <1>4 DEF s

LEMMA SendData ==
  ASSUME NEW n \in Nibble, NEW r \in Seq(Change)
  PROVE  LCD_sendData(n) \in Seq(Change) /\ Cat(LCD_sendData(n), r) = Before(n, r)
<1>. DEFINE x == <<"e", 1>>
            y == <<"data", n>>
            z == <<"e", 0>>
<1>1. x \in Change /\ y \in Change /\ z \in Change
  BY Changes
<1>. HIDE DEF x, y, z
<1>2. <<x>> \in Seq(Change) /\ <<y>> \in Seq(Change) /\ <<z>> \in Seq(Change) /\ <<x, y, z>> \in Seq(Change)
  BY <1>1
<1>3. Cat(<<x>>, Cat(<<y>>, <<z>>)) = <<x, y, z>>
  <2>. DEFINE a == Cat(<<y>>, <<z>>)
              s == Cat(<<x>>, a)
  <2>1. a = <<y, z>> /\ a \in Seq(Change) /\ Len(a) = 2 /\ a[1] = y /\ a[2] = z
    <3>1. <<y, z>> \in Seq(Change) /\ Len(<<y, z>>) = 2 /\ <<y, z>>[1] = y /\ <<y, z>>[2] = z
      BY <1>1
    <3>2. a = <<y, z>>
      BY <1>1, Singles DEF Cat
    <3>. HIDE DEF a
    <3>. QED BY <3>1, <3>2
  <2>. HIDE DEF a
  <2>2. /\ s \in Seq(Change) /\ Len(s) = 3
        /\ \A k \in 1 .. 3 : s[k] = IF k <= 1 THEN <<x>>[k] ELSE a[k - 1]
    <3>1. /\ s \in Seq(Change) /\ Len(s) = Len(<<x>>) + Len(a)
          /\ \A k \in 1 .. Len(<<x>>) + Len(a) : s[k] = IF k <= Len(<<x>>) THEN <<x>>[k] ELSE a[k - Len(<<x>>)]
      BY <1>2, <2>1, ConcatProperties DEF Cat
    <3>2. Len(<<x>>) = 1 /\ 1 + 2 = 3
      OBVIOUS
    <3>. HIDE DEF s
    <3>. QED BY <2>1, <3>1, <3>2
  <2>. HIDE DEF s
  <2>3. s[1] = x /\ s[2] = y /\ s[3] = z
    BY <2>1, <2>2
  <2>4. s = <<x, y, z>>
    BY <2>2, <2>3
  <2>. QED BY <2>4 DEF s, a
<1>4. \A a, b, c \in Seq(Change) : Cat(Cat(a, b), c) = Cat(a, Cat(b, c))
  BY Associative
<1>5. Cat(<<y>>, <<z>>) \in Seq(Change)
  BY <1>2, ConcatProperties DEF Cat
<1>6. Cat(<<x, y, z>>, r) = Cat(<<x>>, Cat(<<y>>, Cat(<<z>>, r)))
  <2>. DEFINE a == <<x>>
              b == <<y>>
              c == <<z>>
  <2>1. a \in Seq(Change) /\ b \in Seq(Change) /\ c \in Seq(Change) /\ Cat(b, c) \in Seq(Change)
    BY <1>2, <1>5
  <2>. HIDE DEF a, b, c
  <2>2. Cat(Cat(a, Cat(b, c)), r) = Cat(a, Cat(Cat(b, c), r))
    BY <1>4, <2>1
  <2>3. Cat(Cat(b, c), r) = Cat(b, Cat(c, r))
    BY <1>4, <2>1
  <2>. QED BY <1>3, <2>2, <2>3 DEF a, b, c
<1>. QED BY <1>2, <1>6 DEF LCD_sendData, Before, Then, x, y, z

\* Cat of what is written with \o.
LEMMA CatTypes == \A a, b \in Seq(Change) : Cat(a, b) \in Seq(Change)
  BY ConcatProperties DEF Cat

LEMMA CatThen == \A a, b, c \in Seq(Change) : Cat(Cat(a, b), c) = Cat(a, Cat(b, c))
  BY Associative

LEMMA SendByte ==
  ASSUME NEW b \in 0 .. 255, NEW r \in Seq(Change)
  PROVE  /\ LCD_sendByte(b) \in Seq(Change) /\ Cat(LCD_sendByte(b), r) = Two(b, r)
         /\ Two(b, r) \in Seq(Change)
<1>1. b \div 16 \in Nibble /\ b % 16 \in Nibble
  BY DEF Nibble
<1>. DEFINE x == LCD_sendData(b \div 16)
            y == LCD_sendData(b % 16)
<1>2. x \in Seq(Change) /\ y \in Seq(Change) /\ Cat(y, r) = Before(b % 16, r) /\ Before(b % 16, r) \in Seq(Change)
  BY <1>1, SendData, BeforeType
<1>3. Cat(x, Before(b % 16, r)) = Two(b, r) /\ Two(b, r) \in Seq(Change)
  BY <1>1, <1>2, SendData, BeforeType DEF Two
<1>4. LCD_sendByte(b) = Cat(x, y)
  BY DEF LCD_sendByte, Cat
<1>. HIDE DEF x, y
<1>5. Cat(Cat(x, y), r) = Cat(x, Cat(y, r)) /\ Cat(x, y) \in Seq(Change)
  BY <1>2, CatThen, CatTypes
<1>. QED BY <1>2, <1>3, <1>4, <1>5

\* A byte with the two changes before it.
LEMMA Blocks ==
  ASSUME NEW b \in 0 .. 255, NEW r \in Seq(Change)
  PROVE  /\ LCD_writeCmdData(b) \in Seq(Change) /\ LCD_writeCharData(b) \in Seq(Change)
         /\ Cat(LCD_writeCmdData(b), r) = Block(0, b, r)
         /\ Cat(LCD_writeCharData(b), r) = Block(1, b, r)
<1>. DEFINE y == LCD_sendByte(b)
            w == <<<<"rw", 0>>>>
            Rs(v) == <<<<"rs", v>>>>
<1>1. y \in Seq(Change) /\ Cat(y, r) = Two(b, r)
  BY SendByte
<1>2. w \in Seq(Change) /\ \A v \in {0, 1} : Rs(v) \in Seq(Change)
  BY Changes
<1>3. /\ LCD_writeCmdData(b) = Cat(Cat(Rs(0), w), y)
      /\ LCD_writeCharData(b) = Cat(Cat(Rs(1), w), y)
  BY DEF LCD_writeCmdData, LCD_writeCharData, LCD_cmdMode, LCD_charMode, LCD_writeMode, Cat
<1>. HIDE DEF y, w, Rs
<1>4. \A v \in {0, 1} : /\ Cat(Cat(Rs(v), w), y) \in Seq(Change)
                        /\ Cat(Cat(Cat(Rs(v), w), y), r) = Cat(Rs(v), Cat(w, Cat(y, r)))
  <2>. SUFFICES ASSUME NEW v \in {0, 1}
                PROVE  /\ Cat(Cat(Rs(v), w), y) \in Seq(Change)
                       /\ Cat(Cat(Cat(Rs(v), w), y), r) = Cat(Rs(v), Cat(w, Cat(y, r)))
    OBVIOUS
  <2>. DEFINE x == Rs(v)
  <2>1. x \in Seq(Change)
    BY <1>2
  <2>. HIDE DEF x
  <2>2. Cat(x, w) \in Seq(Change) /\ Cat(y, r) \in Seq(Change) /\ Cat(w, y) \in Seq(Change)
    BY <1>1, <1>2, <2>1, CatTypes
  <2>3. Cat(Cat(x, w), y) \in Seq(Change)
    BY <1>1, <2>2, CatTypes
  <2>4. Cat(Cat(Cat(x, w), y), r) = Cat(Cat(x, w), Cat(y, r))
    BY <1>1, <2>2, CatThen
  <2>5. Cat(Cat(x, w), Cat(y, r)) = Cat(x, Cat(w, Cat(y, r)))
    BY <1>2, <2>1, <2>2, CatThen
  <2>. QED BY <2>3, <2>4, <2>5 DEF x
<1>. QED BY <1>1, <1>3, <1>4 DEF Block, Then, Rs, w

\* What is left of LCD_init after so many nibbles.
R14 == Then("bl", 1, <<>>)
R12 == Two(12, R14)
R10 == Two(6, R12)
R8  == Two(1, R10)
R6  == Two(8, R8)
R4  == Two(40, R6)
R3  == Before(2, R4)
R2  == Before(3, R3)
R1  == Before(3, R2)
R0  == Before(3, R1)

LEMMA Rests ==
  /\ R14 \in Seq(Change) /\ R12 \in Seq(Change) /\ R10 \in Seq(Change) /\ R8 \in Seq(Change) /\ R6 \in Seq(Change)
  /\ R4 \in Seq(Change) /\ R3 \in Seq(Change) /\ R2 \in Seq(Change) /\ R1 \in Seq(Change) /\ R0 \in Seq(Change)
<1>1. R14 \in Seq(Change)
  <2>1. <<>> \in Seq(Change) /\ <<"bl", 1>> \in Change
    BY Changes
  <2>. QED BY <2>1, ThenIs DEF R14
<1>2. R12 \in Seq(Change)
  BY <1>1, SendByte DEF R12
<1>3. R10 \in Seq(Change)
  BY <1>2, SendByte DEF R10
<1>4. R8 \in Seq(Change)
  BY <1>3, SendByte DEF R8
<1>5. R6 \in Seq(Change)
  BY <1>4, SendByte DEF R6
<1>6. R4 \in Seq(Change)
  BY <1>5, SendByte DEF R4
<1>0. 2 \in Nibble /\ 3 \in Nibble
  BY DEF Nibble
<1>7. R3 \in Seq(Change)
  BY <1>0, <1>6, BeforeType DEF R3
<1>8. R2 \in Seq(Change)
  BY <1>0, <1>7, BeforeType DEF R2
<1>9. R1 \in Seq(Change)
  BY <1>0, <1>8, BeforeType DEF R1
<1>10. R0 \in Seq(Change)
  BY <1>0, <1>9, BeforeType DEF R0
<1>. QED BY <1>1, <1>2, <1>3, <1>4, <1>5, <1>6, <1>7, <1>8, <1>9, <1>10

LEMMA ByteAfter ==
  ASSUME NEW p \in Seq(Change), NEW b \in 0 .. 255, NEW r \in Seq(Change)
  PROVE  Cat(Cat(p, LCD_sendByte(b)), r) = Cat(p, Two(b, r)) /\ Cat(p, LCD_sendByte(b)) \in Seq(Change)
<1>. DEFINE y == LCD_sendByte(b)
<1>1. y \in Seq(Change) /\ Cat(y, r) = Two(b, r)
  BY SendByte
<1>. HIDE DEF y
<1>. QED BY <1>1, CatThen, CatTypes DEF y

LEMMA InitIs == LCD_init = Then("rs", 0, Then("rw", 0, R0))
<1>. DEFINE cm == LCD_cmdMode
            wm == LCD_writeMode
            d3 == LCD_sendData(3)
            d2 == LCD_sendData(2)
            bl == LCD_backLightOn
            P1 == Cat(cm, wm)
            P2 == Cat(P1, Cat(Cat(d3, d3), d3))
            P3 == Cat(P2, d2)
            P4 == Cat(P3, LCD_sendByte(40))
            P5 == Cat(P4, LCD_sendByte(8))
            P6 == Cat(P5, LCD_sendByte(1))
            P7 == Cat(P6, LCD_sendByte(6))
            P8 == Cat(P7, LCD_sendByte(12))
<1>1. LCD_init = Cat(P8, bl)
  BY DEF LCD_init, Wake, Cat
<1>2. bl = R14
  <2>1. <<<<"bl", 1>>>> \in Seq(Change)
    BY Changes
  <2>. QED BY <2>1, ConcatEmptySeq DEF R14, Then, Cat, LCD_backLightOn
<1>4. \A r \in Seq(Change) : Cat(d3, r) = Before(3, r) /\ Cat(d2, r) = Before(2, r)
  BY SendData DEF Nibble
<1>5. d3 \in Seq(Change) /\ d2 \in Seq(Change)
  <2>1. 2 \in Nibble /\ 3 \in Nibble /\ R0 \in Seq(Change)
    BY Rests DEF Nibble
  <2>. QED BY <2>1, SendData
<1>6. cm \in Seq(Change) /\ wm \in Seq(Change)
  BY Changes DEF LCD_cmdMode, LCD_writeMode
<1>7. \A r \in Seq(Change) : Cat(cm, r) = Then("rs", 0, r) /\ Cat(wm, r) = Then("rw", 0, r)
  BY DEF LCD_cmdMode, LCD_writeMode, Then
<1>. HIDE DEF cm, wm, d3, d2, bl
<1>9. P1 \in Seq(Change) /\ P2 \in Seq(Change) /\ P3 \in Seq(Change) /\ Cat(d3, d3) \in Seq(Change)
  BY <1>5, <1>6, CatTypes
<1>. HIDE DEF P1, P2, P3
<1>15. Cat(P4, R6) = Cat(P3, R4) /\ P4 \in Seq(Change)
  BY <1>9, Rests, ByteAfter DEF R4
<1>. HIDE DEF P4
<1>14. Cat(P5, R8) = Cat(P4, R6) /\ P5 \in Seq(Change)
  BY <1>15, Rests, ByteAfter DEF R6
<1>. HIDE DEF P5
<1>13. Cat(P6, R10) = Cat(P5, R8) /\ P6 \in Seq(Change)
  BY <1>14, Rests, ByteAfter DEF R8
<1>. HIDE DEF P6
<1>12. Cat(P7, R12) = Cat(P6, R10) /\ P7 \in Seq(Change)
  BY <1>13, Rests, ByteAfter DEF R10
<1>. HIDE DEF P7
<1>11. Cat(P8, R14) = Cat(P7, R12)
  BY <1>12, Rests, ByteAfter DEF R12
<1>. HIDE DEF P8
<1>16. Cat(P3, R4) = Cat(P2, R3)
  <2>1. P3 = Cat(P2, d2) /\ Cat(d2, R4) = R3
    BY <1>4, Rests DEF R3, P3
  <2>2. Cat(Cat(P2, d2), R4) = Cat(P2, Cat(d2, R4))
    BY <1>5, <1>9, Rests, CatThen
  <2>. QED BY <2>1, <2>2
<1>17. Cat(P2, R3) = Cat(P1, R0)
  <2>. DEFINE w == Cat(Cat(d3, d3), d3)
  <2>1. w \in Seq(Change)
    BY <1>5, <1>9, CatTypes
  <2>2. Cat(w, R3) = R0
    <3>1. Cat(w, R3) = Cat(Cat(d3, d3), Cat(d3, R3))
      <4>. DEFINE x == Cat(d3, d3)
      <4>1. x \in Seq(Change) /\ w = Cat(x, d3) /\ R3 \in Seq(Change)
        BY <1>9, Rests
      <4>. HIDE DEF x, w
      <4>2. Cat(Cat(x, d3), R3) = Cat(x, Cat(d3, R3))
        BY <1>5, <4>1, CatThen
      <4>. QED BY <4>1, <4>2 DEF x
    <3>2. Cat(d3, R3) = R2 /\ Cat(d3, R2) = R1 /\ Cat(d3, R1) = R0
      BY <1>4, Rests DEF R2, R1, R0
    <3>3. Cat(Cat(d3, d3), R2) = Cat(d3, Cat(d3, R2))
      BY <1>5, Rests, CatThen
    <3>. QED BY <3>1, <3>2, <3>3
  <2>3. P2 = Cat(P1, w)
    BY DEF P2
  <2>. HIDE DEF w
  <2>. QED BY <1>9, <2>1, <2>2, <2>3, Rests, CatThen
<1>18. Cat(P1, R0) = Then("rs", 0, Then("rw", 0, R0))
  <2>1. Cat(P1, R0) = Cat(cm, Cat(wm, R0))
    BY <1>6, Rests, CatThen DEF P1
  <2>2. Cat(wm, R0) = Then("rw", 0, R0) /\ Cat(wm, R0) \in Seq(Change)
    BY <1>6, <1>7, Rests, CatTypes
  <2>. QED BY <1>7, <2>1, <2>2
<1>. QED BY <1>1, <1>2, <1>11, <1>12, <1>13, <1>14, <1>15, <1>16, <1>17, <1>18

\* A text's characters, one after the other.
W(u) == LCD_writeString(u)

LEMMA StringIs ==
  ASSUME NEW u \in Seq(0 .. 255)
  PROVE  /\ W(u) \in Seq(Change)
         /\ u = <<>> => W(u) = <<>>
         /\ u # <<>> => W(u) = Block(1, Head(u), W(Tail(u))) /\ Head(u) \in 0 .. 255 /\ Tail(u) \in Seq(0 .. 255)
<1>. DEFINE F(s) == [k \in DOMAIN s |-> LCD_writeCharData(s[k])]
<1>1. \A s \in Seq(0 .. 255) : F(s) \in Seq(Seq(Change)) /\ Len(F(s)) = Len(s)
  <2>. SUFFICES ASSUME NEW s \in Seq(0 .. 255) PROVE F(s) \in Seq(Seq(Change)) /\ Len(F(s)) = Len(s)
    OBVIOUS
  <2>. DEFINE T == 0 .. 255
  <2>1. \A k \in 1 .. Len(s) : s[k] \in 0 .. 255
    <3>1. s \in Seq(T)
      OBVIOUS
    <3>. HIDE DEF T
    <3>2. \A k \in 1 .. Len(s) : s[k] \in T
      BY <3>1
    <3>. QED BY <3>2 DEF T
  <2>2. \A k \in 1 .. Len(s) : LCD_writeCharData(s[k]) \in Seq(Change)
    BY <2>1, Rests, Blocks
  <2>3. F(s) = [k \in 1 .. Len(s) |-> LCD_writeCharData(s[k])] /\ Len(s) \in Nat
    OBVIOUS
  <2>. DEFINE g == F(s)
  <2>4. \A k \in 1 .. Len(s) : g[k] \in Seq(Change)
    BY <2>2, <2>3
  <2>5. DOMAIN g = 1 .. Len(s) /\ g = [k \in 1 .. Len(s) |-> g[k]]
    BY <2>3
  <2>. HIDE DEF g
  <2>6. g \in Seq(Seq(Change)) /\ Len(g) = Len(s)
    BY <2>3, <2>4, <2>5
  <2>. QED BY <2>6 DEF g
<1>2. \A s \in Seq(0 .. 255) : W(s) \in Seq(Change)
  <2>1. \A s : W(s) = FlattenSeq(F(s))
    BY DEF W, LCD_writeString
  <2>. HIDE DEF F
  <2>. QED BY <1>1, <2>1, FlattenType
<1>3. u = <<>> => W(u) = <<>>
  <2>. SUFFICES ASSUME u = <<>> PROVE W(u) = <<>>
    OBVIOUS
  <2>1. F(u) = <<>>
    OBVIOUS
  <2>. QED BY <2>1, FlattenEmpty DEF W, LCD_writeString
<1>4. ASSUME u # <<>>
      PROVE  W(u) = Block(1, Head(u), W(Tail(u))) /\ Head(u) \in 0 .. 255 /\ Tail(u) \in Seq(0 .. 255)
  <2>1. Head(u) \in 0 .. 255 /\ Tail(u) \in Seq(0 .. 255) /\ Len(u) > 0 /\ Head(u) = u[1]
        /\ Len(Tail(u)) = Len(u) - 1 /\ \A k \in 1 .. Len(u) - 1 : Tail(u)[k] = u[k + 1]
    BY <1>4, HeadTailProperties
  <2>2. F(u) \in Seq(Seq(Change)) /\ F(u) # <<>> /\ Head(F(u)) = LCD_writeCharData(Head(u))
    <3>1. F(u) \in Seq(Seq(Change)) /\ Len(F(u)) = Len(u)
      BY <1>1
    <3>2. 1 \in DOMAIN u /\ F(u)[1] = LCD_writeCharData(u[1])
      BY <2>1
    <3>. HIDE DEF F
    <3>3. F(u) # <<>> /\ Head(F(u)) = F(u)[1]
      BY <2>1, <3>1
    <3>. QED BY <2>1, <3>1, <3>2, <3>3
  <2>3. Tail(F(u)) = F(Tail(u))
    <3>1. /\ Tail(F(u)) \in Seq(Seq(Change)) /\ Len(Tail(F(u))) = Len(u) - 1
          /\ \A k \in 1 .. Len(u) - 1 : Tail(F(u))[k] = F(u)[k + 1]
      <4>. HIDE DEF F
      <4>. QED BY <1>1, <2>1, <2>2, HeadTailProperties
    <3>2. \A k \in 1 .. Len(u) - 1 : k + 1 \in 1 .. Len(u) /\ k + 1 \in DOMAIN u
      OBVIOUS
    <3>3. \A k \in 1 .. Len(u) - 1 : F(u)[k + 1] = LCD_writeCharData(u[k + 1])
      BY <3>2
    <3>4. \A k \in 1 .. Len(u) - 1 : F(Tail(u))[k] = LCD_writeCharData(Tail(u)[k])
      BY <2>1
    <3>5. F(Tail(u)) \in Seq(Seq(Change)) /\ Len(F(Tail(u))) = Len(u) - 1
      BY <1>1, <2>1
    <3>. HIDE DEF F
    <3>6. \A k \in 1 .. Len(u) - 1 : Tail(F(u))[k] = F(Tail(u))[k]
      BY <2>1, <3>1, <3>3, <3>4
    <3>. DEFINE s == Tail(F(u))
                t == F(Tail(u))
                m == Len(u) - 1
    <3>7. s \in Seq(Seq(Change)) /\ t \in Seq(Seq(Change)) /\ Len(s) = m /\ Len(t) = m /\ \A k \in 1 .. m : s[k] = t[k]
      BY <3>1, <3>5, <3>6
    <3>. HIDE DEF s, t, m
    <3>8. s = t
      BY <3>7
    <3>. QED BY <3>8 DEF s, t
  <2>4. W(u) = Cat(LCD_writeCharData(Head(u)), W(Tail(u)))
    <3>1. W(u) = FlattenSeq(F(u)) /\ W(Tail(u)) = FlattenSeq(F(Tail(u)))
      BY DEF W, LCD_writeString
    <3>. HIDE DEF F
    <3>2. FlattenSeq(F(u)) = Head(F(u)) \o FlattenSeq(Tail(F(u)))
      BY <2>2, FlattenHead
    <3>. QED BY <2>2, <2>3, <3>1, <3>2 DEF Cat
  <2>. QED BY <1>2, <2>1, <2>4, Blocks
<1>. QED BY <1>2, <1>3, <1>4

\* The display's memory with b at an address, and with a text from an address on.
Put(m, p, b)  == IF p \in Cells THEN [m EXCEPT ![p] = b] ELSE m
Over(m, p, s) == [a \in Cells |-> LET k == a - p + 1 IN IF k \in DOMAIN s THEN s[k] ELSE m[a]]

Memory == [Cells -> 0 .. 255]

LEMMA CellsAreNat == Cells \subseteq Nat
  BY LcdAssumption DEF Cells

LEMMA OverEmpty ==
  ASSUME NEW m \in Memory, NEW p \in Nat
  PROVE  Over(m, p, <<>>) = m
<1>1. \A k : k \notin DOMAIN <<>>
  OBVIOUS
<1>. QED BY <1>1 DEF Over, Memory

LEMMA OverType ==
  ASSUME NEW m \in Memory, NEW p \in Nat, NEW s \in Seq(0 .. 255), NEW b \in 0 .. 255
  PROVE  Over(m, p, s) \in Memory /\ Put(m, p, b) \in Memory
<1>1. \A k \in DOMAIN s : s[k] \in 0 .. 255
  <2>. DEFINE T == 0 .. 255
  <2>1. s \in Seq(T)
    OBVIOUS
  <2>. HIDE DEF T
  <2>2. \A k \in DOMAIN s : s[k] \in T
    BY <2>1
  <2>. QED BY <2>2 DEF T
<1>2. \A a \in Cells : Over(m, p, s)[a] \in 0 .. 255
  BY <1>1 DEF Over, Memory
<1>. QED BY <1>2 DEF Over, Put, Memory

LEMMA OverHead ==
  ASSUME NEW m \in Memory, NEW p \in Nat, NEW s \in Seq(0 .. 255), s # <<>>
  PROVE  Over(m, p, s) = Over(Put(m, p, Head(s)), p + 1, Tail(s))
<1>1. /\ Head(s) \in 0 .. 255 /\ Len(s) \in Nat /\ Len(s) > 0 /\ Head(s) = s[1] /\ Tail(s) \in Seq(0 .. 255)
      /\ DOMAIN s = 1 .. Len(s) /\ DOMAIN Tail(s) = 1 .. Len(s) - 1
      /\ \A k \in 1 .. Len(s) - 1 : Tail(s)[k] = s[k + 1]
  BY HeadTailProperties
<1>. DEFINE n == Put(m, p, Head(s))
<1>2. n \in Memory /\ \A a \in Cells : n[a] = IF a = p THEN s[1] ELSE m[a]
  BY <1>1 DEF Put, Memory
<1>. HIDE DEF n
<1>3. ASSUME NEW a \in Cells
      PROVE  Over(m, p, s)[a] = Over(n, p + 1, Tail(s))[a]
  <2>1. a \in Nat
    BY CellsAreNat
  <2>2. Over(m, p, s)[a] = IF a - p + 1 \in 1 .. Len(s) THEN s[a - p + 1] ELSE m[a]
    BY <1>1 DEF Over
  <2>3. Over(n, p + 1, Tail(s))[a] = IF a - p \in 1 .. Len(s) - 1 THEN Tail(s)[a - p] ELSE n[a]
    <3>1. a - (p + 1) + 1 = a - p
      BY <2>1
    <3>. QED BY <1>1, <3>1 DEF Over
  <2>4. CASE a = p
    <3>1. a - p + 1 = 1 /\ a - p = 0
      BY <2>1, <2>4
    <3>. QED BY <1>1, <1>2, <2>2, <2>3, <2>4, <3>1
  <2>5. CASE a # p /\ a - p \in 1 .. Len(s) - 1
    <3>1. a - p + 1 \in 1 .. Len(s)
      BY <1>1, <2>1, <2>5
    <3>. QED BY <1>1, <2>2, <2>3, <2>5, <3>1
  <2>6. CASE a # p /\ a - p \notin 1 .. Len(s) - 1
    <3>1. a - p + 1 \notin 1 .. Len(s)
      BY <1>1, <2>1, <2>6
    <3>. QED BY <1>2, <2>2, <2>3, <2>6, <3>1
  <2>. QED BY <2>4, <2>5, <2>6
<1>4. Over(m, p, s) = Over(n, p + 1, Tail(s))
  <2>. DEFINE f == Over(m, p, s)
              g == Over(n, p + 1, Tail(s))
  <2>1. f = [a \in Cells |-> f[a]] /\ g = [a \in Cells |-> g[a]]
    BY DEF Over
  <2>2. \A a \in Cells : f[a] = g[a]
    BY <1>3
  <2>. HIDE DEF f, g
  <2>3. f = g
    BY <2>1, <2>2
  <2>. QED BY <2>3 DEF f, g
<1>. QED BY <1>4 DEF n

\* Types.

LcdTypes == TypeOK /\ todo \in Seq(Change)

LEMMA TakesType ==
  ASSUME TypeOK, NEW rs \in {0, 1}, NEW b \in 0 .. 255, Takes(rs, b)
  PROVE  ddram' \in Memory /\ ac' \in 0 .. 127 /\ bits' \in {4, 8}
<1>1. CASE rs = 1
  <2>1. ddram' = Put(ddram, ac, b) /\ ac' = (ac + 1) % 128 /\ bits' = bits
    BY <1>1 DEF Takes, Put
  <2>2. Put(ddram, ac, b) \in Memory
    BY DEF TypeOK, Memory, Put
  <2>3. (ac + 1) % 128 \in 0 .. 127 /\ bits \in {4, 8}
    BY DEF TypeOK
  <2>. QED BY <2>1, <2>2, <2>3
<1>2. CASE rs = 0 /\ b >= 128
  BY <1>2 DEF Takes, TypeOK, Memory
<1>3. CASE rs = 0 /\ b \in 32 .. 63
  BY <1>3 DEF Takes, TypeOK, Memory
<1>4. CASE rs = 0 /\ b = 1
  BY <1>4 DEF Takes, TypeOK, Memory, Blank
<1>5. CASE rs = 0 /\ ~ (b >= 128) /\ b \notin 32 .. 63 /\ b # 1
  BY <1>5 DEF Takes, TypeOK, Memory
<1>. QED BY <1>1, <1>2, <1>3, <1>4, <1>5

LEMMA LatchesType ==
  ASSUME TypeOK, NEW rs \in {0, 1}, NEW n \in Nibble, Latches(rs, n)
  PROVE  ddram' \in Memory /\ ac' \in 0 .. 127 /\ bits' \in {4, 8} /\ half' \in Nibble \cup {NoHalf}
<1>1. CASE bits = 8
  <2>1. Takes(rs, 16 * n) /\ half' = NoHalf /\ 16 * n \in 0 .. 255
    BY <1>1 DEF Latches, Nibble
  <2>. DEFINE b == 16 * n
  <2>2. Takes(rs, b) /\ b \in 0 .. 255
    BY <2>1
  <2>. HIDE DEF b
  <2>3. ddram' \in Memory /\ ac' \in 0 .. 127 /\ bits' \in {4, 8}
    BY <2>2, TakesType
  <2>. QED BY <2>1, <2>3
<1>2. CASE bits # 8 /\ half = NoHalf
  BY <1>2 DEF Latches, TypeOK, Memory
<1>3. CASE bits # 8 /\ half # NoHalf
  <2>1. Takes(rs, 16 * half + n) /\ half' = NoHalf /\ half \in Nibble
    BY <1>3 DEF Latches, TypeOK
  <2>2. 16 * half + n \in 0 .. 255
    BY <2>1 DEF Nibble
  <2>. QED BY <2>1, <2>2, TakesType
<1>. QED BY <1>1, <1>2, <1>3

LEMMA ChangedType ==
  ASSUME lcdData \in Pins, todo \in Seq(Change), todo # <<>>
  PROVE  Changed \in Pins /\ Tail(todo) \in Seq(Change)
<1>1. Head(todo) \in Change /\ Tail(todo) \in Seq(Change)
  BY HeadTailProperties
<1>. QED BY <1>1 DEF Changed, Pins, Change

LEMMA SendTypes == LcdTypes /\ SendsToInterface => LcdTypes'
<1>. SUFFICES ASSUME LcdTypes, SendsToInterface PROVE LcdTypes'
  OBVIOUS
<1>1. lcdData' \in Pins /\ todo' \in Seq(Change)
  BY ChangedType DEF LcdTypes, TypeOK, SendsToInterface
<1>2. text' \in Memory /\ ready' \in BOOLEAN /\ clean' \in BOOLEAN
  BY DEF LcdTypes, TypeOK, SendsToInterface, Memory
<1>3. CASE UNCHANGED <<port, display>>
  BY <1>1, <1>2, <1>3 DEF LcdTypes, TypeOK, display, Memory
<1>4. CASE Drives(lcdData')
  <2>1. port' \in Pins
    BY <1>1, <1>4 DEF Drives
  <2>2. CASE UNCHANGED display
    BY <1>1, <1>2, <2>1, <2>2 DEF LcdTypes, TypeOK, display, Memory
  <2>3. CASE \E q \in {port, lcdData'} : Latches(q.rs, q.data)
    <3>1. PICK q \in {port, lcdData'} : Latches(q.rs, q.data)
      BY <2>3
    <3>2. q.rs \in {0, 1} /\ q.data \in Nibble
      BY <1>1 DEF Pins, LcdTypes, TypeOK
    <3>3. ddram' \in Memory /\ ac' \in 0 .. 127 /\ bits' \in {4, 8} /\ half' \in Nibble \cup {NoHalf}
      BY <3>1, <3>2, LatchesType DEF LcdTypes
    <3>. QED BY <1>1, <1>2, <2>1, <3>3 DEF LcdTypes, TypeOK, Memory
  <2>. QED BY <1>4, <2>2, <2>3 DEF Drives
<1>. QED BY <1>3, <1>4 DEF SendsToInterface

\* LCD_writeStringXY, as a block and what follows it, and what it makes of the text.
LEMMA WriteIs ==
  ASSUME NEW r \in Rows, NEW c \in Cols, NEW s \in Texts
  PROVE  LET p == 64 * (r % 2) + (c % 16)
         IN  /\ p \in 0 .. 79 /\ p + Len(s) <= 127 /\ s \in Seq(0 .. 255) /\ 128 + p \in 0 .. 255
             /\ LCD_writeStringXY(r, c, s) = Block(0, 128 + p, W(s))
             /\ LCD_writeStringXY(r, c, s) \in Seq(Change)
             /\ [a \in Cells |-> LET k == a - (64 * (r % 2) + (c % 16)) + 1
                                 IN  IF k \in DOMAIN s THEN s[k] ELSE text[a]] = Over(text, p, s)
<1>. DEFINE p == 64 * (r % 2) + (c % 16)
<1>1. r \in Nat /\ c \in Nat /\ s \in Seq(0 .. 255) /\ (c % 16) + Len(s) <= 40 /\ Len(s) \in Nat
  BY LcdAssumption
<1>2. p \in 0 .. 79 /\ p + Len(s) <= 127
  <2>1. r % 2 \in 0 .. 1 /\ c % 16 \in 0 .. 15
    BY <1>1
  <2>. DEFINE x == r % 2
              y == c % 16
  <2>2. x \in 0 .. 1 /\ y \in 0 .. 15 /\ y + Len(s) <= 40 /\ p = 64 * x + y
    BY <1>1, <2>1
  <2>. HIDE DEF x, y, p
  <2>. QED BY <1>1, <2>2
<1>3. LCD_gotoXY(r, c) = LCD_writeCmdData(128 + p)
  <2>1. 128 + 64 * (r % 2) + (c % 16) = 128 + p
    BY <1>1
  <2>. QED BY <2>1 DEF LCD_gotoXY
<1>4. [a \in Cells |-> LET k == a - (64 * (r % 2) + (c % 16)) + 1
                       IN  IF k \in DOMAIN s THEN s[k] ELSE text[a]] = Over(text, p, s)
  BY DEF Over
<1>. HIDE DEF p
<1>5. LCD_writeStringXY(r, c, s) = Cat(LCD_writeCmdData(128 + p), W(s))
  BY <1>3 DEF LCD_writeStringXY, W, Cat
<1>6. 128 + p \in 0 .. 255
  BY <1>2
<1>7. W(s) \in Seq(Change)
  BY <1>1, StringIs
<1>8. LCD_writeCmdData(128 + p) \in Seq(Change) /\ Cat(LCD_writeCmdData(128 + p), W(s)) = Block(0, 128 + p, W(s))
  BY <1>6, <1>7, Blocks
<1>9. Cat(LCD_writeCmdData(128 + p), W(s)) \in Seq(Change)
  BY <1>7, <1>8, CatTypes
<1>. QED BY <1>1, <1>2, <1>4, <1>5, <1>6, <1>8, <1>9 DEF p

Mid(n, r) ==
    \/ todo = Before(n, r) /\ lcdData.e = 0
    \/ todo = Raised(n, r) /\ lcdData.e = 1
    \/ todo = Out(r) /\ lcdData.e = 1 /\ lcdData.data = n

\* A byte on its way to a display that takes it in halves.
Byte(b, r) ==
    \/ Mid(b \div 16, Before(b % 16, r)) /\ half = NoHalf
    \/ Mid(b % 16, r) /\ half = b \div 16

EightBits == bits = 8 /\ half = NoHalf

Starting ==
    \/ todo = LCD_init /\ lcdData = Zero
    \/ todo = Then("rw", 0, R0) /\ lcdData = Zero /\ port = lcdData

\* After one 3 the display may have eight bits, or four with or without a half; after
\* the second it is not left without one, after the third it has eight.
Waking ==
    /\ port = lcdData /\ lcdData.rs = 0
    /\ \/ Mid(3, R1)
       \/ Mid(3, R2) /\ (EightBits \/ (bits = 4 /\ half \in {3, NoHalf}))
       \/ Mid(3, R3) /\ (EightBits \/ (bits = 4 /\ half = 3))
       \/ Mid(2, R4) /\ EightBits

Setting ==
    /\ port = lcdData /\ lcdData.rs = 0 /\ bits = 4
    /\ \/ Byte(40, R6) \/ Byte(8, R8) \/ Byte(1, R10)
       \/ /\ ddram = Blank
          /\ \/ Byte(6, R12) \/ Byte(12, R14)
             \/ todo = R14 /\ half = NoHalf /\ lcdData.e = 0

\* The byte b is being sent, as a command or as a character, and u is to follow.
At(v, b, u) ==
    \/ /\ half = NoHalf /\ lcdData.e = 0
       /\ todo = Block(v, b, W(u)) \/ (todo = Then("rw", 0, Two(b, W(u))) /\ lcdData.rs = v)
    \/ Byte(b, W(u)) /\ lcdData.rs = v

\* What is written to the display by then makes it show the text.
Owes(v, b, u) ==
    \/ v = 0 /\ b >= 128 /\ b - 128 + Len(u) <= 127 /\ text = Over(ddram, b - 128, u)
    \/ v = 1 /\ ac + 1 + Len(u) <= 127 /\ text = Over(Put(ddram, ac, b), ac + 1, u)

Shows == todo = <<>> /\ half = NoHalf /\ lcdData.e = 0 /\ ddram = text

Working ==
    /\ port = lcdData /\ lcdData.bl = 1 /\ bits = 4
    /\ Shows \/ \E v \in {0, 1}, b \in 0 .. 255, u \in Seq(0 .. 255) : At(v, b, u) /\ Owes(v, b, u)

InStep == (text = Blank /\ (Starting \/ Waking \/ Setting)) \/ Working

LcdInv ==
    /\ LcdTypes
    /\ ~ ready => lcdData = Zero /\ todo = <<>>
    /\ ready /\ clean => InStep

Sends == LcdTypes /\ port = lcdData /\ SendsToInterface /\ clean'

\* One change, taken by the expander.
LEMMA Sending ==
  ASSUME Sends, NEW pin, NEW v, <<pin, v>> \in Change, NEW r \in Seq(Change), todo = Then(pin, v, r)
  PROVE  /\ todo' = r /\ lcdData' = [lcdData EXCEPT ![pin] = v] /\ port' = lcdData' /\ text' = text
         /\ pin # "e" \/ v = 1 \/ lcdData.e = 0 => UNCHANGED display
         /\ pin = "e" /\ v = 0 /\ lcdData.e = 1 => Latches(lcdData.rs, lcdData.data)
<1>1. todo # <<>> /\ Head(todo) = <<pin, v>> /\ Tail(todo) = r
  BY ThenIs
<1>2. Changed = [lcdData EXCEPT ![pin] = v]
  <2>1. Head(todo)[1] = pin /\ Head(todo)[2] = v
    BY <1>1
  <2>. QED BY <2>1 DEF Changed
<1>3. todo' = r /\ lcdData' = [lcdData EXCEPT ![pin] = v] /\ text' = text /\ Drives(lcdData')
  BY <1>1, <1>2 DEF Sends, SendsToInterface
<1>4. port' = lcdData'
  BY <1>3 DEF Drives
<1>5. lcdData \in Pins
  BY DEF Sends, LcdTypes, TypeOK
<1>6. ASSUME pin # "e" \/ v = 1 \/ lcdData.e = 0
      PROVE  UNCHANGED display
  <2>1. ~ (lcdData.e = 1 /\ lcdData'.e = 0)
    BY <1>3, <1>5, <1>6 DEF Pins
  <2>. QED BY <1>3, <2>1 DEF Drives, Sends
<1>7. ASSUME pin = "e", v = 0, lcdData.e = 1
      PROVE  Latches(lcdData.rs, lcdData.data)
  <2>1. lcdData'.e = 0 /\ lcdData'.rs = lcdData.rs /\ lcdData'.data = lcdData.data
    BY <1>3, <1>5, <1>7 DEF Pins
  <2>2. \E q \in {lcdData, lcdData'} : Latches(q.rs, q.data)
    BY <1>3, <1>7, <2>1 DEF Drives, Sends
  <2>3. PICK q \in {lcdData, lcdData'} : Latches(q.rs, q.data)
    BY <2>2
  <2>4. q.rs = lcdData.rs /\ q.data = lcdData.data
    BY <2>1
  <2>. QED BY <2>3, <2>4
<1>. QED BY <1>3, <1>4, <1>6, <1>7

LEMMA NibbleSent ==
  ASSUME Sends, NEW n \in Nibble, NEW r \in Seq(Change), Mid(n, r)
  PROVE  /\ port' = lcdData' /\ text' = text /\ lcdData'.rs = lcdData.rs /\ lcdData'.bl = lcdData.bl
         /\ \/ Mid(n, r)' /\ UNCHANGED display
            \/ todo' = r /\ lcdData'.e = 0 /\ Latches(lcdData.rs, n)
<1>1. lcdData \in Pins
  BY DEF Sends, LcdTypes, TypeOK
<1>2. /\ <<"e", 1>> \in Change /\ <<"e", 0>> \in Change /\ <<"data", n>> \in Change
      /\ Out(r) \in Seq(Change) /\ Raised(n, r) \in Seq(Change)
      /\ Before(n, r) = Then("e", 1, Raised(n, r)) /\ Raised(n, r) = Then("data", n, Out(r))
  BY Changes, BeforeType DEF Before, Raised, Out
<1>3. CASE todo = Before(n, r) /\ lcdData.e = 0
  <2>1. /\ todo' = Raised(n, r) /\ lcdData' = [lcdData EXCEPT !["e"] = 1] /\ port' = lcdData' /\ text' = text
        /\ UNCHANGED display
    BY <1>2, <1>3, Sending
  <2>2. lcdData'.e = 1 /\ lcdData'.rs = lcdData.rs /\ lcdData'.bl = lcdData.bl
    BY <1>1, <2>1 DEF Pins
  <2>. QED BY <2>1, <2>2 DEF Mid
<1>4. CASE todo = Raised(n, r) /\ lcdData.e = 1
  <2>1. /\ todo' = Out(r) /\ lcdData' = [lcdData EXCEPT !["data"] = n] /\ port' = lcdData' /\ text' = text
        /\ UNCHANGED display
    BY <1>2, <1>4, Sending
  <2>2. lcdData'.e = 1 /\ lcdData'.data = n /\ lcdData'.rs = lcdData.rs /\ lcdData'.bl = lcdData.bl
    BY <1>1, <1>4, <2>1 DEF Pins
  <2>. QED BY <2>1, <2>2 DEF Mid
<1>5. CASE todo = Out(r) /\ lcdData.e = 1 /\ lcdData.data = n
  <2>1. /\ todo' = r /\ lcdData' = [lcdData EXCEPT !["e"] = 0] /\ port' = lcdData' /\ text' = text
        /\ Latches(lcdData.rs, lcdData.data)
    BY <1>2, <1>5, Sending DEF Out
  <2>2. lcdData'.e = 0 /\ lcdData'.rs = lcdData.rs /\ lcdData'.bl = lcdData.bl
    BY <1>1, <2>1 DEF Pins
  <2>. QED BY <1>5, <2>1, <2>2
<1>. QED BY <1>3, <1>4, <1>5 DEF Mid

LEMMA ByteSent ==
  ASSUME Sends, bits = 4, NEW b \in 0 .. 255, NEW r \in Seq(Change), Byte(b, r)
  PROVE  /\ port' = lcdData' /\ text' = text /\ lcdData'.rs = lcdData.rs /\ lcdData'.bl = lcdData.bl
         /\ \/ Byte(b, r)' /\ UNCHANGED <<bits, ddram, ac>>
            \/ todo' = r /\ lcdData'.e = 0 /\ half' = NoHalf /\ Takes(lcdData.rs, b)
<1>1. b \div 16 \in Nibble /\ b % 16 \in Nibble /\ 16 * (b \div 16) + (b % 16) = b
  <2>1. b \div 16 \in 0 .. 15 /\ b % 16 \in 0 .. 15
    OBVIOUS
  <2>2. 16 * (b \div 16) + (b % 16) = b
    OBVIOUS
  <2>. QED BY <2>1, <2>2 DEF Nibble
<1>2. Before(b % 16, r) \in Seq(Change)
  BY <1>1, BeforeType
<1>. DEFINE h == b \div 16
            l == b % 16
            s == Before(l, r)
<1>3. h \in Nibble /\ l \in Nibble /\ 16 * h + l = b /\ s \in Seq(Change) /\ h # NoHalf
  BY <1>1, <1>2 DEF Nibble, NoHalf
<1>4. Byte(b, r) <=> ((Mid(h, s) /\ half = NoHalf) \/ (Mid(l, r) /\ half = h))
  BY DEF Byte
<1>5. Byte(b, r)' <=> ((Mid(h, s)' /\ half' = NoHalf) \/ (Mid(l, r)' /\ half' = h))
  BY DEF Byte
<1>6. s = Before(l, r)
  OBVIOUS
<1>. HIDE DEF h, l, s
<1>7. CASE Mid(h, s) /\ half = NoHalf
  <2>1. /\ port' = lcdData' /\ text' = text /\ lcdData'.rs = lcdData.rs /\ lcdData'.bl = lcdData.bl
        /\ \/ Mid(h, s)' /\ UNCHANGED display
           \/ todo' = s /\ lcdData'.e = 0 /\ Latches(lcdData.rs, h)
    BY <1>3, <1>7, NibbleSent
  <2>2. CASE Mid(h, s)' /\ UNCHANGED display
    BY <1>5, <1>7, <2>1, <2>2 DEF display
  <2>3. CASE todo' = s /\ lcdData'.e = 0 /\ Latches(lcdData.rs, h)
    <3>1. half' = h /\ UNCHANGED <<bits, ddram, ac>>
      BY <1>7, <2>3 DEF Latches
    <3>2. Mid(l, r)'
      BY <1>6, <2>3 DEF Mid
    <3>. QED BY <1>5, <2>1, <3>1, <3>2
  <2>. QED BY <2>1, <2>2, <2>3
<1>8. CASE Mid(l, r) /\ half = h
  <2>1. /\ port' = lcdData' /\ text' = text /\ lcdData'.rs = lcdData.rs /\ lcdData'.bl = lcdData.bl
        /\ \/ Mid(l, r)' /\ UNCHANGED display
           \/ todo' = r /\ lcdData'.e = 0 /\ Latches(lcdData.rs, l)
    BY <1>3, <1>8, NibbleSent
  <2>2. CASE Mid(l, r)' /\ UNCHANGED display
    BY <1>5, <1>8, <2>1, <2>2 DEF display
  <2>3. CASE todo' = r /\ lcdData'.e = 0 /\ Latches(lcdData.rs, l)
    <3>1. half' = NoHalf /\ Takes(lcdData.rs, b)
      BY <1>3, <1>8, <2>3 DEF Latches
    <3>. QED BY <2>1, <2>3, <3>1
  <2>. QED BY <2>1, <2>2, <2>3
<1>. QED BY <1>4, <1>7, <1>8

\* What the display makes of LCD_init's commands.
LEMMA Commands ==
  /\ Takes(0, 48) \/ Takes(0, 51) => bits' = 8
  /\ Takes(0, 32) \/ Takes(0, 40) => bits' = 4
  /\ Takes(0, 1) => ddram' = Blank /\ bits' = bits
  /\ Takes(0, 8) \/ Takes(0, 6) \/ Takes(0, 12) => UNCHANGED <<bits, ddram>>
<1>1. Takes(0, 48) \/ Takes(0, 51) => bits' = 8
  BY DEF Takes
<1>2. Takes(0, 32) \/ Takes(0, 40) => bits' = 4
  BY DEF Takes
<1>3. Takes(0, 1) => ddram' = Blank /\ bits' = bits
  BY DEF Takes
<1>4. Takes(0, 8) \/ Takes(0, 6) \/ Takes(0, 12) => UNCHANGED <<bits, ddram>>
  BY DEF Takes
<1>. QED BY <1>1, <1>2, <1>3, <1>4

\* The next nibble, or byte, begins.
LEMMA Begins ==
  /\ \A n, r : todo' = Before(n, r) /\ lcdData'.e = 0 => Mid(n, r)'
  /\ \A b, r : todo' = Two(b, r) /\ lcdData'.e = 0 /\ half' = NoHalf => Byte(b, r)'
<1>1. \A n, r : todo' = Before(n, r) /\ lcdData'.e = 0 => Mid(n, r)'
  BY DEF Mid
<1>2. ASSUME NEW b, NEW r, todo' = Two(b, r), lcdData'.e = 0, half' = NoHalf
      PROVE  Byte(b, r)'
  <2>1. Mid(b \div 16, Before(b % 16, r))'
    BY <1>1, <1>2 DEF Two
  <2>. QED BY <1>2, <2>1 DEF Byte
<1>. QED BY <1>1, <1>2

\* LCD_init begins while the expander's pins may be anything.
LEMMA Starts ==
  ASSUME LcdTypes, SendsToInterface, clean', Starting
  PROVE  text' = text /\ (Starting' \/ Waking')
<1>1. /\ <<"rs", 0>> \in Change /\ <<"rw", 0>> \in Change /\ R0 \in Seq(Change)
      /\ Then("rw", 0, R0) \in Seq(Change)
  BY Changes, Rests, ThenIs
<1>2. CASE todo = LCD_init /\ lcdData = Zero
  <2>1. todo # <<>> /\ Head(todo) = <<"rs", 0>> /\ Tail(todo) = Then("rw", 0, R0)
    BY <1>1, <1>2, InitIs, ThenIs
  <2>2. Head(todo)[1] = "rs" /\ Head(todo)[2] = 0
    BY <2>1
  <2>3. Changed = Zero
    BY <1>2, <2>2 DEF Changed, Zero
  <2>. QED BY <2>1, <2>3 DEF SendsToInterface, Drives, Starting
<1>3. CASE todo = Then("rw", 0, R0) /\ lcdData = Zero /\ port = lcdData
  <2>1. todo' = R0 /\ lcdData' = [lcdData EXCEPT !["rw"] = 0] /\ port' = lcdData' /\ text' = text
    BY <1>1, <1>3, Sending DEF Sends
  <2>2. lcdData' = Zero
    BY <1>3, <2>1 DEF Zero
  <2>3. lcdData'.e = 0 /\ lcdData'.rs = 0
    BY <2>2 DEF Zero
  <2>4. Mid(3, R1)'
    BY <2>1, <2>3, Begins DEF R0
  <2>. QED BY <2>1, <2>3, <2>4 DEF Waking
<1>. QED BY <1>2, <1>3 DEF Starting

LEMMA Wakes ==
  ASSUME Sends, Waking
  PROVE  text' = text /\ (Waking' \/ Setting')
<1>. DEFINE Sent(n, r) == /\ port' = lcdData' /\ text' = text /\ lcdData'.rs = 0
                          /\ \/ Mid(n, r)' /\ UNCHANGED <<bits, half>>
                             \/ todo' = r /\ lcdData'.e = 0 /\ Latches(0, n)
<1>1. ASSUME NEW n \in Nibble, NEW r \in Seq(Change), Mid(n, r)
      PROVE  Sent(n, r)
  BY <1>1, NibbleSent DEF Waking, display
<1>2. R1 \in Seq(Change) /\ R2 \in Seq(Change) /\ R3 \in Seq(Change) /\ R4 \in Seq(Change) /\ 3 \in Nibble /\ 2 \in Nibble
  BY Rests DEF Nibble
<1>3. bits \in {4, 8} /\ half \in Nibble \cup {NoHalf} /\ NoHalf # 3
  BY DEF Sends, LcdTypes, TypeOK, NoHalf
<1>4. CASE Mid(3, R1)
  <2>1. Sent(3, R1)
    BY <1>1, <1>2, <1>4
  <2>2. CASE Mid(3, R1)'
    BY <2>1, <2>2 DEF Waking
  <2>3. CASE todo' = R1 /\ lcdData'.e = 0 /\ Latches(0, 3)
    <3>1. Mid(3, R2)'
      BY <2>3, Begins DEF R1
    <3>2. (bits' = 8 /\ half' = NoHalf) \/ (bits' = 4 /\ half' \in {3, NoHalf})
      <4>1. CASE bits = 8
        BY <2>3, <4>1, Commands DEF Latches
      <4>2. CASE bits = 4 /\ half = NoHalf
        BY <2>3, <4>2 DEF Latches
      <4>3. CASE bits = 4 /\ half # NoHalf
        <5>1. half' = NoHalf
          BY <2>3, <4>3 DEF Latches
        <5>2. bits' \in {4, 8}
          BY <1>2, <2>3, LatchesType DEF Sends, LcdTypes
        <5>. QED BY <5>1, <5>2
      <4>. QED BY <1>3, <4>1, <4>2, <4>3
    <3>. QED BY <2>1, <3>1, <3>2 DEF Waking, EightBits
  <2>. QED BY <2>1, <2>2, <2>3
<1>5. CASE Mid(3, R2) /\ (EightBits \/ (bits = 4 /\ half \in {3, NoHalf}))
  <2>1. Sent(3, R2)
    BY <1>1, <1>2, <1>5
  <2>2. CASE Mid(3, R2)' /\ UNCHANGED <<bits, half>>
    BY <1>5, <2>1, <2>2 DEF Waking, EightBits
  <2>3. CASE todo' = R2 /\ lcdData'.e = 0 /\ Latches(0, 3)
    <3>1. Mid(3, R3)'
      BY <2>3, Begins DEF R2
    <3>2. (bits' = 8 /\ half' = NoHalf) \/ (bits' = 4 /\ half' = 3)
      <4>1. CASE bits = 8
        BY <2>3, <4>1, Commands DEF Latches
      <4>2. CASE bits = 4 /\ half = NoHalf
        BY <2>3, <4>2 DEF Latches
      <4>3. CASE bits = 4 /\ half = 3
        BY <1>3, <2>3, <4>3, Commands DEF Latches
      <4>. QED BY <1>5, <4>1, <4>2, <4>3 DEF EightBits
    <3>. QED BY <2>1, <3>1, <3>2 DEF Waking, EightBits
  <2>. QED BY <2>1, <2>2, <2>3
<1>6. CASE Mid(3, R3) /\ (EightBits \/ (bits = 4 /\ half = 3))
  <2>1. Sent(3, R3)
    BY <1>1, <1>2, <1>6
  <2>2. CASE Mid(3, R3)' /\ UNCHANGED <<bits, half>>
    BY <1>6, <2>1, <2>2 DEF Waking, EightBits
  <2>3. CASE todo' = R3 /\ lcdData'.e = 0 /\ Latches(0, 3)
    <3>1. Mid(2, R4)'
      BY <2>3, Begins DEF R3
    <3>2. bits' = 8 /\ half' = NoHalf
      <4>1. CASE bits = 8
        BY <2>3, <4>1, Commands DEF Latches
      <4>2. CASE bits = 4 /\ half = 3
        BY <1>3, <2>3, <4>2, Commands DEF Latches
      <4>. QED BY <1>6, <4>1, <4>2 DEF EightBits
    <3>. QED BY <2>1, <3>1, <3>2 DEF Waking, EightBits
  <2>. QED BY <2>1, <2>2, <2>3
<1>7. CASE Mid(2, R4) /\ EightBits
  <2>1. Sent(2, R4)
    BY <1>1, <1>2, <1>7
  <2>2. CASE Mid(2, R4)' /\ UNCHANGED <<bits, half>>
    BY <1>7, <2>1, <2>2 DEF Waking, EightBits
  <2>3. CASE todo' = R4 /\ lcdData'.e = 0 /\ Latches(0, 2)
    <3>1. bits' = 4 /\ half' = NoHalf
      BY <1>7, <2>3, Commands DEF Latches, EightBits
    <3>2. Byte(40, R6)'
      BY <2>3, <3>1, Begins DEF R4
    <3>. QED BY <2>1, <3>1, <3>2 DEF Setting
  <2>. QED BY <2>1, <2>2, <2>3
<1>. QED BY <1>4, <1>5, <1>6, <1>7 DEF Waking

LEMMA Sets ==
  ASSUME Sends, Setting, text = Blank
  PROVE  (text' = Blank /\ Setting') \/ Working'
<1>. DEFINE Sent(b, r) == /\ port' = lcdData' /\ text' = text /\ lcdData'.rs = 0
                          /\ \/ Byte(b, r)' /\ UNCHANGED <<bits, ddram>>
                             \/ todo' = r /\ lcdData'.e = 0 /\ half' = NoHalf /\ Takes(0, b)
<1>1. ASSUME NEW b \in 0 .. 255, NEW r \in Seq(Change), Byte(b, r)
      PROVE  Sent(b, r)
  <2>1. bits = 4 /\ lcdData.rs = 0
    BY DEF Setting
  <2>2. /\ port' = lcdData' /\ text' = text /\ lcdData'.rs = lcdData.rs
        /\ \/ Byte(b, r)' /\ UNCHANGED <<bits, ddram, ac>>
           \/ todo' = r /\ lcdData'.e = 0 /\ half' = NoHalf /\ Takes(lcdData.rs, b)
    BY <1>1, <2>1, ByteSent
  <2>. QED BY <2>1, <2>2
<1>2. /\ R6 \in Seq(Change) /\ R8 \in Seq(Change) /\ R10 \in Seq(Change) /\ R12 \in Seq(Change)
      /\ R14 \in Seq(Change) /\ <<>> \in Seq(Change) /\ <<"bl", 1>> \in Change
  BY Rests, Changes
<1>3. CASE Byte(40, R6)
  <2>1. Sent(40, R6)
    BY <1>1, <1>2, <1>3
  <2>2. CASE Byte(40, R6)' /\ UNCHANGED <<bits, ddram>>
    BY <2>1, <2>2 DEF Setting
  <2>3. CASE todo' = R6 /\ lcdData'.e = 0 /\ half' = NoHalf /\ Takes(0, 40)
    BY <2>1, <2>3, Begins, Commands DEF R6, Setting
  <2>. QED BY <2>1, <2>2, <2>3
<1>4. CASE Byte(8, R8)
  <2>1. Sent(8, R8)
    BY <1>1, <1>2, <1>4
  <2>2. CASE Byte(8, R8)' /\ UNCHANGED <<bits, ddram>>
    BY <2>1, <2>2 DEF Setting
  <2>3. CASE todo' = R8 /\ lcdData'.e = 0 /\ half' = NoHalf /\ Takes(0, 8)
    BY <2>1, <2>3, Begins, Commands DEF R8, Setting
  <2>. QED BY <2>1, <2>2, <2>3
<1>5. CASE Byte(1, R10)
  <2>1. Sent(1, R10)
    BY <1>1, <1>2, <1>5
  <2>2. CASE Byte(1, R10)' /\ UNCHANGED <<bits, ddram>>
    BY <2>1, <2>2 DEF Setting
  <2>3. CASE todo' = R10 /\ lcdData'.e = 0 /\ half' = NoHalf /\ Takes(0, 1)
    BY <2>1, <2>3, Begins, Commands DEF R10, Setting
  <2>. QED BY <2>1, <2>2, <2>3
<1>6. CASE ddram = Blank /\ Byte(6, R12)
  <2>1. Sent(6, R12)
    BY <1>1, <1>2, <1>6
  <2>2. CASE Byte(6, R12)' /\ UNCHANGED <<bits, ddram>>
    BY <1>6, <2>1, <2>2 DEF Setting
  <2>3. CASE todo' = R12 /\ lcdData'.e = 0 /\ half' = NoHalf /\ Takes(0, 6)
    BY <1>6, <2>1, <2>3, Begins, Commands DEF R12, Setting
  <2>. QED BY <2>1, <2>2, <2>3
<1>7. CASE ddram = Blank /\ Byte(12, R14)
  <2>1. Sent(12, R14)
    BY <1>1, <1>2, <1>7
  <2>2. CASE Byte(12, R14)' /\ UNCHANGED <<bits, ddram>>
    BY <1>7, <2>1, <2>2 DEF Setting
  <2>3. CASE todo' = R14 /\ lcdData'.e = 0 /\ half' = NoHalf /\ Takes(0, 12)
    BY <1>7, <2>1, <2>3, Commands DEF Setting
  <2>. QED BY <2>1, <2>2, <2>3
<1>8. CASE ddram = Blank /\ todo = R14 /\ half = NoHalf /\ lcdData.e = 0
  <2>1. /\ todo' = <<>> /\ lcdData' = [lcdData EXCEPT !["bl"] = 1] /\ port' = lcdData' /\ text' = text
        /\ UNCHANGED display
    BY <1>2, <1>8, Sending DEF R14
  <2>2. lcdData'.bl = 1 /\ lcdData'.e = 0
    BY <1>8, <2>1 DEF Sends, LcdTypes, TypeOK, Pins
  <2>. QED BY <1>8, <2>1, <2>2 DEF Working, Shows, display, Setting
<1>. QED BY <1>3, <1>4, <1>5, <1>6, <1>7, <1>8 DEF Setting

\* What follows a byte: the rest of the text, or nothing.
LEMMA Follows ==
  ASSUME LcdTypes, NEW u \in Seq(0 .. 255), port' = lcdData', lcdData'.bl = 1, lcdData'.e = 0, bits' = 4,
         half' = NoHalf, todo' = W(u), ddram' \in Memory, ac' \in Nat, ac' + Len(u) <= 127,
         text' = Over(ddram', ac', u)
  PROVE  Working'
<1>1. CASE u = <<>>
  <2>1. todo' = <<>>
    BY <1>1, StringIs
  <2>2. Over(ddram', ac', <<>>) = ddram'
    BY OverEmpty
  <2>. QED BY <1>1, <2>1, <2>2 DEF Working, Shows
<1>2. CASE u # <<>>
  <2>. DEFINE b == Head(u)
              t == Tail(u)
  <2>1. /\ b \in 0 .. 255 /\ t \in Seq(0 .. 255) /\ Len(u) = Len(t) + 1 /\ Len(t) \in Nat
        /\ W(u) = Block(1, b, W(t))
    BY <1>2, StringIs, HeadTailProperties
  <2>2. Over(ddram', ac', u) = Over(Put(ddram', ac', b), ac' + 1, t)
    BY <1>2, OverHead
  <2>. HIDE DEF b, t
  <2>3. At(1, b, t)'
    BY <2>1 DEF At
  <2>4. Owes(1, b, t)'
    <3>1. ac' + 1 + Len(t) <= 127
      BY <2>1
    <3>2. text' = Over(Put(ddram, ac, b), ac + 1, t)'
      BY <2>2 DEF Over, Put
    <3>. QED BY <3>1, <3>2 DEF Owes
  <2>5. b \in 0 .. 255 /\ t \in Seq(0 .. 255)
    BY <2>1
  <2>. QED BY <2>3, <2>4, <2>5, ZenonT(30) DEF Working
<1>. QED BY <1>1, <1>2

LEMMA Addresses ==
  ASSUME NEW v, v = 0, NEW b \in 0 .. 255, b >= 128, Takes(v, b)
  PROVE  ac' = b - 128 /\ UNCHANGED <<ddram, bits>>
  BY DEF Takes

LEMMA Below128 == \A m \in 0 .. 127 : m % 128 = m
  OBVIOUS

LEMMA Works ==
  ASSUME Sends, Working
  PROVE  Working'
<1>0. todo # <<>> /\ lcdData \in Pins /\ ac \in 0 .. 127 /\ ddram \in Memory
  BY DEF Sends, SendsToInterface, LcdTypes, TypeOK, Memory
<1>1. PICK v \in {0, 1}, b \in 0 .. 255, u \in Seq(0 .. 255) : At(v, b, u) /\ Owes(v, b, u)
  BY <1>0 DEF Working, Shows
<1>2. /\ W(u) \in Seq(Change) /\ Two(b, W(u)) \in Seq(Change) /\ Then("rw", 0, Two(b, W(u))) \in Seq(Change)
      /\ <<"rs", v>> \in Change /\ <<"rw", 0>> \in Change
  BY StringIs, SendByte, Changes, ThenIs
<1>3. lcdData.bl = 1 /\ bits = 4
  BY DEF Working
<1>4. ASSUME UNCHANGED <<ddram, ac, text>>
      PROVE  Owes(v, b, u)'
  BY <1>1, <1>4 DEF Owes, Over, Put
<1>5. ASSUME At(v, b, u)', UNCHANGED <<bits, ddram, ac, text>>, port' = lcdData', lcdData'.bl = 1
      PROVE  Working'
  BY <1>3, <1>4, <1>5 DEF Working
<1>6. CASE half = NoHalf /\ lcdData.e = 0 /\ todo = Block(v, b, W(u))
  <2>1. /\ todo' = Then("rw", 0, Two(b, W(u))) /\ lcdData' = [lcdData EXCEPT !["rs"] = v] /\ port' = lcdData'
        /\ text' = text /\ UNCHANGED display
    BY <1>2, <1>6, Sending DEF Block
  <2>2. lcdData'.rs = v /\ lcdData'.e = 0 /\ lcdData'.bl = 1
    BY <1>0, <1>3, <1>6, <2>1 DEF Pins
  <2>3. At(v, b, u)'
    BY <1>6, <2>1, <2>2 DEF At, display
  <2>. QED BY <1>5, <2>1, <2>2, <2>3 DEF display
<1>7. CASE half = NoHalf /\ lcdData.e = 0 /\ todo = Then("rw", 0, Two(b, W(u))) /\ lcdData.rs = v
  <2>1. /\ todo' = Two(b, W(u)) /\ lcdData' = [lcdData EXCEPT !["rw"] = 0] /\ port' = lcdData'
        /\ text' = text /\ UNCHANGED display
    BY <1>2, <1>7, Sending
  <2>2. lcdData'.rs = v /\ lcdData'.e = 0 /\ lcdData'.bl = 1
    BY <1>0, <1>3, <1>7, <2>1 DEF Pins
  <2>3. Byte(b, W(u))'
    BY <1>7, <2>1, <2>2, Begins DEF display
  <2>4. At(v, b, u)'
    BY <2>2, <2>3 DEF At
  <2>. QED BY <1>5, <2>1, <2>2, <2>4 DEF display
<1>8. CASE Byte(b, W(u)) /\ lcdData.rs = v
  <2>1. /\ port' = lcdData' /\ text' = text /\ lcdData'.rs = v /\ lcdData'.bl = 1
        /\ \/ Byte(b, W(u))' /\ UNCHANGED <<bits, ddram, ac>>
           \/ todo' = W(u) /\ lcdData'.e = 0 /\ half' = NoHalf /\ Takes(v, b)
    BY <1>2, <1>3, <1>8, ByteSent
  <2>2. CASE Byte(b, W(u))' /\ UNCHANGED <<bits, ddram, ac>>
    <3>1. At(v, b, u)'
      BY <2>1, <2>2 DEF At
    <3>. QED BY <1>5, <2>1, <2>2, <3>1
  <2>3. CASE todo' = W(u) /\ lcdData'.e = 0 /\ half' = NoHalf /\ Takes(v, b)
    <3>0. Len(u) \in Nat
      OBVIOUS
    <3>1. CASE v = 0 /\ b >= 128 /\ b - 128 + Len(u) <= 127 /\ text = Over(ddram, b - 128, u)
      <4>1. ac' = b - 128 /\ UNCHANGED <<ddram, bits>>
        <5>1. v = 0 /\ b >= 128 /\ Takes(v, b)
          BY <2>3, <3>1
        <5>. QED BY <5>1, Addresses
      <4>2. ac' \in Nat /\ ac' + Len(u) <= 127 /\ text' = Over(ddram', ac', u) /\ ddram' \in Memory
        BY <1>0, <2>1, <3>1, <4>1
      <4>. QED BY <1>3, <2>1, <2>3, <4>1, <4>2, Follows DEF Sends
    <3>2. CASE v = 1 /\ ac + 1 + Len(u) <= 127 /\ text = Over(Put(ddram, ac, b), ac + 1, u)
      <4>1. ddram' = Put(ddram, ac, b) /\ ac' = (ac + 1) % 128 /\ bits' = bits
        BY <2>3, <3>2 DEF Takes, Put
      <4>2. ac' = ac + 1
        <5>1. ac + 1 \in 0 .. 127
          <6>. DEFINE n == Len(u)
          <6>1. n \in Nat /\ ac + 1 + n <= 127
            BY <3>0, <3>2
          <6>. HIDE DEF n
          <6>. QED BY <1>0, <6>1
        <5>. DEFINE m == ac + 1
        <5>2. m \in 0 .. 127 /\ ac' = m % 128
          BY <4>1, <5>1
        <5>. HIDE DEF m
        <5>3. m % 128 = m
          BY <5>2, Below128
        <5>4. ac' = m
          BY <5>2, <5>3
        <5>. QED BY <5>4 DEF m
      <4>3. ddram' \in Memory
        BY <1>0, <4>1 DEF Put, Memory
      <4>4. ac' \in Nat /\ ac' + Len(u) <= 127 /\ text' = Over(ddram', ac', u)
        BY <1>0, <2>1, <3>2, <4>1, <4>2
      <4>. QED BY <1>3, <2>1, <2>3, <4>1, <4>3, <4>4, Follows DEF Sends
    <3>. QED BY <1>1, <3>1, <3>2 DEF Owes
  <2>. QED BY <2>1, <2>2, <2>3
<1>. QED BY <1>1, <1>6, <1>7, <1>8 DEF At

\* Nothing is left to do only when the text has been written.
LEMMA Idle == LcdTypes /\ InStep /\ todo = <<>> => Working /\ Shows
<1>. SUFFICES ASSUME LcdTypes, InStep, todo = <<>> PROVE Working /\ Shows
  OBVIOUS
<1>0. /\ <<"rs", 0>> \in Change /\ <<"rs", 1>> \in Change /\ <<"rw", 0>> \in Change /\ <<"e", 1>> \in Change
      /\ <<"e", 0>> \in Change /\ <<"bl", 1>> \in Change /\ <<>> \in Seq(Change)
  BY Changes
<1>1. ASSUME NEW n \in Nibble, NEW r \in Seq(Change)
      PROVE  ~ Mid(n, r)
  <2>1. <<"data", n>> \in Change /\ Out(r) \in Seq(Change) /\ Raised(n, r) \in Seq(Change)
    BY Changes, BeforeType
  <2>2. Before(n, r) # <<>>
    BY <1>0, <2>1, ThenIs DEF Before, Raised, Out
  <2>3. Raised(n, r) # <<>>
    BY <2>1, ThenIs DEF Raised, Out
  <2>4. Out(r) # <<>>
    BY <1>0, ThenIs DEF Out
  <2>. QED BY <2>2, <2>3, <2>4 DEF Mid
<1>2. ASSUME NEW b \in 0 .. 255, NEW r \in Seq(Change)
      PROVE  ~ Byte(b, r)
  <2>1. b \div 16 \in Nibble /\ b % 16 \in Nibble
    BY DEF Nibble
  <2>2. Before(b % 16, r) \in Seq(Change)
    BY <2>1, BeforeType
  <2>. QED BY <1>1, <2>1, <2>2 DEF Byte
<1>3. ~ Starting
  <2>1. Then("rw", 0, R0) # <<>> /\ Then("rw", 0, R0) \in Seq(Change)
    BY <1>0, Rests, ThenIs
  <2>2. LCD_init # <<>>
    BY <1>0, <2>1, InitIs, ThenIs
  <2>. QED BY <2>1, <2>2 DEF Starting
<1>4. ~ Waking
  <2>1. 2 \in Nibble /\ 3 \in Nibble
    BY DEF Nibble
  <2>. QED BY <1>1, <2>1, Rests DEF Waking
<1>5. ~ Setting
  <2>1. todo # R14
    BY <1>0, ThenIs DEF R14
  <2>2. ~ Byte(40, R6) /\ ~ Byte(8, R8) /\ ~ Byte(1, R10) /\ ~ Byte(6, R12) /\ ~ Byte(12, R14)
    BY <1>2, Rests
  <2>. QED BY <2>1, <2>2 DEF Setting
<1>6. ASSUME NEW v \in {0, 1}, NEW b \in 0 .. 255, NEW u \in Seq(0 .. 255)
      PROVE  ~ At(v, b, u)
  <2>1. W(u) \in Seq(Change) /\ Two(b, W(u)) \in Seq(Change) /\ <<"rs", v>> \in Change
    BY StringIs, SendByte, Changes
  <2>2. Then("rw", 0, Two(b, W(u))) \in Seq(Change) /\ Then("rw", 0, Two(b, W(u))) # <<>>
    BY <1>0, <2>1, ThenIs
  <2>3. Block(v, b, W(u)) # <<>>
    BY <2>1, <2>2, ThenIs DEF Block
  <2>. QED BY <1>2, <2>1, <2>2, <2>3 DEF At
<1>. QED BY <1>3, <1>4, <1>5, <1>6 DEF InStep, Working

LEMMA LcdInit == Init => LcdInv
<1>. SUFFICES ASSUME Init PROVE LcdInv
  OBVIOUS
<1>1. lcdData \in Pins /\ port \in Pins
  <2>1. 0 \in Nibble /\ 3 \in Nibble
    BY DEF Nibble
  <2>2. Zero \in Pins /\ [Zero EXCEPT !.e = 1, !.data = 3] \in Pins
    BY <2>1 DEF Pins, Zero
  <2>. QED BY <2>2 DEF Init
<1>2. ddram \in [Cells -> 0 .. 255] /\ text \in [Cells -> 0 .. 255]
  BY DEF Init, Blank
<1>3. TypeOK
  <2>1. half \in Nibble \cup {NoHalf} /\ bits \in {4, 8} /\ clean \in BOOLEAN /\ ready \in BOOLEAN
    BY DEF Init
  <2>2. ac \in 0 .. 127
    BY DEF Init
  <2>. QED BY <1>1, <1>2, <2>1, <2>2 DEF TypeOK
<1>4. todo \in Seq(Change)
  BY DEF Init
<1>. QED BY <1>3, <1>4 DEF LcdInv, LcdTypes, Init

LEMMA LcdStep == LcdInv /\ [Next]_vars => LcdInv'
<1>. SUFFICES ASSUME LcdInv, [Next]_vars PROVE LcdInv'
  OBVIOUS
<1>1. CASE Initialises
  <2>1. /\ todo' = LCD_init /\ lcdData' = Zero /\ port' = port /\ UNCHANGED display
        /\ text' = Blank /\ clean' = TRUE /\ ready' = TRUE
    BY <1>1 DEF Initialises, Calls, LcdInv
  <2>2. LCD_init \in Seq(Change)
    <3>1. <<"rs", 0>> \in Change /\ <<"rw", 0>> \in Change
      BY Changes
    <3>2. Then("rw", 0, R0) \in Seq(Change)
      BY <3>1, Rests, ThenIs
    <3>. QED BY <3>1, <3>2, InitIs, ThenIs
  <2>3. Blank \in Memory /\ Zero \in Pins
    BY DEF Blank, Memory, Zero, Pins, Nibble
  <2>4. LcdTypes'
    BY <2>1, <2>2, <2>3 DEF LcdInv, LcdTypes, TypeOK, display, Memory
  <2>. QED BY <2>1, <2>4 DEF LcdInv, InStep, Starting
<1>2. CASE Writes
  <2>1. PICK r \in Rows, c \in Cols, s \in Texts :
          /\ Calls(LCD_writeStringXY(r, c, s))
          /\ text' = [a \in Cells |->
                          LET k == a - (64 * (r % 2) + (c % 16)) + 1
                          IN  IF k \in DOMAIN s THEN s[k] ELSE text[a]]
    BY <1>2 DEF Writes
  <2>. DEFINE p == 64 * (r % 2) + (c % 16)
  <2>2. /\ p \in 0 .. 79 /\ p + Len(s) <= 127 /\ s \in Seq(0 .. 255) /\ 128 + p \in 0 .. 255
        /\ LCD_writeStringXY(r, c, s) = Block(0, 128 + p, W(s))
        /\ LCD_writeStringXY(r, c, s) \in Seq(Change)
        /\ text' = Over(text, p, s)
    BY <2>1, WriteIs
  <2>. HIDE DEF p
  <2>3. /\ todo' = Block(0, 128 + p, W(s)) /\ todo' \in Seq(Change) /\ UNCHANGED <<lcdData, port, display, ready, clean>>
        /\ todo = <<>> /\ ready
    BY <1>2, <2>1, <2>2 DEF Writes, Calls
  <2>4. text' \in Memory
    <3>1. text \in Memory /\ p \in Nat /\ 0 \in 0 .. 255
      BY <2>2 DEF LcdInv, LcdTypes, TypeOK, Memory
    <3>2. Over(text, p, s) \in Memory
      BY <2>2, <3>1, OverType
    <3>. QED BY <2>2, <3>2
  <2>5. LcdTypes'
    BY <2>3, <2>4 DEF LcdInv, LcdTypes, TypeOK, display, Memory
  <2>6. ASSUME clean'
        PROVE  Working'
    <3>1. Working /\ Shows
      BY <2>3, <2>6, Idle DEF LcdInv
    <3>. DEFINE b == 128 + p
    <3>2. b \in 0 .. 255 /\ b >= 128 /\ b - 128 = p /\ p + Len(s) <= 127
      BY <2>2
    <3>3. todo' = Block(0, b, W(s))
      BY <2>3
    <3>. HIDE DEF b
    <3>4. At(0, b, s)'
      BY <2>3, <3>1, <3>3 DEF At, Shows, display
    <3>5. text' = Over(ddram, b - 128, s)'
      BY <2>2, <2>3, <3>1, <3>2 DEF Over, Shows, display
    <3>6. Owes(0, b, s)'
      BY <3>2, <3>5 DEF Owes
    <3>. QED BY <2>2, <2>3, <3>1, <3>2, <3>4, <3>6 DEF Working, display
  <2>. QED BY <2>3, <2>5, <2>6 DEF LcdInv, InStep
<1>3. CASE SendsToInterface
  <2>0. LcdTypes'
    BY <1>3, SendTypes DEF LcdInv
  <2>1. LcdTypes' /\ ready' = ready /\ todo # <<>> /\ (clean' => clean)
    BY <1>3, <2>0 DEF SendsToInterface
  <2>2. ready
    BY <2>1 DEF LcdInv
  <2>3. ASSUME clean'
        PROVE  InStep'
    <3>1. InStep
      BY <2>1, <2>2, <2>3 DEF LcdInv
    <3>2. CASE text = Blank /\ Starting
      BY <1>3, <2>3, <3>2, Starts DEF LcdInv, InStep
    <3>3. CASE text = Blank /\ Waking
      BY <1>3, <2>3, <3>3, Wakes DEF LcdInv, InStep, Sends, Waking
    <3>4. CASE text = Blank /\ Setting
      BY <1>3, <2>3, <3>4, Sets DEF LcdInv, InStep, Sends, Setting
    <3>5. CASE Working
      <4>1. Sends
        BY <1>3, <2>3, <3>5 DEF LcdInv, Sends, Working
      <4>. QED BY <3>5, <4>1, Works DEF InStep
    <3>. QED BY <3>1, <3>2, <3>3, <3>4, <3>5 DEF InStep
  <2>. QED BY <2>1, <2>2, <2>3 DEF LcdInv
<1>4. CASE Resets
  <2>1. Zero \in Pins /\ <<>> \in Seq(Change)
    BY DEF Zero, Pins, Nibble
  <2>2. LcdTypes'
    BY <1>4, <2>1 DEF Resets, LcdInv, LcdTypes, TypeOK, display
  <2>. QED BY <1>4, <2>2 DEF Resets, LcdInv
<1>5. CASE UNCHANGED vars
  <2>1. UNCHANGED <<lcdData, todo, ready, port, bits, half, ddram, ac, text, clean>>
    BY <1>5 DEF vars, driver, display
  <2>2. LcdTypes'
    BY <2>1 DEF LcdInv, LcdTypes, TypeOK
  <2>3. InStep => InStep'
    <3>1. \A n, r : Mid(n, r) => Mid(n, r)'
      BY <2>1 DEF Mid
    <3>2. \A b, r : Byte(b, r) => Byte(b, r)'
      BY <2>1, <3>1 DEF Byte
    <3>3. \A v, b, u : At(v, b, u) /\ Owes(v, b, u) => At(v, b, u)' /\ Owes(v, b, u)'
      BY <2>1, <3>2 DEF At, Owes, Over, Put
    <3>4. Starting => Starting'
      BY <2>1 DEF Starting
    <3>5. Waking => Waking'
      BY <2>1, <3>1 DEF Waking, EightBits
    <3>6. Setting => Setting'
      BY <2>1, <3>2 DEF Setting
    <3>7. Working => Working'
      <4>1. Shows => Shows'
        BY <2>1 DEF Shows
      <4>2. CASE Shows
        BY <2>1, <4>1, <4>2 DEF Working
      <4>3. ASSUME NEW v \in {0, 1}, NEW b \in 0 .. 255, NEW u \in Seq(0 .. 255), At(v, b, u), Owes(v, b, u), Working
            PROVE  Working'
        <5>1. At(v, b, u)' /\ Owes(v, b, u)'
          BY <3>3, <4>3
        <5>2. port' = lcdData' /\ lcdData'.bl = 1 /\ bits' = 4
          BY <2>1, <4>3 DEF Working
        <5>. QED BY <5>1, <5>2 DEF Working
      <4>. QED BY <4>2, <4>3 DEF Working
    <3>. QED BY <2>1, <3>4, <3>5, <3>6, <3>7 DEF InStep
  <2>. QED BY <2>1, <2>2, <2>3 DEF LcdInv
<1>. QED BY <1>1, <1>2, <1>3, <1>4, <1>5 DEF Next

\* Whatever state LCD_init finds the display in, and whatever texts are written after it,
\* the display shows them where they belong once a call has ended, unless a write to the
\* expander has failed.
THEOREM TextIsShown == Spec => []ShowsText
<1>1. LcdInv => ShowsText
  <2>. SUFFICES ASSUME LcdInv, ready, clean, todo = <<>>
                PROVE  bits = 4 /\ half = NoHalf /\ ddram = text /\ port.bl = 1
    BY DEF ShowsText
  <2>1. Working /\ Shows
    BY Idle DEF LcdInv
  <2>. QED BY <2>1 DEF Working, Shows
<1>. QED BY <1>1, LcdInit, LcdStep, PTL DEF Spec

\* The types of the chip, the cards and the reader's driver.
THEOREM ReaderTypeCorrect == R!Spec => []R!TypeOK
<1>1. R!Init => ReaderInv
  BY PartsAssumption, ReaderInit
<1>2. ReaderInv /\ [R!Next]_R!vars => ReaderInv'
  BY PartsAssumption, ReaderStep
<1>3. ReaderInv => R!TypeOK
  BY DEF ReaderInv, ReaderTypes
<1>. QED BY <1>1, <1>2, <1>3, PTL DEF R!Spec

\* The types of the display and its driver.
THEOREM LcdTypeCorrect == Spec => []TypeOK
<1>1. LcdInv => TypeOK
  BY DEF LcdInv, LcdTypes
<1>. QED BY <1>1, LcdInit, LcdStep, PTL DEF Spec

\* In the run of MCPeripherals each part behaves as it does alone.
THEOREM PartsAsAlone == PartsSpec => Spec /\ R!Spec /\ C!Spec
<1>1. PartsInit => Init /\ R!Init /\ C!Init
  BY DEF PartsInit
<1>2. [PartsNext]_<<part, vars, reader, console>> => [Next]_vars /\ [R!Next]_R!vars /\ [C!Next]_C!vars
  <2>1. UNCHANGED reader => UNCHANGED R!vars
    BY DEF reader, R!vars, R!chip, R!driver, R!history
  <2>2. UNCHANGED console => UNCHANGED C!vars
    BY DEF console, C!vars, C!terminal, C!sender
  <2>. QED BY <2>1, <2>2 DEF PartsNext
<1>. QED BY <1>1, <1>2, PTL DEF PartsSpec, Spec, R!Spec, C!Spec
=============================================================================
