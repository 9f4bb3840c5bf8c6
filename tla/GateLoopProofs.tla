----------------------------- MODULE GateLoopProofs -----------------------------
(****************************************************************************)
(* Proofs about GateLoop, for every period, hold time and wrap of the ticks. *)
(*                                                                          *)
(* The ages do not wrap and the ticks do.  What relates them is a distance  *)
(* modulo W: as long as an age, taken at the start of the iteration, is     *)
(* below a delay, the tick noted at its origin is that far behind           *)
(* current_tick, and Since() tells the truth.                               *)
(****************************************************************************)
EXTENDS GateLoop, TLAPS

LEMMA AngleTypes ==
    /\ \A a \in Int : Clamped(a) \in 0 .. 180
    /\ Clamped(90) = 90 /\ Clamped(0) = 0
    /\ Angles \subseteq Int
BY LoopAssumption DEF Clamped

\* The constants, one by one.
LEMMA Delays ==
    /\ W \in Nat \ {0} /\ SENSE \in Nat \ {0} /\ HOLD_TIME \in Nat \ {0}
    /\ POLL \in Nat \ {0} /\ RESET_DELAY \in Nat \ {0} /\ MaxIter \in Nat \ {0}
    /\ HOLD_TIME + MaxIter < W /\ RESET_DELAY + MaxIter < W
    /\ Old \in Nat /\ Old - MaxIter > HOLD_TIME /\ Old - MaxIter > RESET_DELAY
<1>1. /\ W \in Nat /\ SENSE \in Nat \ {0} /\ HOLD_TIME \in Nat \ {0}
      /\ POLL \in Nat \ {0} /\ RESET_DELAY \in Nat \ {0} /\ MaxIter \in Nat \ {0}
  BY LoopAssumption
<1>2. HOLD_TIME + POLL + 2 * MaxIter < W /\ RESET_DELAY + POLL + 2 * MaxIter < W
  BY LoopAssumption
<1>. QED
  BY <1>1, <1>2 DEF Old

\* Unsigned arithmetic on ticks, without the remainder.
LEMMA Wraps ==
  ASSUME NEW a \in Ticks, NEW b \in Ticks
  PROVE  /\ (a + 1) % W = IF a = W - 1 THEN 0 ELSE a + 1
         /\ (a - b) % W = IF a >= b THEN a - b ELSE a - b + W
<1>1. W \in Nat \ {0} /\ a \in Int /\ b \in Int /\ 0 <= a /\ a < W /\ 0 <= b /\ b < W
  BY Delays DEF Ticks
<1>2. CASE a >= b
  <2>1. (a - b) % W = a - b
    BY <1>1, <1>2
  <2>. QED BY <1>1, <1>2, <2>1
<1>3. CASE a < b
  <2>1. (a - b) % W = a - b + W
    BY <1>1, <1>3
  <2>. QED BY <1>1, <1>3, <2>1
<1>4. (a + 1) % W = IF a = W - 1 THEN 0 ELSE a + 1
  BY <1>1
<1>. QED BY <1>1, <1>2, <1>3, <1>4

Types ==
    /\ tick \in Ticks /\ current_tick \in Ticks /\ last_sensor_tick \in Ticks
    /\ object_gone_tick \in Ticks /\ rfid_poll_tick \in Ticks /\ absent_start_tick \in Ticks
    /\ pc \in {"start", "sense", "close", "poll", "command"}
    /\ is_servo_open \in Bits /\ is_card_present \in Bits
    /\ near \in BOOLEAN
    /\ forced \in BOOLEAN
    /\ angle \in 0 .. 180
    /\ iterAge \in 0 .. MaxIter /\ nearAge \in Ages /\ readAge \in Ages

LEMMA TypesInit == Init => Types
<1>. SUFFICES ASSUME Init PROVE Types
  OBVIOUS
<1>1. near \in BOOLEAN
  BY DEF Init
<1>2. forced \in BOOLEAN
  BY DEF Init
<1>. QED BY <1>1, <1>2, Delays DEF Init, Types, Ticks, Bits, Ages

LEMMA TypesStep == Types /\ [Next]_vars => Types'
<1>. SUFFICES ASSUME Types, [Next]_vars PROVE Types'
  OBVIOUS
<1>. USE Delays, AngleTypes
<1>1. CASE Tick
  BY <1>1, Wraps DEF Tick, Types, Older, Ages, Ticks
<1>2. CASE Start
  BY <1>2 DEF Start, Types, barrier, reader
<1>3. CASE Sense
  <2>1. near' \in BOOLEAN
    BY <1>3, Zenon DEF Sense, Measure, barrier, Types
  <2>2. forced' \in BOOLEAN
    BY <1>3, Zenon DEF Sense, Measure, barrier, Types
  <2>. QED BY <1>3, <2>1, <2>2 DEF Sense, Measure, Types, barrier, reader, Bits, Ages
<1>4. CASE Close
  <2>1. forced' \in BOOLEAN
    BY <1>4, Zenon DEF Close, Types
  <2>. QED BY <1>4, <2>1 DEF Close, Types, reader, Bits
<1>5. CASE Poll
  BY <1>5 DEF Poll, ReadCard, NoCard, Types, barrier, reader, Bits, Ages
<1>6. CASE Command
  <2>1. forced' \in BOOLEAN
    BY <1>6, Zenon DEF Command, Types
  <2>. QED BY <1>6, <2>1 DEF Command, Types, reader
<1>7. CASE UNCHANGED vars
  BY <1>7 DEF vars, barrier, reader, Types
<1>. QED BY <1>1, <1>2, <1>3, <1>4, <1>5, <1>6, <1>7 DEF Next, Loop

\* Ticks, angles and ages keep to their ranges.
THEOREM TypeCorrect == Spec => []TypeOK
<1>1. Types => TypeOK
  BY Delays DEF Types, TypeOK, Ages
<1>. QED BY <1>1, TypesInit, TypesStep, PTL DEF Spec

\* The flag that guards both moves of the barrier tells where the barrier is, unless
\* SERVO moved it last.
THEOREM FlagIsBarrier == Spec => []FlagMatchesBarrier
<1> DEFINE Inv == is_servo_open \in {0, 1} /\ FlagMatchesBarrier
<1>1. Init => Inv
  BY DEF Init, FlagMatchesBarrier
<1>2. Inv /\ [Next]_vars => Inv'
  <2> SUFFICES ASSUME Inv, [Next]_vars PROVE Inv'
    OBVIOUS
  <2> USE AngleTypes DEF FlagMatchesBarrier
  <2>1. CASE Tick
    BY <2>1 DEF Tick, barrier
  <2>2. CASE Start
    BY <2>2 DEF Start, barrier
  <2>3. CASE Sense
    BY <2>3 DEF Sense, barrier, Measure
  <2>4. CASE Close
    BY <2>4 DEF Close, barrier
  <2>5. CASE Poll
    BY <2>5 DEF Poll, barrier
  <2>6. CASE Command
    BY <2>6 DEF Command, barrier
  <2>7. CASE UNCHANGED vars
    BY <2>7 DEF vars, barrier
  <2>. QED
    BY <2>1, <2>2, <2>3, <2>4, <2>5, <2>6, <2>7 DEF Next, Loop
<1>3. Inv => FlagMatchesBarrier
  OBVIOUS
<1>. QED
  BY <1>1, <1>2, <1>3, PTL DEF Spec

-----------------------------------------------------------------------------
(* The ages and the ticks. *)

\* current_tick is d ticks after t; d is below W.
Behind(t, d) == current_tick = t + d \/ current_tick = t + d - W

\* Since(t), of a tick that lies d behind, is d.
LEMMA SinceIsAge ==
  ASSUME Types, NEW t \in Ticks, NEW d \in Nat, d < W, Behind(t, d)
  PROVE  Since(t) = d
<1>1. Since(t) = IF current_tick >= t THEN current_tick - t ELSE current_tick - t + W
  BY Wraps DEF Since, Types
<1>. QED BY <1>1, Delays DEF Behind, Types, Ticks

\* An age since the start of an iteration, as far as the delay: of an object, of a card.
Seen  == nearAge - iterAge < HOLD_TIME
Taken == readAge - iterAge < RESET_DELAY

\* Within an iteration the clock has moved by its age; before the first one it may have
\* moved from where current_tick was left.
Clock ==
    (pc # "start" \/ Seen \/ Taken)
        => tick = current_tick + iterAge \/ tick = current_tick + iterAge - W

Held  == Seen => /\ nearAge >= iterAge /\ is_servo_open = 1
                 /\ Behind(object_gone_tick, nearAge - iterAge)
Known == Taken => /\ readAge >= iterAge /\ is_card_present = 1
                  /\ Behind(absent_start_tick, readAge - iterAge)

AgeInv == Types /\ Clock /\ Held /\ Known

LEMMA AgeInit == Init => AgeInv
<1>. SUFFICES ASSUME Init PROVE AgeInv
  OBVIOUS
<1>1. Types
  BY TypesInit
<1>2. ~ Seen /\ ~ Taken /\ pc = "start"
  BY Delays DEF Init, Seen, Taken
<1>. QED BY <1>1, <1>2 DEF AgeInv, Clock, Held, Known

LEMMA AgeStep == AgeInv /\ [Next]_vars => AgeInv'
<1>. SUFFICES ASSUME AgeInv, [Next]_vars PROVE Clock' /\ Held' /\ Known'
  BY TypesStep DEF AgeInv
<1>. USE Delays
<1>0. /\ Types /\ Types' /\ Clock /\ Held /\ Known
      /\ tick \in Nat /\ tick < W /\ current_tick \in Nat /\ current_tick < W
      /\ object_gone_tick \in Nat /\ object_gone_tick < W
      /\ absent_start_tick \in Nat /\ absent_start_tick < W
      /\ iterAge \in Nat /\ iterAge <= MaxIter
      /\ nearAge \in Nat /\ nearAge <= Old /\ readAge \in Nat /\ readAge <= Old
  BY TypesStep DEF AgeInv, Types, Ticks, Ages
<1>1. CASE Tick
  <2>1. /\ UNCHANGED <<pc, current_tick, object_gone_tick, is_servo_open, is_card_present,
                       absent_start_tick>>
        /\ iterAge' = iterAge + 1 /\ iterAge < MaxIter
        /\ nearAge' = Older(nearAge) /\ readAge' = Older(readAge)
        /\ tick' = IF tick = W - 1 THEN 0 ELSE tick + 1
    BY <1>0, <1>1, Wraps DEF Tick, Types
  <2>2. Seen' => Seen /\ nearAge' = nearAge + 1
    BY <1>0, <2>1 DEF Seen, Older
  <2>3. Taken' => Taken /\ readAge' = readAge + 1
    BY <1>0, <2>1 DEF Taken, Older
  <2>4. Clock'
    BY <1>0, <2>1, <2>2, <2>3 DEF Clock
  <2>5. Held'
    BY <1>0, <2>1, <2>2 DEF Held, Behind
  <2>6. Known'
    BY <1>0, <2>1, <2>3 DEF Known, Behind
  <2>. QED BY <2>4, <2>5, <2>6
<1>2. CASE Start
  <2>1. /\ UNCHANGED <<tick, object_gone_tick, is_servo_open, is_card_present,
                       absent_start_tick, nearAge, readAge>>
        /\ current_tick' = tick /\ iterAge' = 0
    BY <1>2 DEF Start, barrier, reader
  <2>2. Seen' => Seen /\ nearAge < HOLD_TIME
    BY <1>0, <2>1 DEF Seen
  <2>3. Taken' => Taken /\ readAge < RESET_DELAY
    BY <1>0, <2>1 DEF Taken
  <2>4. Clock'
    BY <1>0, <2>1 DEF Clock
  <2>5. Held'
    BY <1>0, <2>1, <2>2 DEF Held, Behind, Clock
  <2>6. Known'
    BY <1>0, <2>1, <2>3 DEF Known, Behind, Clock
  <2>. QED BY <2>4, <2>5, <2>6
<1>3. CASE Sense
  <2>1. /\ UNCHANGED <<tick, current_tick, is_card_present, absent_start_tick, readAge, iterAge>>
        /\ pc = "sense" /\ pc' = "close"
    BY <1>3 DEF Sense, reader
  <2>2. Clock' /\ Known'
    BY <1>0, <2>1 DEF Clock, Known, Taken, Behind
  <2>3. \/ UNCHANGED <<object_gone_tick, is_servo_open, nearAge>>
        \/ object_gone_tick' = current_tick /\ is_servo_open' = 1 /\ nearAge' = iterAge
    BY <1>0, <1>3 DEF Sense, Measure, barrier, Types, Bits
  <2>4. Held'
    BY <1>0, <2>1, <2>3 DEF Held, Seen, Behind
  <2>. QED BY <2>2, <2>4
<1>4. CASE Close
  <2>1. /\ UNCHANGED <<tick, current_tick, object_gone_tick, is_card_present,
                       absent_start_tick, nearAge, readAge, iterAge>>
        /\ pc = "close"
    BY <1>4 DEF Close, reader
  <2>2. Clock' /\ Known'
    BY <1>0, <2>1 DEF Clock, Known, Seen, Taken, Behind
  <2>3. Seen => is_servo_open' = 1
    <3>1. Seen => Since(object_gone_tick) < HOLD_TIME
      <4>1. SUFFICES ASSUME Seen PROVE Since(object_gone_tick) < HOLD_TIME
        OBVIOUS
      <4>2. nearAge - iterAge \in Nat /\ nearAge - iterAge < HOLD_TIME /\ nearAge - iterAge < W
        BY <1>0, <4>1 DEF Held, Seen
      <4>3. Since(object_gone_tick) = nearAge - iterAge
        BY <1>0, <4>1, <4>2, SinceIsAge DEF Held, Types
      <4>. QED BY <4>2, <4>3
    <3>2. Since(object_gone_tick) \in Int
      BY <1>0, Wraps DEF Since, Types, Ticks
    <3>. QED BY <1>0, <1>4, <3>1, <3>2 DEF Close, Held
  <2>4. Held'
    BY <1>0, <2>1, <2>3 DEF Held, Seen, Behind
  <2>. QED BY <2>2, <2>4
<1>5. CASE Poll
  <2>1. /\ UNCHANGED <<tick, current_tick, object_gone_tick, is_servo_open, nearAge, iterAge>>
        /\ pc = "poll" /\ pc' = "command"
    BY <1>5 DEF Poll, barrier
  <2>2. Clock' /\ Held'
    BY <1>0, <2>1 DEF Clock, Held, Seen, Behind
  <2>3. \/ UNCHANGED reader
        \/ ReadCard
        \/ NoCard
    BY <1>5 DEF Poll
  <2>4. CASE UNCHANGED reader
    BY <1>0, <2>1, <2>2, <2>4 DEF reader, Known, Taken, Behind
  <2>5. CASE ReadCard
    BY <1>0, <2>1, <2>2, <2>5 DEF ReadCard, Known, Taken, Behind
  <2>6. CASE NoCard
    <3>1. Taken => Since(absent_start_tick) < RESET_DELAY
      <4>1. SUFFICES ASSUME Taken PROVE Since(absent_start_tick) < RESET_DELAY
        OBVIOUS
      <4>2. readAge - iterAge \in Nat /\ readAge - iterAge < RESET_DELAY /\ readAge - iterAge < W
        BY <1>0, <4>1 DEF Known, Taken
      <4>3. Since(absent_start_tick) = readAge - iterAge
        BY <1>0, <4>1, <4>2, SinceIsAge DEF Known, Types
      <4>. QED BY <4>2, <4>3
    <3>2. Since(absent_start_tick) \in Int
      BY <1>0, Wraps DEF Since, Types, Ticks
    <3>. QED BY <1>0, <2>1, <2>2, <2>6, <3>1, <3>2 DEF NoCard, Known, Taken, Behind
  <2>. QED BY <2>2, <2>3, <2>4, <2>5, <2>6
<1>6. CASE Command
  <2>1. /\ UNCHANGED <<tick, current_tick, object_gone_tick, is_servo_open, is_card_present,
                       absent_start_tick, nearAge, readAge, iterAge>>
        /\ pc = "command"
    BY <1>6 DEF Command, reader
  <2>. QED BY <1>0, <2>1 DEF Clock, Held, Known, Seen, Taken, Behind
<1>7. CASE UNCHANGED vars
  BY <1>0, <1>7 DEF vars, barrier, reader, Clock, Held, Known, Seen, Taken, Behind
<1>. QED BY <1>1, <1>2, <1>3, <1>4, <1>5, <1>6, <1>7 DEF Next, Loop

\* The barrier never comes down on a car: whatever the loop's timing, and across the wrap
\* of the ticks, it is up for HOLD_TIME after the last object, unless SERVO moved it.
THEOREM BarrierHolds == Spec => []UpWhileNear
<1>1. AgeInv /\ FlagMatchesBarrier => UpWhileNear
  BY DEF AgeInv, Held, Seen, UpWhileNear, FlagMatchesBarrier
<1>. QED BY <1>1, AgeInit, AgeStep, FlagIsBarrier, PTL DEF Spec

\* A card makes a second event only after it was away for RESET_DELAY, in real ticks.
THEOREM OneEvent == Spec => OneEventPerPresentation
<1>1. AgeInv /\ [Next]_vars => [(is_card_present = 0 /\ is_card_present' = 1)
                                    => readAge - iterAge >= RESET_DELAY]_vars
  <2>1. AgeInv /\ is_card_present = 0 => readAge - iterAge >= RESET_DELAY
    BY Delays DEF AgeInv, Known, Taken, Types, Ages
  <2>. QED BY <2>1
<1>. QED BY <1>1, AgeInit, AgeStep, PTL DEF Spec, OneEventPerPresentation
=============================================================================
