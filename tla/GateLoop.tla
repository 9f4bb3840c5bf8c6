------------------------------- MODULE GateLoop -------------------------------
(****************************************************************************)
(* The timers of the gate controller's main loop, stm32/Core/Src/main.c: the *)
(* barrier that the distance sensors raise and a hold time lowers, and the  *)
(* card reader that takes one event per presentation.  The ticks are        *)
(* unsigned and wrap; the sections of an iteration all use the tick read at *)
(* its start, while time goes on.                                           *)
(*                                                                          *)
(* The ages are history variables, in ticks that do not wrap; they tell the *)
(* properties what really happened.                                         *)
(****************************************************************************)
EXTENDS Integers

CONSTANTS
    W,              \* ticks before HAL_GetTick wraps around (2^32 in the code)
    SENSE,          \* 500: period of the distance sensors
    HOLD_TIME,      \* 1500: how long the barrier stays up
    POLL,           \* 200: period of the card reader
    RESET_DELAY,    \* 1500: how long a card must be away
    MaxIter,        \* bound: ticks that one iteration of the loop may take
    Angles          \* angles that a SERVO command may ask for

Old == HOLD_TIME + RESET_DELAY + SENSE + POLL + 2 * MaxIter  \* ages stop here

ASSUME LoopAssumption ==
    /\ {SENSE, HOLD_TIME, POLL, RESET_DELAY, MaxIter} \subseteq Nat \ {0}
    /\ W \in Nat /\ \A d \in {SENSE, HOLD_TIME, POLL, RESET_DELAY} : d + POLL + 2 * MaxIter < W
    /\ Angles \subseteq Int

VARIABLES
    tick,               \* HAL_GetTick()
    pc,                 \* the section of the loop
    current_tick,       \* its value at the start of the iteration
    last_sensor_tick, object_gone_tick, is_servo_open,
    near,               \* Distance1 or Distance2 is below the threshold
    angle,              \* the servo
    rfid_poll_tick, is_card_present, absent_start_tick,
    forced,             \* history: a SERVO command came after the loop's last move
    iterAge,            \* history: since the start of the iteration
    nearAge,            \* history: since the start of the last iteration that saw an object
    readAge             \* history: since the start of the last that read a card

barrier == <<last_sensor_tick, object_gone_tick, is_servo_open, near, angle, forced, nearAge>>
reader  == <<rfid_poll_tick, is_card_present, absent_start_tick, readAge>>
vars    == <<tick, pc, current_tick, barrier, reader, iterAge>>

Ticks == 0 .. W - 1
Ages  == 0 .. Old
Bits  == {0, 1}

\* Set_Servo_Angle, without the pulse width.
Clamped(a) == IF a < 0 THEN 0 ELSE IF a > 180 THEN 180 ELSE a

TypeOK ==
    /\ {tick, current_tick, last_sensor_tick, object_gone_tick, rfid_poll_tick,
        absent_start_tick} \subseteq Ticks
    /\ pc \in {"start", "sense", "close", "poll", "command"}
    /\ {is_servo_open, is_card_present} \subseteq Bits
    /\ near \in BOOLEAN /\ forced \in BOOLEAN
    /\ angle \in 0 .. 180
    /\ {iterAge, nearAge, readAge} \subseteq Ages

\* The boot: the statics are 0, the PWM starts at the pulse of 0 degrees.
Init ==
    /\ tick \in Ticks \cap 0 .. MaxIter /\ current_tick = 0 /\ pc = "start"
    /\ last_sensor_tick = 0 /\ object_gone_tick = 0 /\ is_servo_open = 0
    /\ near = FALSE /\ angle = 0 /\ forced = FALSE /\ nearAge = Old
    /\ rfid_poll_tick = 0 /\ is_card_present = 0 /\ absent_start_tick = 0
    /\ readAge = Old
    /\ iterAge = 0

\* Mutant: the deadline is compared instead of the difference.
Since_Deadline(t) == current_tick - t

\* Time since t, in the code's unsigned arithmetic.
Since(t) == (current_tick - t) % W

Older(a) == IF a < Old THEN a + 1 ELSE a

\* Time passes anywhere in an iteration, whose waits all have a limit.
Tick ==
    /\ iterAge < MaxIter
    /\ tick' = (tick + 1) % W
    /\ iterAge' = iterAge + 1
    /\ nearAge' = Older(nearAge) /\ readAge' = Older(readAge)
    /\ UNCHANGED <<pc, current_tick, last_sensor_tick, object_gone_tick, is_servo_open, near,
                   angle, forced, rfid_poll_tick, is_card_present, absent_start_tick>>

Start ==
    /\ pc = "start"
    /\ current_tick' = tick /\ iterAge' = 0
    /\ pc' = "sense"
    /\ UNCHANGED <<tick, barrier, reader>>

\* Mutant: the hold time starts when the barrier goes up, and is not renewed.
Measure_NotRenewed ==
    /\ near' \in BOOLEAN
    /\ last_sensor_tick' = current_tick
    /\ nearAge' = IF near' THEN iterAge ELSE nearAge
    /\ IF near' /\ is_servo_open = 0
       THEN /\ object_gone_tick' = current_tick
            /\ is_servo_open' = 1 /\ angle' = Clamped(90) /\ forced' = FALSE
       ELSE UNCHANGED <<object_gone_tick, is_servo_open, angle, forced>>

\* An object below the threshold raises the barrier, and keeps it up.
Measure ==
    /\ near' \in BOOLEAN
    /\ last_sensor_tick' = current_tick
    /\ IF near'
       THEN /\ object_gone_tick' = current_tick /\ nearAge' = iterAge
            /\ IF is_servo_open = 0
               THEN is_servo_open' = 1 /\ angle' = Clamped(90) /\ forced' = FALSE
               ELSE UNCHANGED <<is_servo_open, angle, forced>>
       ELSE UNCHANGED <<object_gone_tick, nearAge, is_servo_open, angle, forced>>

Sense ==
    /\ pc = "sense"
    /\ IF Since(last_sensor_tick) >= SENSE THEN Measure ELSE UNCHANGED barrier
    /\ pc' = "close"
    /\ UNCHANGED <<tick, current_tick, reader, iterAge>>

Close ==
    /\ pc = "close"
    /\ IF is_servo_open = 1 /\ Since(object_gone_tick) >= HOLD_TIME
       THEN angle' = Clamped(0) /\ is_servo_open' = 0 /\ forced' = FALSE
       ELSE UNCHANGED <<angle, is_servo_open, forced>>
    /\ pc' = "poll"
    /\ UNCHANGED <<tick, current_tick, last_sensor_tick, object_gone_tick, near, nearAge, reader, iterAge>>

\* Mutant: a card that stays does not renew the time of its absence.
ReadCard_NotRenewed ==
    /\ is_card_present' = 1
    /\ absent_start_tick' = IF is_card_present = 0 THEN current_tick ELSE absent_start_tick
    /\ readAge' = iterAge

\* A card answers: it is new, and makes an event, only after an absence.
ReadCard ==
    /\ is_card_present' = 1
    /\ absent_start_tick' = current_tick
    /\ readAge' = iterAge

NoCard ==
    /\ is_card_present' = IF is_card_present = 1 /\ Since(absent_start_tick) >= RESET_DELAY
                          THEN 0 ELSE is_card_present
    /\ UNCHANGED <<absent_start_tick, readAge>>

\* The reader may miss a card that is there: whether one answers is open.
Poll ==
    /\ pc = "poll"
    /\ IF Since(rfid_poll_tick) >= POLL
       THEN rfid_poll_tick' = current_tick /\ (ReadCard \/ NoCard)
       ELSE UNCHANGED reader
    /\ pc' = "command"
    /\ UNCHANGED <<tick, current_tick, barrier, iterAge>>

\* bluetooth_Event: SERVO moves the barrier and tells nothing else.
Command ==
    /\ pc = "command"
    /\ \/ \E a \in Angles : angle' = Clamped(a) /\ forced' = TRUE
       \/ UNCHANGED <<angle, forced>>
    /\ pc' = "start"
    /\ UNCHANGED <<tick, current_tick, last_sensor_tick, object_gone_tick, is_servo_open, near,
                   nearAge, reader, iterAge>>

Loop == Start \/ Sense \/ Close \/ Poll \/ Command

Next == Tick \/ Loop

\* The loop runs for ever, and so does the clock.
Spec == Init /\ [][Next]_vars /\ WF_vars(Loop) /\ WF_vars(Tick)

-----------------------------------------------------------------------------
(* Properties. *)

\* Left to the loop, the barrier is up in every iteration that began less than HOLD_TIME
\* after one that saw an object, across the wrap of the ticks: it never comes down on a
\* car.  SERVO commands are excepted until the loop's next move.
UpWhileNear ==
    ~ forced /\ nearAge - iterAge < HOLD_TIME => angle = 90

\* The flag and the barrier agree, unless a SERVO command moved the barrier last.
FlagMatchesBarrier == ~ forced => (angle = 90) = (is_servo_open = 1)

\* A card makes a second event only after the reader has missed it for RESET_DELAY
\* without interruption: a card left on the reader makes one event, however often it
\* fails to answer in between.
OneEventPerPresentation ==
    [][(is_card_present = 0 /\ is_card_present' = 1) => readAge - iterAge >= RESET_DELAY]_vars

\* A barrier that is up comes down, or another object is seen.
BarrierComesDown == (is_servo_open = 1 /\ ~ near) ~> (is_servo_open = 0 \/ near)

\* A reader that is not read again accepts a new card.
ReaderRearms == is_card_present = 1 ~> (is_card_present = 0 \/ readAge < RESET_DELAY)
=============================================================================
