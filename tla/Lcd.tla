--------------------------------- MODULE Lcd ---------------------------------
(****************************************************************************)
(* The display driver, stm32/Core/Src/clcd.c.  Every call is a sequence of  *)
(* changes to the shadow byte lcdData, each written to the I2C expander;    *)
(* the display takes the four data bits when E falls.  A write to the       *)
(* expander can fail, which the driver does not look at.                    *)
(*                                                                          *)
(* The display (HD44780) is external.  Of its commands, only those that     *)
(* tell when a text is where it belongs are modelled: function set, clear,  *)
(* and the address.                                                         *)
(****************************************************************************)
EXTENDS Integers, Sequences, SequencesExt

CONSTANTS
    Width,      \* columns of a row that are followed
    Rows, Cols, \* positions a caller passes
    Texts,      \* texts it passes, sequences of character codes
    MaxCalls,   \* bound: texts written
    MaxFails,   \* bound: writes to the expander that fail
    MaxResets   \* bound: resets of the controller, which leave the display as it is

ASSUME LcdAssumption ==
    /\ Width \in 1 .. 16 /\ Rows \subseteq Nat /\ Cols \subseteq Nat
    /\ Texts \subseteq Seq(0 .. 255)
    /\ \A c \in Cols, s \in Texts : (c % 16) + Len(s) <= 40     \* the addresses of a row
    /\ MaxCalls \in Nat /\ MaxFails \in Nat /\ MaxResets \in Nat

Nibble == 0 .. 15
Pins   == [rs : {0, 1}, rw : {0, 1}, e : {0, 1}, bl : {0, 1}, data : Nibble]
Cells  == {64 * r + c : r \in {0, 1}, c \in 0 .. Width - 1}
NoHalf == -1

VARIABLES
    lcdData,
    todo,       \* the changes of lcdData still to come in the current call
    port,       \* the pins of the expander
    bits,       \* the display's interface: 8 or 4 bits
    half,       \* the first half of a byte, or NoHalf
    ddram, ac,  \* its memory, and the address of the next character
    text,       \* history: the characters that should be there since the last clear
    clean,      \* history: no write has failed since LCD_init was called
    ready,      \* LCD_init has been called since the last reset
    calls, fails, resets

driver  == <<lcdData, todo, ready>>
display == <<bits, half, ddram, ac>>
bounds  == <<calls, fails, resets>>
vars    == <<driver, port, display, text, clean, bounds>>

TypeOK ==
    /\ lcdData \in Pins /\ port \in Pins
    /\ bits \in {4, 8} /\ half \in Nibble \cup {NoHalf}
    /\ ddram \in [Cells -> 0 .. 255] /\ ac \in 0 .. 127 /\ text \in [Cells -> 0 .. 255]
    /\ clean \in BOOLEAN /\ ready \in BOOLEAN

Zero  == [rs |-> 0, rw |-> 0, e |-> 0, bl |-> 0, data |-> 0]
Blank == [a \in Cells |-> 32]

\* The display is in whatever state it was left in.
Init ==
    /\ lcdData = Zero /\ todo = <<>> /\ ready = FALSE
    /\ port \in {Zero, [Zero EXCEPT !.e = 1, !.data = 3]}
    /\ bits \in {4, 8} /\ half \in Nibble \cup {NoHalf}
    /\ ddram = [a \in Cells |-> 0] /\ ac = 0
    /\ text = Blank /\ clean = TRUE
    /\ calls = 0 /\ fails = 0 /\ resets = 0

-----------------------------------------------------------------------------
(* The driver's calls, as changes <<pin, value>> of lcdData. *)

LCD_cmdMode     == <<<<"rs", 0>>>>
LCD_charMode    == <<<<"rs", 1>>>>
LCD_writeMode   == <<<<"rw", 0>>>>
LCD_backLightOn == <<<<"bl", 1>>>>

LCD_sendData(n) == <<<<"e", 1>>, <<"data", n>>, <<"e", 0>>>>

LCD_sendByte(b) == LCD_sendData(b \div 16) \o LCD_sendData(b % 16)

LCD_writeCmdData(b)  == LCD_cmdMode \o LCD_writeMode \o LCD_sendByte(b)
LCD_writeCharData(b) == LCD_charMode \o LCD_writeMode \o LCD_sendByte(b)

\* Mutant: the display is told once that its interface has 8 bits.
Wake_Once == LCD_sendData(3)

\* Three times, whatever state it is in.
Wake == LCD_sendData(3) \o LCD_sendData(3) \o LCD_sendData(3)

LCD_init ==
    LCD_cmdMode \o LCD_writeMode \o Wake \o LCD_sendData(2)
        \o LCD_sendByte(40) \o LCD_sendByte(8) \o LCD_sendByte(1) \o LCD_sendByte(6) \o LCD_sendByte(12)
        \o LCD_backLightOn

LCD_gotoXY(r, c) == LCD_writeCmdData(128 + 64 * (r % 2) + (c % 16))

LCD_writeString(s) == FlattenSeq([k \in DOMAIN s |-> LCD_writeCharData(s[k])])

LCD_writeStringXY(r, c, s) == LCD_gotoXY(r, c) \o LCD_writeString(s)

-----------------------------------------------------------------------------
(* The display. *)

\* A byte: an address, a clear, the width of the interface, or a character.
Takes(rs, b) ==
    CASE rs = 1 -> /\ ddram' = IF ac \in Cells THEN [ddram EXCEPT ![ac] = b] ELSE ddram
                   /\ ac' = (ac + 1) % 128 /\ bits' = bits
      [] rs = 0 /\ b >= 128 -> ac' = b - 128 /\ UNCHANGED <<ddram, bits>>
      [] rs = 0 /\ b \in 32 .. 63 -> bits' = (IF b >= 48 THEN 8 ELSE 4) /\ UNCHANGED <<ddram, ac>>
      [] rs = 0 /\ b = 1 -> ddram' = Blank /\ ac' = 0 /\ bits' = bits
      [] OTHER -> UNCHANGED <<ddram, ac, bits>>

\* The four bits, when E falls.
Latches(rs, n) ==
    IF bits = 8 THEN Takes(rs, 16 * n) /\ half' = NoHalf
    ELSE IF half = NoHalf THEN half' = n /\ UNCHANGED <<bits, ddram, ac>>
    ELSE Takes(rs, 16 * half + n) /\ half' = NoHalf

\* The expander's pins become p.  Pins that change while E falls are read as before or
\* after.
Drives(p) ==
    /\ port' = p
    /\ IF port.e = 1 /\ p.e = 0
       THEN \E q \in {port, p} : Latches(q.rs, q.data)
       ELSE UNCHANGED display

-----------------------------------------------------------------------------
(* The controller. *)

Calls(changes) == todo' = changes /\ UNCHANGED <<lcdData, port, display, fails, resets>>

Initialises ==
    /\ todo = <<>> /\ ~ ready /\ ready' = TRUE
    /\ Calls(LCD_init)
    /\ text' = Blank /\ clean' = TRUE
    /\ UNCHANGED calls

Writes ==
    /\ todo = <<>> /\ ready /\ calls < MaxCalls /\ calls' = calls + 1
    /\ \E r \in Rows, c \in Cols, s \in Texts :
        /\ Calls(LCD_writeStringXY(r, c, s))
        /\ text' = [a \in Cells |->
                        LET k == a - (64 * (r % 2) + (c % 16)) + 1
                        IN  IF k \in DOMAIN s THEN s[k] ELSE text[a]]
    /\ UNCHANGED <<ready, clean>>

Changed == [lcdData EXCEPT ![Head(todo)[1]] = Head(todo)[2]]

\* LCD_sendDataToInterface: the expander takes the byte or not.
SendsToInterface ==
    /\ todo # <<>> /\ todo' = Tail(todo)
    /\ lcdData' = Changed
    /\ \/ Drives(lcdData') /\ UNCHANGED <<clean, fails>>
       \/ /\ fails < MaxFails /\ fails' = fails + 1
          /\ clean' = FALSE /\ UNCHANGED <<port, display>>
    /\ UNCHANGED <<ready, text, calls, resets>>

Resets ==
    /\ resets < MaxResets /\ resets' = resets + 1
    /\ lcdData' = Zero /\ todo' = <<>> /\ ready' = FALSE
    /\ UNCHANGED <<port, display, text, clean, calls, fails>>

Next == Initialises \/ Writes \/ SendsToInterface \/ Resets

Spec == Init /\ [][Next]_vars

-----------------------------------------------------------------------------
(* Properties. *)

\* Whatever state the display was left in, by a reset in the middle of a byte or by lost
\* writes, LCD_init brings it into step, and every text after it is where it belongs, as
\* long as no write fails.
ShowsText ==
    ready /\ clean /\ todo = <<>> => bits = 4 /\ half = NoHalf /\ ddram = text /\ port.bl = 1
=============================================================================
