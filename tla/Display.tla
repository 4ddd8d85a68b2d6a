------------------------------- MODULE Display -------------------------------
(***************************************************************************)
(* The text display: an HD44780 behind a 4094 shift register (4094.c,      *)
(* HD44780.c), the printing of numbers (strings.c) and the screen that     *)
(* lcd_update draws (lcd.c).  The firmware only writes to the chip and     *)
(* never sees its state: at power up or after a reset of the firmware      *)
(* alone, the chip may be in eight bit mode, in four bit mode, or between  *)
(* the two nibbles of a byte.                                              *)
(*                                                                         *)
(* Characters are their codes.  The time a command takes is left out: the  *)
(* code waits after each.                                                  *)
(***************************************************************************)
EXTENDS Integers, Sequences

CONSTANTS Stack        \* MIN_SP, what the last line shows

VARIABLES chip,        \* the HD44780 with the outputs of the 4094
          booting      \* nibbles lcd_init has still to write

display_vars == <<chip, booting>>

Addresses == (0 .. 39) \cup (64 .. 103)
Blank == 32
Cleared == [a \in Addresses |-> Blank]

(* The chip as HD44780.h describes it: bits of the bus, the high nibble    *)
(* that waits for its low one (none: -1), the outputs RS and E of the      *)
(* 4094, the cursor, its direction, and the text.                          *)
ChipType ==
  [bits : {4, 8}, high : -1 .. 15, e : BOOLEAN, rs : BOOLEAN,
   ac : 0 .. 127, inc : BOOLEAN, on : BOOLEAN, text : [Addresses -> 0 .. 255]]

Step(a) == CASE a = 39 -> 64 [] a = 103 -> 0 [] OTHER -> a + 1
StepBack(a) == CASE a = 64 -> 39 [] a = 0 -> 103 [] OTHER -> a - 1
Moved(c) == IF c.inc THEN Step(c.ac) ELSE StepBack(c.ac)

(* A command, the highest bit that is set tells which. *)
Command(c, b) ==
  CASE b >= 128 -> [c EXCEPT !.ac = b - 128]
    [] b \in 64 .. 127 -> c
    [] b \in 32 .. 63 -> [c EXCEPT !.bits = IF (b \div 16) % 2 = 1 THEN 8 ELSE 4, !.high = -1]
    [] b \in 16 .. 31 -> c
    [] b \in 8 .. 15 -> [c EXCEPT !.on = (b \div 4) % 2 = 1]
    [] b \in 4 .. 7 -> [c EXCEPT !.inc = (b \div 2) % 2 = 1]
    [] b \in 2 .. 3 -> [c EXCEPT !.ac = 0]
    [] b = 1 -> [c EXCEPT !.ac = 0, !.inc = TRUE, !.text = Cleared]
    [] b = 0 -> c

Data(c, b) ==
  [c EXCEPT !.text = IF c.ac \in Addresses THEN [@ EXCEPT ![c.ac] = b] ELSE @,
            !.ac = Moved(c)]

Byte(c, b) == IF c.rs THEN Data(c, b) ELSE Command(c, b)

(* Data are taken at the falling edge of E: a whole byte in eight bit mode *)
(* (with whatever the open low pins read as), else a nibble.               *)
Fall(c, nibble, open) ==
  CASE c.bits = 8 -> Byte(c, 16 * nibble + open)
    [] c.bits = 4 /\ c.high = -1 -> [c EXCEPT !.high = nibble]
    [] c.bits = 4 /\ c.high # -1 -> [Byte([c EXCEPT !.high = -1], 16 * c.high + nibble) EXCEPT !.high = -1]

(* The 4094 takes a byte bit by bit and shows it at the strobe: data, RW,  *)
(* RS and E change together.                                               *)
LowerE(c, nibble, open) == IF c.e THEN [Fall(c, nibble, open) EXCEPT !.e = FALSE] ELSE c
RaiseE(c, rs) == [c EXCEPT !.e = TRUE, !.rs = rs]

(* lcd_bus_send4 with E low, high and low again. *)
Pulse(c, rs, nibble, open) == LowerE(RaiseE(LowerE(c, nibble, open), rs), nibble, open)

Sent(c, rs, nibbles) ==
  LET send[n \in 1 .. Len(nibbles) + 1, d \in ChipType] ==
        IF n > Len(nibbles) THEN d ELSE send[n + 1, Pulse(d, rs, nibbles[n], 0)]
  IN send[1, c]

Nibbles(bytes) ==
  [i \in 1 .. 2 * Len(bytes) |->
     IF i % 2 = 1 THEN bytes[(i + 1) \div 2] \div 16 ELSE bytes[i \div 2] % 16]

lcd_bus_write_cmd4(c, cmd, open) == Pulse(c, FALSE, cmd, open)
lcd_bus_write_cmd(c, cmd) == Sent(c, FALSE, Nibbles(<<cmd>>))
lcd_bus_write_data(c, text) == Sent(c, TRUE, Nibbles(text))
-----------------------------------------------------------------------------
(* Numbers as text. *)
PowersOfTen == <<1000000000, 100000000, 10000000, 1000000, 100000, 10000, 1000, 100, 10, 1>>
Digit(value, k) == 48 + ((value \div PowersOfTen[k]) % 10)
Digits(value, from, to) == [i \in 1 .. to - from + 1 |-> Digit(value, from + i - 1)]
HighestDigit(value) == CHOOSE k \in 1 .. 10 :
  /\ PowersOfTen[k] <= value
  /\ k > 1 => PowersOfTen[k - 1] > value

_U(value) == IF value = 0 THEN <<48>> ELSE Digits(value, HighestDigit(value), 10)

(* The digits before the point, at least one. *)
Thousands(value) ==
  IF value < 1000 THEN <<48>> ELSE Digits(value, HighestDigit(value), 7)

_N(value) ==
  LET size == IF value < 0 THEN -value ELSE value
      text == IF value = 0 THEN <<48>> ELSE Thousands(size) \o <<46>> \o Digits(size, 8, 10)
  IN IF value < 0 THEN <<45>> \o text ELSE text

Nibble(n) == IF n < 10 THEN 48 + n ELSE 55 + n
_XW(w) == <<Nibble(w \div 4096), Nibble((w \div 256) % 16), Nibble((w \div 16) % 16), Nibble(w % 16)>>
Hex(w) == <<48, 120>> \o _XW(w)
-----------------------------------------------------------------------------
(* Where a line starts in the chip. *)
Line(line) == CASE line = 1 -> 64 [] line = 2 -> 20 [] line = 3 -> 84 [] OTHER -> 0

hd44780_set_cursor(c, line, pos) == lcd_bus_write_cmd(c, 128 + Line(line) + pos)

lcd_print_at(c, y, x, text) == lcd_bus_write_data(hd44780_set_cursor(c, y, x), text)

Blanks(n) == [i \in 1 .. n |-> Blank]
Queue == <<32, 81, 117, 101, 117, 101, 58>>                  \* " Queue:"
LaserOn == <<76, 65, 83, 69, 82, 32, 79, 78, 32>>            \* "LASER ON "
LaserOff == <<108, 97, 115, 101, 114, 32, 79, 70, 70>>       \* "laser OFF"

(* What a screen shows: the mark of the caller, the fill of the queue, the *)
(* time, the three positions and the laser.                                *)
Axis(letter, value) == <<letter, 58>> \o _N(value) \o Blanks(12)
LaserState(mode) == IF mode # 0 THEN LaserOn \o _U(mode) ELSE LaserOff

Prints(v) == <<
  [y |-> 0, x |-> 0, text |-> <<v.mark>> \o Queue \o _U(v.queue) \o <<Blank>> \o _N(v.time) \o <<Blank>>],
  [y |-> 1, x |-> 0, text |-> Axis(88, v.x)],
  [y |-> 2, x |-> 0, text |-> Axis(89, v.y)],
  [y |-> 3, x |-> 0, text |-> Axis(90, v.z)],
  [y |-> 1, x |-> 10, text |-> LaserState(v.mode)],
  [y |-> 2, x |-> 10, text |-> _U(v.mode) \o <<Blank>> \o _U(v.depth) \o <<Blank>> \o _U(v.power) \o <<Blank>>],
  [y |-> 3, x |-> 10, text |-> <<83, 80, 58>> \o Hex(Stack)]>>

lcd_update(c, v) ==
  LET prints == Prints(v)
      draw[n \in 1 .. Len(prints) + 1, d \in ChipType] ==
        IF n > Len(prints) THEN d
        ELSE draw[n + 1, lcd_print_at(d, prints[n].y, prints[n].x, prints[n].text)]
  IN draw[1, c]
-----------------------------------------------------------------------------
(* Mutant of Wakeup: eight bit mode asked for once only. *)
WakeupOnce == <<3, 2>>

(* Nibbles of hd44780_init: three times eight bit mode, then four bit      *)
(* mode; two lines, display on, clear, cursor moves right.                 *)
Wakeup == <<3, 3, 3, 2>>
hd44780_init == Wakeup \o <<2, 8>> \o <<0, 12>> \o <<0, 1>> \o <<0, 6>>

lcd_clear == <<0, 1>>

Bus == -1    \* lcd_bus_init among the nibbles

lcd_bus_init(c, open) == LowerE(c, 0, open)

Init ==
  /\ chip \in {[bits |-> b, high |-> h, e |-> e, rs |-> rs, ac |-> 64, inc |-> FALSE, on |-> FALSE,
                text |-> [a \in Addresses |-> 0]] : b \in {4, 8}, h \in -1 .. 15, e, rs \in BOOLEAN}
  /\ chip.bits = 8 => chip.high = -1
  /\ booting = <<Bus>> \o hd44780_init \o <<Bus>> \o hd44780_init \o lcd_clear

DisplayReady ==
  /\ chip = [bits |-> 4, high |-> -1, e |-> FALSE, rs |-> FALSE, ac |-> 0, inc |-> TRUE, on |-> TRUE,
             text |-> Cleared]
  /\ booting = <<>>

(* The next nibble of lcd_init. *)
BootStep ==
  /\ booting # <<>>
  /\ booting' = Tail(booting)
  /\ \E open \in {0, 15} :
       chip' = IF Head(booting) = Bus THEN lcd_bus_init(chip, open)
               ELSE lcd_bus_write_cmd4(chip, Head(booting), open)

Draw(v) ==
  /\ booting = <<>>
  /\ chip' = lcd_update(chip, v)
  /\ UNCHANGED booting
=============================================================================
