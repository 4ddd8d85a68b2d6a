-------------------------------- MODULE Gcode --------------------------------
(***************************************************************************)
(* What a line of G-code makes of the state that outlives it: coordinates, *)
(* units, speed and laser settings in gcode.c, the position of the planner *)
(* and the jobs it queues.  A command is one step here; module Machine has *)
(* the waits within a command.  Lengths are in um, numbers in thousandths. *)
(***************************************************************************)
EXTENDS Integers, Sequences

CONSTANTS
  Commands,      \* [op, words]: words maps the letters seen to numbers
  Bare,          \* the value of a letter without a number
  XYSteps, XYLength,  \* XYSteps steps in XYLength um: XY_AXIS_STEPS_PER_M in 10^6
  ZSteps, ZLength,    \* the same for Z_AXIS_STEPS_PER_M
  kHz,           \* F_CPU / 1000
  MIN_SPEED, MAX_SPEED, \* DEFAULT_MIN_SPEED, and 8000 steps a second, in um/s
  HomePos,       \* X_HOME_POS, Y_HOME_POS
  IntRange,      \* 2^16: an int, the argument of abs
  LongRange,     \* 2^32: a uint32_t
  Rounds,        \* 32: half the bits of a uint64_t
  Reach,         \* bound on the length of a move and on the radius of an arc, in um
  Unknown,       \* quotients that a division by zero may yield
  MaxCommands    \* bound on the commands of a behaviour

Axes == {"X", "Y", "Z"}

ASSUME RatioAssumption == /\ XYSteps \in Nat \ {0} /\ XYLength \in Nat \ {0}
                          /\ ZSteps \in Nat \ {0} /\ ZLength \in Nat \ {0}
ASSUME SpeedAssumption == /\ kHz \in Nat \ {0} /\ MIN_SPEED \in Nat \ {0}
                          /\ MAX_SPEED \in Nat /\ MIN_SPEED <= MAX_SPEED
ASSUME WordAssumption  == /\ Bare \notin Int /\ IntRange \in Nat \ {0}
                          /\ LongRange \in Nat \ {0} /\ Rounds \in Nat \ {0}
                          /\ Unknown \subseteq Int
                          /\ HomePos \in [{"X", "Y"} -> Int]
ASSUME CommandAssumption ==
  \A c \in Commands : \A l \in DOMAIN c.words : c.words[l] \in Int \cup {Bare}

VARIABLES
  destination, relative_mode, coords_in_inch, speed,  \* G
  laser,              \* [mode, modulation, power, ppm, us, pulses]
  target, position,   \* PL
  queued,             \* the blocks of the last command
  command,            \* the last command
  wanted,             \* where it was told to go, in fifths of a um
  inches,             \* inches in that sum
  sent                \* commands so far

told_vars == <<command, wanted, inches, sent>>
vars == <<destination, relative_mode, coords_in_inch, speed, laser, target,
          position, queued, told_vars>>
-----------------------------------------------------------------------------
(* Arithmetic of the firmware: division towards zero, roots, conversions. *)

max(a, b) == IF a > b THEN a ELSE b
min(a, b) == IF a < b THEN a ELSE b
labs(a)   == IF a < 0 THEN -a ELSE a
Quotient(a, b) == IF a >= 0 THEN a \div b ELSE -((-a) \div b)

(* _sqrt_u64: Rounds rounds, from the highest power of four in a word on.  *)
(* A negative argument is close to 2^64, and the low 32 bits of its root   *)
(* read as a negative int.                                                 *)
Bit[k \in 0 .. Rounds - 1] == IF k = 0 THEN 1 ELSE 4 * Bit[k - 1]

RootRound(s) ==
  [bit |-> s.bit \div 4,
   num |-> IF s.num >= s.res + s.bit THEN s.num - (s.res + s.bit) ELSE s.num,
   res |-> IF s.num >= s.res + s.bit THEN s.res \div 2 + s.bit ELSE s.res \div 2]

_sqrt_u64(n) ==
  LET loop[k \in 0 .. Rounds] ==
        IF k = 0 THEN [bit |-> Bit[Rounds - 1], num |-> n, res |-> 0] ELSE RootRound(loop[k - 1])
  IN  IF n < 0 THEN -1 ELSE loop[Rounds].res

length2(x, y) == _sqrt_u64(x * x + y * y)

position2steps(a, x) ==
  IF a = "Z" THEN Quotient(x * ZSteps + ZLength \div 2, ZLength)
  ELSE Quotient(x * XYSteps + XYLength \div 2, XYLength)
steps2position(s) == Quotient(s * XYLength + XYSteps \div 2, XYSteps)

Steps(p) == [a \in Axes |-> position2steps(a, p[a])]

(* abs takes an int. *)
abs(n) == LET i == n % IntRange IN IF 2 * i >= IntRange THEN IntRange - i ELSE i
-----------------------------------------------------------------------------
(* The words of a line. *)

got(c, l)     == l \in DOMAIN c.words /\ c.words[l] # Bare
Number(c, l)  == IF got(c, l) THEN c.words[l] ELSE 0
Integer(c, l) == Quotient(Number(c, l), 1000)

get_coord(c, l) ==
  IF coords_in_inch THEN Quotient(127 * Number(c, l), 5) ELSE Number(c, l)

(* The word Z has the number of X. *)
CoordinateLetter(a) == IF a = "Z" THEN "X" ELSE a

get_coordinates(c) ==
  [a \in Axes |->
     IF ~got(c, a) THEN destination[a]
     ELSE get_coord(c, CoordinateLetter(a)) + (IF relative_mode THEN destination[a] ELSE 0)]

NewSpeed(c) ==
  IF Number(c, "F") <= 0 THEN speed
  ELSE min(max(Quotient(Number(c, "F") + 30, 60), MIN_SPEED), MAX_SPEED)
-----------------------------------------------------------------------------
(* Laser settings: the words S, L, P, C and B, in this order, and Q. *)

OFF == 0
CW == 1
PULSE == 2
MODULATE == 4
UInt24 == 16777216
Depths == {1, 2, 3, 4, 6, 8}

laser_set_mode(l, mode) ==
  LET m == mode % 256 IN IF m < 8 THEN [l EXCEPT !.mode = m] ELSE l
Modulated(mode) == IF mode < MODULATE THEN mode + MODULATE ELSE mode

AfterS(c, l) ==
  IF ~got(c, "S") THEN l
  ELSE [l EXCEPT !.power = min(1000, max(0, Quotient(Number(c, "S"), 100))), !.mode = CW]
AfterL(c, l) ==
  IF ~got(c, "L") THEN l
  ELSE [l EXCEPT !.us = labs(Number(c, "L")) % UInt24, !.mode = PULSE]
AfterP(c, l) ==
  IF ~got(c, "P") THEN l
  ELSE [l EXCEPT !.ppm = Number(c, "P") % UInt24, !.mode = PULSE]
AfterC(c, l) ==
  IF ~got(c, "C") THEN l
  ELSE IF Integer(c, "C") \in Depths
       THEN [l EXCEPT !.mode = Modulated(@), !.modulation = Integer(c, "C") - 1]
       ELSE [l EXCEPT !.mode = OFF]
AfterB(c, l) == IF ~got(c, "B") THEN l ELSE laser_set_mode(l, Integer(c, "B"))

(* Mutant of handle_laser_opts: an old Q stays. *)
laser_optsKeepingPulses(c, l) ==
  [AfterB(c, AfterC(c, AfterP(c, AfterL(c, AfterS(c, l)))))
     EXCEPT !.pulses = IF got(c, "Q") THEN Integer(c, "Q") % LongRange ELSE @]

handle_laser_opts(c, l) ==
  [AfterB(c, AfterC(c, AfterP(c, AfterL(c, AfterS(c, l)))))
     EXCEPT !.pulses = IF got(c, "Q") THEN Integer(c, "Q") % LongRange ELSE 0]
-----------------------------------------------------------------------------
(* The planner.  A line without a step in X and Y divides by zero. *)

Cycles(um, rate) ==  \* F_CPU * um \div rate
  1000 * ((kHz * um) \div rate) + (1000 * ((kHz * um) % rate)) \div rate
Pace(um, rate, steps) == IF steps = 0 THEN Unknown ELSE {Cycles(um, rate) \div steps}

(* Mutant of LineLength: the longer leg for the length. *)
LineLengthOfMajor(p, t) ==
  steps2position(max(labs(p["X"] - t["X"]), labs(p["Y"] - t["Y"])))

LineLength(p, t) ==
  length2(steps2position(p["X"] - t["X"]), steps2position(p["Y"] - t["Y"]))

Line(p, t) ==
  [steps |-> [a \in Axes |-> abs(t[a] - p[a])], down |-> {a \in Axes : p[a] > t[a]}]
Ticks(p, t, rate) ==
  {n % 65536 : n \in Pace(LineLength(p, t), rate,
                          max(Line(p, t).steps["X"], Line(p, t).steps["Y"]))}

MoveBlocks(p, t, rate) ==
  {[job |-> "MOVE_TO", line |-> Line(p, t), ticks |-> n, mode |-> OFF] :
     n \in Ticks(p, t, rate + 1)}

LaserSteps(l, um) ==
  (IF l.pulses # 0 THEN l.pulses ELSE ((um * l.ppm) % LongRange) \div 1000000) % UInt24
LineBlocks(p, t, rate, l) ==
  {[job |-> "LINE", line |-> Line(p, t), ticks |-> n, mode |-> l.mode, modulation |-> l.modulation,
    power |-> l.power, us |-> l.us, pulses |-> LaserSteps(l, LineLength(p, t))] :
     n \in Ticks(p, t, rate)}

(* Where an arc starts and ends, seen from its centre.  Module Arc counts  *)
(* its steps, and its pulses unless there is a Q.                          *)
ArcBlock(p, t, centre, rate, l, ccw) ==
  [job |-> "ARC", ccw |-> ccw,
   from |-> [a \in {"X", "Y"} |-> p[a] - centre[a]],
   to   |-> [a \in {"X", "Y"} |-> t[a] - centre[a]],
   ticks |-> (Cycles(XYLength, rate) \div XYSteps) % 65536,
   mode |-> l.mode, modulation |-> l.modulation, power |-> l.power, us |-> l.us,
   pulses |-> l.pulses]
HomeBlock(t, axes) ==
  [job |-> IF axes = {} THEN "HOME_REF" ELSE "HOME", pos |-> t,
   axes |-> IF axes = {} THEN Axes ELSE axes, ticks |-> 8000]
-----------------------------------------------------------------------------
(* get_arc_coordinates: the centres it may find, none if it refuses. *)

(* I and J are relative to where the arc starts. *)
GivenCentre(c) ==
  [a \in {"X", "Y"} |->
     destination[a] + (LET l == IF a = "X" THEN "I" ELSE "J"
                       IN  IF got(c, l) THEN get_coord(c, l) ELSE 0)]

Over(n, d) == IF d = 0 THEN Unknown ELSE {Quotient(n, d)}

(* Mutant of Negate: the sign of the radius does not count. *)
NegateCcw(ccw, R) == ccw
Negate(ccw, R) == (ccw /\ R > 0) \/ (~ccw /\ R < 0)

(* R: the third corner over the chord from `destination' to d; `h' high. *)
ChordCentres(c, d, ccw) ==
  LET R    == get_coord(c, "R")
      dx   == d["X"] - destination["X"]
      dy   == d["Y"] - destination["Y"]
      dist == length2(dx, dy)
      h    == _sqrt_u64(R * R - (dist * dist) \div 4)
      side(n) == IF Negate(ccw, R) THEN -n ELSE n
  IN  IF h < 0 THEN {}
      ELSE {[X |-> side(u) + Quotient(2 * d["X"] - dx, 2),
             Y |-> side(v) + Quotient(2 * d["Y"] - dy, 2)] :
              u \in Over(dy * h, dist), v \in Over((-dx) * h, dist)}

ArcCentres(c, d, ccw) ==
  IF got(c, "I") \/ got(c, "J") THEN {GivenCentre(c)}
  ELSE IF got(c, "R") THEN ChordCentres(c, d, ccw)
  ELSE {}
-----------------------------------------------------------------------------
(* The commands. *)

WithinReach(c) ==
  LET d == get_coordinates(c)
  IN  labs(d["X"] - destination["X"]) + labs(d["Y"] - destination["Y"]) <= Reach
      /\ \A l \in {"I", "J", "R"} : labs(get_coord(c, l)) <= Reach
Is(c, op) == c.op = op /\ sent < MaxCommands /\ WithinReach(c)

(* What the host meant: the same sums without rounding; homing and G92     *)
(* name a new origin.                                                      *)
Told(c) ==
  /\ command' = c /\ sent' = sent + 1
  /\ wanted' = [a \in Axes |->
       IF ~got(c, a) THEN wanted[a]
       ELSE (IF coords_in_inch THEN 127 ELSE 5) * Number(c, a)
            + (IF relative_mode THEN wanted[a] ELSE 0)]
  /\ inches' = [a \in Axes |->
       IF ~got(c, a) THEN inches[a]
       ELSE (IF coords_in_inch THEN 1 ELSE 0) + (IF relative_mode THEN inches[a] ELSE 0)]
ToldOrigin(c, d) ==
  /\ command' = c /\ sent' = sent + 1
  /\ wanted' = [a \in Axes |-> 5 * d[a]] /\ inches' = [a \in Axes |-> 0]
ToldOther(c) == command' = c /\ sent' = sent + 1 /\ UNCHANGED <<wanted, inches>>

SetSpeed(c) == speed' = NewSpeed(c)
(* Mutant of Aim: adds rounded differences. *)
AimByDifference(d) ==
  /\ destination' = d
  /\ target' = [a \in Axes |-> target[a] + position2steps(a, d[a] - destination[a])]
Aim(d) ==
  destination' = d /\ target' = Steps(d)
KeepAim == UNCHANGED <<destination, target>>
KeepModes == UNCHANGED <<relative_mode, coords_in_inch>>

(* planner_move and planner_line *)
MoveTo(t) == queued' \in {<<b>> : b \in MoveBlocks(position, t, speed')} /\ position' = t
LineTo(t) == queued' \in {<<b>> : b \in LineBlocks(position, t, speed', laser')} /\ position' = t

G0(c) ==
  /\ Is(c, "G0") /\ SetSpeed(c) /\ Told(c)
  /\ Aim(get_coordinates(c)) /\ MoveTo(target')
  /\ KeepModes /\ UNCHANGED laser

G1(c) ==
  /\ Is(c, "G1") /\ SetSpeed(c) /\ Told(c)
  /\ Aim(get_coordinates(c))
  /\ laser' = handle_laser_opts(c, laser)
  /\ LineTo(target')
  /\ KeepModes

(* planner_arc: an arc in X and Y, and then a move in Z. *)
ArcTo(t, centre, ccw) ==
  LET arc == ArcBlock(position, t, [a \in {"X", "Y"} |-> position2steps(a, centre[a])],
                      speed', laser', ccw)
      there == [t EXCEPT !["Z"] = position["Z"]]
  IN  /\ position' = t
      /\ IF there = t THEN queued' = <<arc>>
         ELSE queued' \in {<<arc, b>> : b \in MoveBlocks(there, t, speed')}

Arc(c, ccw) ==
  LET d == get_coordinates(c)
      centres == ArcCentres(c, d, ccw)
  IN  /\ SetSpeed(c) /\ Told(c)
      /\ Aim(d)
      /\ KeepModes
      /\ \/ centres = {} /\ UNCHANGED laser /\ MoveTo(target')
         \/ laser' = handle_laser_opts(c, laser)
            /\ \E centre \in centres : ArcTo(target', centre, ccw)
G2(c) == Is(c, "G2") /\ Arc(c, FALSE)
G3(c) == Is(c, "G3") /\ Arc(c, TRUE)

Units(c) ==
  /\ \/ Is(c, "G20") /\ coords_in_inch' = TRUE /\ UNCHANGED relative_mode
     \/ Is(c, "G21") /\ coords_in_inch' = FALSE /\ UNCHANGED relative_mode
     \/ Is(c, "G90") /\ relative_mode' = FALSE /\ UNCHANGED coords_in_inch
     \/ Is(c, "G91") /\ relative_mode' = TRUE /\ UNCHANGED coords_in_inch
  /\ SetSpeed(c) /\ ToldOther(c) /\ queued' = <<>>
  /\ KeepAim /\ UNCHANGED <<laser, position>>

(* Axes that G28 homes: those seen, with or without a number, or all; Z has *)
(* no switch.                                                              *)
Homed(c) == (IF DOMAIN c.words \cap Axes = {} THEN Axes ELSE DOMAIN c.words) \cap {"X", "Y"}

HomeCoordinates(c) ==
  [a \in Axes |-> IF a \notin Homed(c) THEN destination[a]
                  ELSE IF got(c, a) THEN Number(c, a) ELSE HomePos[a]]

G28(c) ==
  /\ Is(c, "G28") /\ SetSpeed(c)
  /\ coords_in_inch' = FALSE /\ relative_mode' = FALSE
  /\ UNCHANGED laser
  /\ IF Homed(c) = {}
     THEN KeepAim /\ UNCHANGED position /\ queued' = <<>> /\ ToldOther(c)
     ELSE /\ Aim(HomeCoordinates(c)) /\ ToldOrigin(c, destination')
          /\ position' = target' /\ queued' = <<HomeBlock(target', Homed(c))>>

G92(c) ==
  /\ Is(c, "G92") /\ SetSpeed(c)
  /\ Aim([a \in Axes |-> IF got(c, a) THEN Number(c, a) ELSE destination[a]])
  /\ ToldOrigin(c, destination')
  /\ position' = target' /\ queued' = <<HomeBlock(target', {})>>
  /\ KeepModes /\ UNCHANGED laser

(* M2, M3 and M5 end with a move to where the planner is. *)
M2(c) == Is(c, "M2") /\ laser' = laser_set_mode(laser, OFF)
M3(c) ==
  /\ Is(c, "M3")
  /\ LET l == handle_laser_opts(c, laser)
     IN  laser' = IF l.mode = OFF THEN laser_set_mode(l, CW) ELSE l
(* Mutant of M5: stays off. *)
M5Off(c) == Is(c, "M5") /\ laser' = laser_set_mode(laser, OFF)
M5(c) ==  \* OFF for the move, and back
  /\ Is(c, "M5")
  /\ laser' = laser_set_mode(laser_set_mode(laser, OFF), laser.mode)
Tool(c) ==
  /\ M2(c) \/ M3(c) \/ M5(c)
  /\ SetSpeed(c) /\ ToldOther(c) /\ MoveTo(target)
  /\ KeepAim /\ KeepModes

M649(c) ==
  /\ Is(c, "M649") /\ SetSpeed(c) /\ ToldOther(c)
  /\ laser' = handle_laser_opts(c, laser) /\ queued' = <<>>
  /\ KeepAim /\ KeepModes /\ UNCHANGED position

(* Any other command, also G4 and M400, which wait (module Machine). *)
Other(c) ==
  /\ Is(c, "other") /\ SetSpeed(c) /\ ToldOther(c) /\ queued' = <<>>
  /\ KeepAim /\ KeepModes /\ UNCHANGED <<laser, position>>

process_command(c) ==
  \/ G0(c) \/ G1(c) \/ G2(c) \/ G3(c) \/ Units(c) \/ G28(c) \/ G92(c)
  \/ Tool(c) \/ M649(c) \/ Other(c)

Next == \E c \in Commands : process_command(c)

(* parser_init has executed F300 and G28. *)
Init ==
  /\ command = [op |-> "G28", words |-> <<>>]
  /\ destination = [a \in Axes |-> IF a = "Z" THEN 0 ELSE HomePos[a]]
  /\ relative_mode = FALSE /\ coords_in_inch = FALSE /\ speed = MIN_SPEED
  /\ laser = [mode |-> OFF, modulation |-> 0, power |-> 100, ppm |-> 1, us |-> 1000, pulses |-> 0]
  /\ target = Steps(destination) /\ position = target
  /\ queued = <<HomeBlock(target, {"X", "Y"})>>
  /\ wanted = [a \in Axes |-> 5 * destination[a]] /\ inches = [a \in Axes |-> 0]
  /\ sent = 0

Spec == Init /\ [][Next]_vars
-----------------------------------------------------------------------------
(* Whatever the sequence of moves, arcs, homings and new origins, the      *)
(* planner stands at the steps of G.destination: rounding to steps never   *)
(* adds up (gcode.c:146, planner.c:71, arc.c:395).  And in X and Y         *)
(* relative moves lose less than a um for each coordinate in inches, and   *)
(* nothing in millimetres (gcode.c:105).                                   *)
Near(a) == labs(5 * destination[a] - wanted[a]) <= 4 * inches[a]
NoDrift ==
  /\ target = Steps(destination) /\ position = target
  /\ Near("X") /\ Near("Y")

(* Every axis goes where its word says (gcode.c:113, `evaluate coordinates *)
(* (XYZ)').                                                                *)
GoesAsTold == \A a \in Axes : Near(a)

(* The length in steps that a block covers at the speed set, from the time *)
(* its steps take, is the length of its line, for lines of a millimetre or *)
(* more: roots, conversions and 16 bits of ticks included (planner.c:101). *)
Blocks(jobs) == {queued[i] : i \in {i \in DOMAIN queued : queued[i].job \in jobs}}
Travelled(ticks, major) ==
  (((ticks * major) \div 1000) * (speed \div 10))
    \div (((kHz \div 10) * XYLength) \div XYSteps)
PaceRight ==
  \A b \in Blocks({"MOVE_TO", "LINE"}) :
    LET s == b.line.steps
        major == max(s["X"], s["Y"])
        squared == s["X"] * s["X"] + s["Y"] * s["Y"]
        travelled == Travelled(b.ticks, major)
    IN  major >= 80 => 20 * labs(travelled * travelled - squared) <= squared

(* An arc given by R is drawn around a centre that is R away from both of  *)
(* its ends, and is the smaller arc exactly if R is positive, whatever the *)
(* direction (gcode.c:181-211).                                            *)
ByRadius(c) == got(c, "R") /\ ~got(c, "I") /\ ~got(c, "J")
ArcRight ==
  \A b \in Blocks({"ARC"}) : ByRadius(command) /\ b.from # b.to =>
    LET R == labs(position2steps("X", IF coords_in_inch THEN (127 * Number(command, "R")) \div 5
                                      ELSE Number(command, "R")))
        off(p) == labs(p["X"] * p["X"] + p["Y"] * p["Y"] - R * R)
        turn == b.from["X"] * b.to["Y"] - b.from["Y"] * b.to["X"]
    IN  /\ off(b.from) <= 6 * R + 9 /\ off(b.to) <= 6 * R + 9
        /\ labs(turn) > 6 * R => (turn > 0) = (b.ccw = (Number(command, "R") > 0))

(* A line without Q has as many pulses as fit its own length, whatever an  *)
(* earlier Q asked for, while the product fits 32 bits (planner.c:118).    *)
PulsesAsLong ==
  \A b \in Blocks({"LINE"}) : ~got(command, "Q") =>
    LET um == length2(steps2position(b.line.steps["X"]), steps2position(b.line.steps["Y"]))
    IN  (um + 2) * laser.ppm < LongRange =>
          /\ b.pulses * 1000000 <= (um + 2) * laser.ppm
          /\ (b.pulses + 1) * 1000000 > (um - 2) * laser.ppm

(* Settings stay until a command with words for them, or one that switches *)
(* the tool: M5 is dark for its own move only (gcode.c:573).  Lines and    *)
(* arcs fire with the settings, moves do not fire.                         *)
Settings(l) == [l EXCEPT !.pulses = 0]
LaserSticks ==
  [][/\ {"S", "L", "P", "C", "B"} \cap DOMAIN command'.words = {} /\ command'.op \notin {"M2", "M3"}
          => Settings(laser') = Settings(laser)
     /\ \A i \in DOMAIN queued' :
          /\ queued'[i].job = "MOVE_TO" => queued'[i].mode = OFF
          /\ queued'[i].job \in {"LINE", "ARC"} =>
               /\ queued'[i].mode = laser'.mode /\ queued'[i].power = laser'.power
               /\ queued'[i].us = laser'.us]_vars
==============================================================================
