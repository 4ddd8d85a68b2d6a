---------------------------- MODULE GcodeProofs -----------------------------
(***************************************************************************)
(* What sequences of commands do to coordinates and laser settings, for    *)
(* every set of commands, every resolution of the axes and every length of *)
(* a job; the integer arithmetic that lengths are computed with; and, on   *)
(* the scales of the machine, how fast a line is drawn.                    *)
(***************************************************************************)
EXTENDS Gcode, WellFoundedInduction, TLAPS

(* The coordinates alone: what NoDrift needs to know of types. *)
Coordinates ==
  /\ destination \in [Axes -> Int]
  /\ relative_mode \in BOOLEAN /\ coords_in_inch \in BOOLEAN
  /\ wanted \in [Axes -> Int] /\ inches \in [Axes -> Nat]

(* Steps depends on the position alone, so that it stays near what was     *)
(* wanted if each coordinate does.                                         *)
DriftInv == Coordinates /\ NoDrift

(* An inch is 127/5 um: the quotient loses less than one of its fifths.    *)
LEMMA FifthsRounded ==
  ASSUME NEW m \in Int
  PROVE  Quotient(m, 5) \in Int /\ labs(5 * Quotient(m, 5) - m) <= 4
<1>1. CASE m >= 0
  BY <1>1 DEF Quotient, labs
<1>2. CASE m < 0
  <2> DEFINE k == -m
             g == k \div 5
  <2>1. k \in Nat /\ m = -k
    BY <1>2
  <2>2. g \in Nat /\ 5 * g <= k /\ k < 5 * g + 5
    BY <2>1
  <2>3. Quotient(m, 5) = -g
    BY <1>2 DEF Quotient
  <2> HIDE DEF k, g
  <2>4. 5 * Quotient(m, 5) - m = k - 5 * g
    BY <2>1, <2>2, <2>3
  <2> QED
    BY <2>1, <2>2, <2>3, <2>4 DEF labs
<1> QED
  BY <1>1, <1>2

(* A coordinate moves with what was wanted of it, at most 4/5 of a um      *)
(* further for each word in inches.                                        *)
LEMMA SumsNear ==
  ASSUME NEW d \in Int, NEW w \in Int, NEW i \in Nat,
         NEW e \in Int, NEW v \in Int, NEW j \in Nat,
         labs(5 * d - w) <= 4 * i, labs(5 * e - v) <= 4 * j
  PROVE  labs(5 * (e + d) - (v + w)) <= 4 * (j + i)
BY DEF labs

LEMMA WordTyped ==
  ASSUME NEW c \in Commands, NEW l
  PROVE  /\ Number(c, l) \in Int
         /\ got(c, l) \in BOOLEAN
         /\ got(c, l) => c.words[l] \in Int
BY CommandAssumption DEF Number, got

LEMMA CoordinateNear ==
  ASSUME Coordinates, NEW c \in Commands, NEW l
  PROVE  /\ get_coord(c, l) \in Int
         /\ (IF coords_in_inch THEN 127 ELSE 5) * Number(c, l) \in Int
         /\ labs(5 * get_coord(c, l) - (IF coords_in_inch THEN 127 ELSE 5) * Number(c, l))
              <= 4 * (IF coords_in_inch THEN 1 ELSE 0)
<1>1. Number(c, l) \in Int
  BY WordTyped
<1>2. CASE coords_in_inch
  <2> DEFINE m == 127 * Number(c, l)
  <2>1. m \in Int
    BY <1>1
  <2>2. get_coord(c, l) = Quotient(m, 5)
    BY <1>2 DEF get_coord
  <2>3. (IF coords_in_inch THEN 127 ELSE 5) * Number(c, l) = m
    BY <1>2
  <2> HIDE DEF m
  <2> QED
    BY <1>2, <2>1, <2>2, <2>3, FifthsRounded
<1>3. CASE ~coords_in_inch
  BY <1>1, <1>3 DEF get_coord, labs
<1> QED
  BY <1>2, <1>3

LEMMA MoveNear ==
  ASSUME DriftInv, NEW c \in Commands, Told(c), destination' = get_coordinates(c)
  PROVE  /\ destination' \in [Axes -> Int] /\ wanted' \in [Axes -> Int]
         /\ inches' \in [Axes -> Nat]
         /\ Near("X")' /\ Near("Y")'
<1> DEFINE unit == IF coords_in_inch THEN 127 ELSE 5
           inch == IF coords_in_inch THEN 1 ELSE 0
<1>1. /\ destination \in [Axes -> Int] /\ wanted \in [Axes -> Int] /\ inches \in [Axes -> Nat]
      /\ relative_mode \in BOOLEAN /\ coords_in_inch \in BOOLEAN
      /\ Near("X") /\ Near("Y")
  BY DEF DriftInv, Coordinates, NoDrift
<1>2. \A l : /\ get_coord(c, l) \in Int /\ unit * Number(c, l) \in Int
             /\ labs(5 * get_coord(c, l) - unit * Number(c, l)) <= 4 * inch
  BY CoordinateNear DEF DriftInv
<1>3. inch \in Nat
  OBVIOUS
<1> HIDE DEF unit, inch
<1>4. \A a \in Axes :
        destination'[a] = IF ~got(c, a) THEN destination[a]
                          ELSE get_coord(c, CoordinateLetter(a))
                                 + (IF relative_mode THEN destination[a] ELSE 0)
  BY DEF get_coordinates
<1>5. \A a \in Axes :
        /\ wanted'[a] = IF ~got(c, a) THEN wanted[a]
                        ELSE unit * Number(c, a) + (IF relative_mode THEN wanted[a] ELSE 0)
        /\ inches'[a] = IF ~got(c, a) THEN inches[a]
                        ELSE inch + (IF relative_mode THEN inches[a] ELSE 0)
  BY DEF Told, unit, inch
<1>6. destination' \in [Axes -> Int]
  <2>1. destination' = [a \in Axes |-> destination'[a]]
    BY DEF get_coordinates
  <2>2. \A a \in Axes : destination'[a] \in Int
    BY <1>1, <1>2, <1>4
  <2> QED
    BY <2>1, <2>2
<1>7. wanted' \in [Axes -> Int] /\ inches' \in [Axes -> Nat]
  <2>1. wanted' = [a \in Axes |-> wanted'[a]] /\ inches' = [a \in Axes |-> inches'[a]]
    BY DEF Told
  <2>2. \A a \in Axes : wanted'[a] \in Int /\ inches'[a] \in Nat
    BY <1>1, <1>2, <1>3, <1>5
  <2> QED
    BY <2>1, <2>2
<1>8. ASSUME NEW a \in {"X", "Y"} PROVE Near(a)'
  <2>1. a \in Axes /\ CoordinateLetter(a) = a
    BY DEF Axes, CoordinateLetter
  <2>2. /\ destination[a] \in Int /\ wanted[a] \in Int /\ inches[a] \in Nat
        /\ labs(5 * destination[a] - wanted[a]) <= 4 * inches[a]
    BY <1>1, <2>1 DEF Near
  <2>3. CASE ~got(c, a)
    BY <1>4, <1>5, <2>1, <2>2, <2>3 DEF Near
  <2>4. CASE got(c, a) /\ ~relative_mode
    <3>1. /\ destination'[a] = get_coord(c, a) + 0
          /\ wanted'[a] = unit * Number(c, a) + 0
          /\ inches'[a] = inch + 0
      BY <1>4, <1>5, <2>1, <2>4
    <3>2. destination'[a] = get_coord(c, a) /\ wanted'[a] = unit * Number(c, a) /\ inches'[a] = inch
      BY <1>2, <1>3, <3>1
    <3> QED
      BY <1>2, <3>2 DEF Near
  <2>5. CASE got(c, a) /\ relative_mode
    <3>1. /\ destination'[a] = get_coord(c, a) + destination[a]
          /\ wanted'[a] = unit * Number(c, a) + wanted[a]
          /\ inches'[a] = inch + inches[a]
      BY <1>4, <1>5, <2>1, <2>5
    <3>2. labs(5 * destination'[a] - wanted'[a]) <= 4 * inches'[a]
      BY <1>2, <1>3, <2>2, <3>1, SumsNear
    <3> QED
      BY <3>2 DEF Near
  <2> QED
    BY <1>1, <2>3, <2>4, <2>5
<1> QED
  BY <1>6, <1>7, <1>8

(* Homing and G92 name a new origin, where nothing is lost. *)
LEMMA OriginNear ==
  ASSUME DriftInv, NEW d \in [Axes -> Int], destination' = d,
         wanted' = [a \in Axes |-> 5 * d[a]], inches' = [a \in Axes |-> 0]
  PROVE  /\ destination' \in [Axes -> Int] /\ wanted' \in [Axes -> Int]
         /\ inches' \in [Axes -> Nat]
         /\ Near("X")' /\ Near("Y")'
<1>1. \A a \in Axes : d[a] \in Int /\ 5 * d[a] \in Int
  OBVIOUS
<1>2. ASSUME NEW a \in Axes PROVE Near(a)'
  <2>1. destination'[a] \in Int /\ wanted'[a] = 5 * destination'[a] /\ inches'[a] = 0
    BY <1>1
  <2> QED
    BY <2>1 DEF Near, labs
<1> QED
  BY <1>1, <1>2 DEF Axes

LEMMA InitNoDrift == Init => DriftInv
<1> SUFFICES ASSUME Init PROVE DriftInv
  OBVIOUS
<1>1. \A a \in Axes : destination[a] \in Int
  BY WordAssumption DEF Init, Axes
<1>2. destination \in [Axes -> Int]
  BY <1>1 DEF Init
<1>3. wanted \in [Axes -> Int] /\ inches \in [Axes -> Nat]
  BY <1>1 DEF Init
<1>4. ASSUME NEW a \in Axes PROVE Near(a)
  <2>1. destination[a] \in Int /\ wanted[a] = 5 * destination[a] /\ inches[a] = 0
    BY <1>1 DEF Init
  <2> QED
    BY <2>1 DEF Near, labs
<1> QED
  BY <1>2, <1>3, <1>4 DEF Init, DriftInv, Coordinates, NoDrift, Axes

(* Where every command that moves leaves the coordinates. *)
LEMMA Moved ==
  ASSUME DriftInv, NEW c \in Commands, Told(c), Aim(get_coordinates(c)), KeepModes,
         position' = target'
  PROVE  DriftInv'
BY MoveNear DEF Aim, KeepModes, DriftInv, Coordinates, NoDrift, Steps

LEMMA NewOrigin ==
  ASSUME DriftInv, NEW c \in Commands, NEW d \in [Axes -> Int],
         Aim(d), ToldOrigin(c, destination'), position' = target',
         relative_mode' \in BOOLEAN, coords_in_inch' \in BOOLEAN
  PROVE  DriftInv'
BY OriginNear DEF Aim, ToldOrigin, DriftInv, Coordinates, NoDrift, Steps

LEMMA Stays ==
  ASSUME DriftInv, KeepAim, UNCHANGED <<position, wanted, inches>>,
         relative_mode' \in BOOLEAN, coords_in_inch' \in BOOLEAN
  PROVE  DriftInv'
BY DEF KeepAim, DriftInv, Coordinates, NoDrift, Near, Steps

LEMMA NextNoDrift == DriftInv /\ [Next]_vars => DriftInv'
<1> SUFFICES ASSUME DriftInv, Next \/ UNCHANGED vars PROVE DriftInv'
  OBVIOUS
<1>t. /\ destination \in [Axes -> Int] /\ target = Steps(destination) /\ position = target
      /\ relative_mode \in BOOLEAN /\ coords_in_inch \in BOOLEAN
  BY DEF DriftInv, Coordinates, NoDrift
<1>u. CASE UNCHANGED vars
  BY <1>u, <1>t, Stays DEF vars, told_vars, KeepAim
<1>n. ASSUME NEW c \in Commands, process_command(c) PROVE DriftInv'
  <2>1. CASE G0(c) \/ G1(c)
    BY <2>1, Moved DEF G0, G1, MoveTo, LineTo
  <2>2. CASE G2(c) \/ G3(c)
    <3>1. PICK ccw \in BOOLEAN : Arc(c, ccw)
      BY <2>2 DEF G2, G3
    <3>2. position' = target'
      BY <3>1 DEF Arc, ArcTo, MoveTo
    <3> QED
      BY <3>1, <3>2, Moved DEF Arc
  <2>3. CASE Units(c)
    BY <2>3, <1>t, Stays DEF Units, ToldOther
  <2>4. CASE G28(c)
    <3>1. relative_mode' \in BOOLEAN /\ coords_in_inch' \in BOOLEAN
      BY <2>4 DEF G28
    <3>2. CASE Homed(c) = {}
      BY <2>4, <3>1, <3>2, Stays DEF G28, ToldOther
    <3>3. CASE Homed(c) # {}
      <4>1. HomeCoordinates(c) \in [Axes -> Int]
        <5>1. \A a \in Axes : destination[a] \in Int /\ Number(c, a) \in Int
          BY <1>t, WordTyped
        <5>2. \A a \in Homed(c) : HomePos[a] \in Int
          BY WordAssumption DEF Homed
        <5> QED
          BY <5>1, <5>2 DEF HomeCoordinates
      <4> QED
        BY <2>4, <3>1, <3>3, <4>1, NewOrigin DEF G28
    <3> QED
      BY <3>2, <3>3
  <2>5. CASE G92(c)
    <3>1. [a \in Axes |-> IF got(c, a) THEN Number(c, a) ELSE destination[a]] \in [Axes -> Int]
      BY <1>t, WordTyped
    <3> QED
      BY <2>5, <1>t, <3>1, NewOrigin DEF G92, KeepModes
  <2>6. CASE Tool(c)
    BY <2>6, <1>t, Stays DEF Tool, ToldOther, MoveTo, KeepModes
  <2>7. CASE M649(c) \/ Other(c)
    BY <2>7, <1>t, Stays DEF M649, Other, ToldOther, KeepModes
  <2> QED
    BY <1>n, <2>1, <2>2, <2>3, <2>4, <2>5, <2>6, <2>7 DEF process_command
<1> QED
  BY <1>n, <1>u DEF Next

(* Rounding to steps and fractions of a um never add up, however long the  *)
(* job, for every resolution of the axes and every home position           *)
(* (gcode.c:146, planner.c:71).                                            *)
THEOREM NeverDrifts == Spec => []NoDrift
<1>1. DriftInv => NoDrift
  BY DEF DriftInv
<1> QED
  BY InitNoDrift, NextNoDrift, <1>1, PTL DEF Spec

-----------------------------------------------------------------------------
(* The laser settings: a mode is three bits, whatever the words say. *)
LaserFields == {"mode", "modulation", "power", "ppm", "us", "pulses"}
IsLaser(l) == DOMAIN l = LaserFields /\ l.mode \in 0 .. 7 /\ l.ppm \in Nat

LEMMA SetModeTyped ==
  ASSUME NEW l, IsLaser(l), NEW m \in Int
  PROVE  IsLaser(laser_set_mode(l, m))
<1>1. m % 256 \in 0 .. 255
  OBVIOUS
<1>2. CASE m % 256 < 8
  <2>1. m % 256 \in 0 .. 7
    BY <1>1, <1>2
  <2> QED
    BY <1>2, <2>1 DEF laser_set_mode, IsLaser, LaserFields
<1>3. CASE ~(m % 256 < 8)
  BY <1>3 DEF laser_set_mode
<1> QED
  BY <1>2, <1>3

LEMMA OptionsTyped ==
  ASSUME NEW l, IsLaser(l), NEW c \in Commands
  PROVE  IsLaser(handle_laser_opts(c, l))
<1> DEFINE s == AfterS(c, l)
           t == AfterL(c, s)
           u == AfterP(c, t)
           v == AfterC(c, u)
           w == AfterB(c, v)
<1>1. IsLaser(s)
  BY DEF AfterS, IsLaser, LaserFields, CW
<1> HIDE DEF s
<1>2. IsLaser(t)
  BY <1>1 DEF AfterL, IsLaser, LaserFields, PULSE
<1> HIDE DEF t
<1>3. IsLaser(u)
  <2>1. Number(c, "P") % UInt24 \in Nat
    BY WordTyped DEF UInt24
  <2> QED
    BY <1>2, <2>1 DEF AfterP, IsLaser, LaserFields, PULSE
<1> HIDE DEF u
<1>4. IsLaser(v)
  <2>1. \A m \in 0 .. 7 : Modulated(m) \in 0 .. 7
    BY DEF Modulated, MODULATE
  <2>2. u.mode \in 0 .. 7
    BY <1>3 DEF IsLaser
  <2>3. Modulated(u.mode) \in 0 .. 7 /\ OFF \in 0 .. 7
    BY <2>1, <2>2 DEF OFF
  <2> QED
    BY <1>3, <2>3 DEF AfterC, IsLaser, LaserFields
<1> HIDE DEF v
<1>5. IsLaser(w)
  <2>1. Number(c, "B") \in Int
    BY WordTyped
  <2>2. Integer(c, "B") \in Int
    BY <2>1 DEF Integer, Quotient
  <2> QED
    BY <1>4, <2>2, SetModeTyped DEF AfterB
<1>6. handle_laser_opts(c, l) = [w EXCEPT !.pulses = IF got(c, "Q") THEN Integer(c, "Q") % LongRange ELSE 0]
  BY DEF handle_laser_opts, s, t, u, v
<1> HIDE DEF w
<1> QED
  BY <1>5, <1>6 DEF IsLaser, LaserFields

LEMMA InitLaser == Init => IsLaser(laser)
  BY DEF Init, IsLaser, LaserFields, OFF

(* A command without words for the laser leaves its settings alone. *)
LEMMA OptionsKept ==
  ASSUME NEW l, NEW c \in Commands, {"S", "L", "P", "C", "B"} \cap DOMAIN c.words = {}
  PROVE  Settings(handle_laser_opts(c, l)) = Settings(l)
<1>1. ~got(c, "S") /\ ~got(c, "L") /\ ~got(c, "P") /\ ~got(c, "C") /\ ~got(c, "B")
  BY DEF got
<1>2. AfterB(c, AfterC(c, AfterP(c, AfterL(c, AfterS(c, l))))) = l
  BY <1>1 DEF AfterB, AfterC, AfterP, AfterL, AfterS
<1> DEFINE q == IF got(c, "Q") THEN Integer(c, "Q") % LongRange ELSE 0
<1>3. handle_laser_opts(c, l) = [l EXCEPT !.pulses = q]
  BY <1>2 DEF handle_laser_opts
<1> HIDE DEF q
<1> QED
  BY <1>3 DEF Settings

(* M5 brings back the mode it has switched off. *)
LEMMA ModeBack ==
  ASSUME NEW l, IsLaser(l)
  PROVE  /\ IsLaser(laser_set_mode(laser_set_mode(l, OFF), l.mode))
         /\ Settings(laser_set_mode(laser_set_mode(l, OFF), l.mode)) = Settings(l)
<1>1. \A m \in 0 .. 7 : m % 256 = m /\ m < 8
  OBVIOUS
<1>2. l.mode \in 0 .. 7 /\ OFF \in 0 .. 7
  BY DEF IsLaser, OFF
<1>3. \A x : \A m \in 0 .. 7 : laser_set_mode(x, m) = [x EXCEPT !.mode = m]
  BY <1>1 DEF laser_set_mode
<1>4. laser_set_mode(laser_set_mode(l, OFF), l.mode) = [[l EXCEPT !.mode = OFF] EXCEPT !.mode = l.mode]
  BY <1>2, <1>3
<1> QED
  BY <1>2, <1>4 DEF Settings, IsLaser, LaserFields

(* The action of LaserSticks. *)
Sticks ==
  /\ {"S", "L", "P", "C", "B"} \cap DOMAIN command'.words = {} /\ command'.op \notin {"M2", "M3"}
       => Settings(laser') = Settings(laser)
  /\ \A i \in DOMAIN queued' :
       /\ queued'[i].job = "MOVE_TO" => queued'[i].mode = OFF
       /\ queued'[i].job \in {"LINE", "ARC"} =>
            /\ queued'[i].mode = laser'.mode /\ queued'[i].power = laser'.power
            /\ queued'[i].us = laser'.us

LEMMA MoveIsDark ==
  ASSUME NEW p, NEW t, NEW rate, NEW b \in MoveBlocks(p, t, rate)
  PROVE  b.job = "MOVE_TO" /\ b.mode = OFF
BY DEF MoveBlocks

LEMMA LineFires ==
  ASSUME NEW p, NEW t, NEW rate, NEW l, NEW b \in LineBlocks(p, t, rate, l)
  PROVE  b.job = "LINE" /\ b.mode = l.mode /\ b.power = l.power /\ b.us = l.us
BY DEF LineBlocks

LEMMA NextSticks == IsLaser(laser) /\ [Next]_vars => IsLaser(laser)' /\ [Sticks]_vars
<1> SUFFICES ASSUME IsLaser(laser), Next \/ UNCHANGED vars
             PROVE  IsLaser(laser') /\ (Sticks \/ UNCHANGED vars)
  BY DEF IsLaser
<1>u. CASE UNCHANGED vars
  BY <1>u DEF vars
<1>n. ASSUME NEW c \in Commands, process_command(c) PROVE IsLaser(laser') /\ Sticks
  <2> DEFINE plain == {"S", "L", "P", "C", "B"} \cap DOMAIN c.words = {}
             opts  == handle_laser_opts(c, laser)
  <2>c. command' = c
    BY <1>n DEF process_command, G0, G1, G2, G3, Arc, Units, G28, G92, Tool, M649, Other, Told,
                ToldOther, ToldOrigin
  <2>o. IsLaser(opts) /\ (plain => Settings(opts) = Settings(laser))
    BY OptionsTyped, OptionsKept
  <2> HIDE DEF plain, opts
  <2>p. {"S", "L", "P", "C", "B"} \cap DOMAIN command'.words = {} => plain
    BY <2>c DEF plain
  <2>m. ASSUME NEW t, MoveTo(t)
        PROVE  \A i \in DOMAIN queued' : queued'[i].job = "MOVE_TO" /\ queued'[i].mode = OFF
    <3>1. PICK b \in MoveBlocks(position, t, speed') : queued' = <<b>>
      BY <2>m DEF MoveTo
    <3>2. b.job = "MOVE_TO" /\ b.mode = OFF
      BY MoveIsDark
    <3> QED
      BY <3>1, <3>2
  <2>e. ASSUME UNCHANGED laser,
               \A i \in DOMAIN queued' : queued'[i].job \notin {"LINE", "ARC"}
                  /\ (queued'[i].job = "MOVE_TO" => queued'[i].mode = OFF)
        PROVE  IsLaser(laser') /\ Sticks
    BY <2>e DEF Sticks
  <2>0. CASE G0(c)
    <3>1. UNCHANGED laser /\ MoveTo(target')
      BY <2>0 DEF G0
    <3> QED
      BY <2>e, <2>m, <3>1
  <2>1. CASE G1(c)
    <3>1. laser' = opts /\ LineTo(target')
      BY <2>1 DEF G1, opts
    <3>2. PICK b \in LineBlocks(position, target', speed', laser') : queued' = <<b>>
      BY <3>1 DEF LineTo
    <3>3. b.job = "LINE" /\ b.mode = laser'.mode /\ b.power = laser'.power /\ b.us = laser'.us
      BY LineFires
    <3>4. DOMAIN queued' = {1} /\ queued'[1] = b
      BY <3>2
    <3> QED
      BY <2>o, <2>p, <3>1, <3>3, <3>4 DEF Sticks
  <2>2. CASE G2(c) \/ G3(c)
    <3>1. PICK ccw \in BOOLEAN : Arc(c, ccw)
      BY <2>2 DEF G2, G3
    <3>2. CASE UNCHANGED laser /\ MoveTo(target')
      BY <2>e, <2>m, <3>2
    <3>3. CASE laser' = opts /\ \E centre : ArcTo(target', centre, ccw)
      <4>1. PICK centre : ArcTo(target', centre, ccw)
        BY <3>3
      <4> DEFINE arc == ArcBlock(position, target',
                          [a \in {"X", "Y"} |-> position2steps(a, centre[a])], speed', laser', ccw)
                 there == [target' EXCEPT !["Z"] = position["Z"]]
      <4>2. /\ arc.job = "ARC" /\ arc.mode = laser'.mode /\ arc.power = laser'.power
            /\ arc.us = laser'.us
        BY DEF ArcBlock
      <4>3. \/ queued' = <<arc>>
            \/ \E b \in MoveBlocks(there, target', speed') : queued' = <<arc, b>>
        BY <4>1 DEF ArcTo
      <4> HIDE DEF arc, there
      <4>4. CASE queued' = <<arc>>
        <5>1. DOMAIN queued' = {1} /\ queued'[1] = arc
          BY <4>4
        <5> QED
          BY <2>o, <2>p, <3>3, <4>2, <5>1 DEF Sticks
      <4>5. CASE \E b \in MoveBlocks(there, target', speed') : queued' = <<arc, b>>
        <5>1. PICK b \in MoveBlocks(there, target', speed') : queued' = <<arc, b>>
          BY <4>5
        <5>2. b.job = "MOVE_TO" /\ b.mode = OFF
          BY MoveIsDark
        <5>3. DOMAIN queued' = {1, 2} /\ queued'[1] = arc /\ queued'[2] = b
          BY <5>1
        <5> QED
          BY <2>o, <2>p, <3>3, <4>2, <5>2, <5>3 DEF Sticks
      <4> QED
        BY <4>3, <4>4, <4>5
    <3> QED
      BY <3>1, <3>2, <3>3 DEF Arc, opts
  <2>3. CASE Units(c) \/ Other(c)
    <3>1. UNCHANGED laser /\ queued' = <<>>
      BY <2>3 DEF Units, Other
    <3> QED
      BY <2>e, <3>1
  <2>4. CASE G28(c) \/ G92(c)
    <3>1. UNCHANGED laser /\ (queued' = <<>> \/ \E t, axes : queued' = <<HomeBlock(t, axes)>>)
      BY <2>4 DEF G28, G92
    <3>2. \A t, axes : HomeBlock(t, axes).job \in {"HOME", "HOME_REF"}
      BY DEF HomeBlock
    <3>3. ASSUME NEW t, NEW axes, queued' = <<HomeBlock(t, axes)>>
          PROVE  \A i \in DOMAIN queued' : queued'[i].job \in {"HOME", "HOME_REF"}
      BY <3>2, <3>3
    <3>4. \A i \in DOMAIN queued' : queued'[i].job \in {"HOME", "HOME_REF"}
      BY <3>1, <3>3
    <3> QED
      BY <2>e, <3>1, <3>4
  <2>5. CASE Tool(c)
    <3>1. MoveTo(target)
      BY <2>5 DEF Tool
    <3>2. \A i \in DOMAIN queued' : queued'[i].job = "MOVE_TO" /\ queued'[i].mode = OFF
      BY <2>m, <3>1
    <3>3. CASE M2(c) \/ M3(c)
      <4>1. command'.op \in {"M2", "M3"}
        BY <2>c, <3>3 DEF M2, M3, Is
      <4>2. IsLaser(laser')
        <5>1. CASE M2(c)
          BY <5>1, SetModeTyped DEF M2, OFF
        <5>2. CASE M3(c)
          <6>1. laser' = IF opts.mode = OFF THEN laser_set_mode(opts, CW) ELSE opts
            BY <5>2 DEF M3, opts
          <6> QED
            BY <6>1, <2>o, SetModeTyped DEF CW
        <5> QED
          BY <3>3, <5>1, <5>2
      <4> QED
        BY <3>2, <4>1, <4>2 DEF Sticks
    <3>4. CASE M5(c)
      <4>1. IsLaser(laser') /\ Settings(laser') = Settings(laser)
        BY <3>4, ModeBack DEF M5
      <4> QED
        BY <3>2, <4>1 DEF Sticks
    <3> QED
      BY <2>5, <3>3, <3>4 DEF Tool
  <2>6. CASE M649(c)
    <3>1. laser' = opts /\ queued' = <<>>
      BY <2>6 DEF M649, opts
    <3> QED
      BY <2>o, <2>p, <3>1 DEF Sticks
  <2> QED
    BY <1>n, <2>0, <2>1, <2>2, <2>3, <2>4, <2>5, <2>6 DEF process_command
<1> QED
  BY <1>n, <1>u DEF Next

(* The settings of the laser stay until a command has words for them or    *)
(* switches the tool, and every block fires with the settings, or not at   *)
(* all, whatever commands there are (gcode.c:573, planner.c:128).      *)
THEOREM SettingsStick == Spec => LaserSticks
<1>1. Spec => [][Sticks]_vars
  BY InitLaser, NextSticks, PTL DEF Spec
<1> QED
  BY <1>1 DEF LaserSticks, Sticks
-----------------------------------------------------------------------------
(***************************************************************************)
(* The root.  A loop is a recursive function of the number of its rounds:  *)
(* that it exists, and what it keeps, is shown by induction.               *)
(***************************************************************************)

LEMMA LeastElement ==
  ASSUME NEW T, T \subseteq Nat, T # {}
  PROVE  \E x \in T : \A y \in T : x <= y
<1> DEFINE R == OpToRel(<, Nat)
<1>1. IsWellFoundedOn(R, Nat)
  BY NatLessThanWellFounded, Zenon
<1>2. \A x, y \in Nat : x < y => <<x, y>> \in R
  BY DEF OpToRel
<1> HIDE DEF R
<1>3. PICK x \in T : \A y \in T : ~(<<y, x>> \in R)
  BY <1>1, WFMin, Zenon
<1>4. ASSUME NEW y \in T PROVE x <= y
  <2>1. ~(y < x)
    BY <1>2, <1>3
  <2> QED
    BY <2>1
<1> QED
  BY <1>4

LEMMA Induction ==
  ASSUME NEW S, 0 \in S, \A n \in Nat : n \in S => n + 1 \in S
  PROVE  Nat \subseteq S
<1> SUFFICES ASSUME Nat \ S # {} PROVE FALSE
  OBVIOUS
<1>1. PICK x \in Nat \ S : \A y \in Nat \ S : x <= y
  BY LeastElement
<1>2. x - 1 \in Nat /\ x - 1 \in S
  BY <1>1
<1> QED
  BY <1>2

LEMMA LoopExists ==
  ASSUME NEW s0, NEW m \in Nat
  PROVE  \E f : f = [k \in 0 .. m |-> IF k = 0 THEN s0 ELSE RootRound(f[k - 1])]
<1> DEFINE After(x) == RootRound(x)
           Step(f, k) == IF k = 0 THEN s0 ELSE After(f[k - 1])
           Prefix(n) == \E f : f = [k \in 0 .. n |-> Step(f, k)]
           S == {n \in Nat : Prefix(n)}
<1> HIDE DEF After
<1>1. 0 \in S
  <2>1. [k \in 0 .. 0 |-> s0] = [k \in 0 .. 0 |-> Step([j \in 0 .. 0 |-> s0], k)]
    OBVIOUS
  <2> QED
    BY <2>1
<1>2. ASSUME NEW n \in Nat, n \in S PROVE n + 1 \in S
  <2>1. PICK f : f = [k \in 0 .. n |-> Step(f, k)]
    BY <1>2
  <2> DEFINE g == [k \in 0 .. n + 1 |-> IF k <= n THEN f[k] ELSE After(f[n])]
  <2>2. ASSUME NEW k \in 0 .. n + 1 PROVE g[k] = Step(g, k)
    <3>1. CASE k = 0
      BY <2>1, <3>1
    <3>2. CASE k # 0 /\ k <= n
      <4>1. f[k] = After(f[k - 1])
        BY <2>1, <3>2
      <4>2. g[k] = f[k] /\ g[k - 1] = f[k - 1]
        BY <3>2
      <4> QED
        BY <3>2, <4>1, <4>2
    <3>3. CASE k = n + 1
      BY <3>3
    <3> QED
      BY <3>1, <3>2, <3>3
  <2>3. g = [k \in 0 .. n + 1 |-> g[k]]
    OBVIOUS
  <2> HIDE DEF g
  <2>4. g = [k \in 0 .. n + 1 |-> Step(g, k)]
    <3> HIDE DEF Step
    <3> QED
      BY <2>2, <2>3
  <2>5. Prefix(n + 1)
    BY <2>4
  <2> HIDE DEF Prefix
  <2> QED
    BY <2>5
<1> HIDE DEF S
<1>3. Nat \subseteq S
  BY <1>1, <1>2, Induction
<1> QED
  BY <1>3 DEF S, After

LEMMA BitExists ==
  ASSUME NEW m \in Nat
  PROVE  \E f : f = [k \in 0 .. m |-> IF k = 0 THEN 1 ELSE 4 * f[k - 1]]
<1> DEFINE Step(f, k) == IF k = 0 THEN 1 ELSE 4 * f[k - 1]
           Prefix(n) == \E f : f = [k \in 0 .. n |-> Step(f, k)]
           S == {n \in Nat : Prefix(n)}
<1>1. 0 \in S
  <2>1. [k \in 0 .. 0 |-> 1] = [k \in 0 .. 0 |-> Step([j \in 0 .. 0 |-> 1], k)]
    OBVIOUS
  <2> QED
    BY <2>1
<1>2. ASSUME NEW n \in Nat, n \in S PROVE n + 1 \in S
  <2>1. PICK f : f = [k \in 0 .. n |-> Step(f, k)]
    BY <1>2
  <2> DEFINE g == [k \in 0 .. n + 1 |-> IF k <= n THEN f[k] ELSE 4 * f[n]]
  <2>2. ASSUME NEW k \in 0 .. n + 1 PROVE g[k] = Step(g, k)
    <3>1. CASE k = 0
      BY <2>1, <3>1
    <3>2. CASE k # 0 /\ k <= n
      <4>1. f[k] = 4 * f[k - 1]
        BY <2>1, <3>2
      <4>2. g[k] = f[k] /\ g[k - 1] = f[k - 1]
        BY <3>2
      <4> QED
        BY <3>2, <4>1, <4>2
    <3>3. CASE k = n + 1
      BY <3>3
    <3> QED
      BY <3>1, <3>2, <3>3
  <2>3. g = [k \in 0 .. n + 1 |-> g[k]]
    OBVIOUS
  <2> HIDE DEF g
  <2>4. g = [k \in 0 .. n + 1 |-> Step(g, k)]
    <3> HIDE DEF Step
    <3> QED
      BY <2>2, <2>3
  <2>5. Prefix(n + 1)
    BY <2>4
  <2> HIDE DEF Prefix
  <2> QED
    BY <2>5
<1> HIDE DEF S
<1>3. Nat \subseteq S
  BY <1>1, <1>2, Induction
<1> QED
  BY <1>3 DEF S

(* The powers of four are squares. *)
LEMMA BitSquare ==
  /\ Bit[0] = 1
  /\ \A k \in 1 .. Rounds - 1 : Bit[k] = 4 * Bit[k - 1]
  /\ \A k \in 0 .. Rounds - 1 : \E q \in Nat \ {0} : Bit[k] = q * q
<1>1. Rounds - 1 \in Nat
  BY WordAssumption
<1>2. Bit = [k \in 0 .. Rounds - 1 |-> IF k = 0 THEN 1 ELSE 4 * Bit[k - 1]]
  BY <1>1, BitExists DEF Bit
<1>3. Bit[0] = 1 /\ \A k \in 1 .. Rounds - 1 : Bit[k] = 4 * Bit[k - 1]
  BY <1>1, <1>2
<1> DEFINE S == {k \in Nat : k <= Rounds - 1 => \E q \in Nat \ {0} : Bit[k] = q * q}
<1>4. 0 \in S
  <2>1. 1 \in Nat \ {0} /\ Bit[0] = 1 * 1
    BY <1>3
  <2> QED
    BY <2>1
<1>5. ASSUME NEW k \in Nat, k \in S PROVE k + 1 \in S
  <2> SUFFICES ASSUME k + 1 <= Rounds - 1 PROVE \E q \in Nat \ {0} : Bit[k + 1] = q * q
    OBVIOUS
  <2>1. PICK q \in Nat \ {0} : Bit[k] = q * q
    BY <1>1, <1>5
  <2>2. Bit[k + 1] = 4 * Bit[k]
    <3>1. k + 1 \in 1 .. Rounds - 1 /\ (k + 1) - 1 = k
      BY <1>1
    <3> QED
      BY <1>3, <3>1
  <2>3. 2 * q \in Nat \ {0} /\ 4 * (q * q) = (2 * q) * (2 * q)
    OBVIOUS
  <2> QED
    BY <2>1, <2>2, <2>3
<1> HIDE DEF S
<1>6. Nat \subseteq S
  BY <1>4, <1>5, Induction
<1>7. \A k \in 0 .. Rounds - 1 : \E q \in Nat \ {0} : Bit[k] = q * q
  BY <1>6 DEF S
<1> QED
  BY <1>3, <1>7

(* The state of the loop before a round: s is the root found so far, and   *)
(* the rest of it is smaller than 2 * q.                                   *)
Rooting(x, n, s, q) ==
  /\ x.bit = q * q /\ x.res = 2 * (s * q)
  /\ x.num = n - s * s /\ s * s <= n /\ n < (s + 2 * q) * (s + 2 * q)

(* And after it. *)
Rooted(x, n, s, q) ==
  /\ x.res = s * q
  /\ x.num = n - s * s /\ s * s <= n /\ n < (s + q) * (s + q)

LEMMA Squares ==
  ASSUME NEW s \in Nat, NEW q \in Nat
  PROVE  /\ s * s \in Nat /\ q * q \in Nat /\ s * q \in Nat
         /\ (s + q) * (s + q) = s * s + 2 * (s * q) + q * q
         /\ (s + q) * q = s * q + q * q
         /\ (s + 2 * q) * (s + 2 * q) = ((s + q) + q) * ((s + q) + q)
         /\ (2 * (s * q)) \div 2 = s * q
<1>1. s * s \in Nat /\ q * q \in Nat /\ s * q \in Nat
  OBVIOUS
<1>2. (s + q) * (s + q) = s * s + 2 * (s * q) + q * q
  OBVIOUS
<1>3. (s + q) * q = s * q + q * q
  OBVIOUS
<1>4. (s + 2 * q) * (s + 2 * q) = ((s + q) + q) * ((s + q) + q)
  OBVIOUS
<1>5. \A k \in Nat : (2 * k) \div 2 = k
  OBVIOUS
<1> QED
  BY <1>1, <1>2, <1>3, <1>4, <1>5

LEMMA RoundRoots ==
  ASSUME NEW x, NEW n \in Nat, NEW s \in Nat, NEW q \in Nat, Rooting(x, n, s, q)
  PROVE  \/ Rooted(RootRound(x), n, s, q)
         \/ Rooted(RootRound(x), n, s + q, q)
<1> DEFINE ss == s * s
           sq == s * q
           qq == q * q
<1>1. /\ ss \in Nat /\ sq \in Nat /\ qq \in Nat
      /\ (s + q) * (s + q) = ss + 2 * sq + qq
      /\ (s + q) * q = sq + qq
      /\ (s + 2 * q) * (s + 2 * q) = ((s + q) + q) * ((s + q) + q)
      /\ (2 * sq) \div 2 = sq
  BY Squares
<1>2. /\ x.bit = qq /\ x.res = 2 * sq /\ x.num = n - ss /\ ss <= n
      /\ n < (s + 2 * q) * (s + 2 * q)
  BY DEF Rooting
<1> HIDE DEF ss, sq, qq
<1>3. CASE x.num >= x.res + x.bit
  <2>1. n - ss >= 2 * sq + qq
    BY <1>2, <1>3
  <2>2. RootRound(x).num = (n - ss) - (2 * sq + qq) /\ RootRound(x).res = sq + qq
    BY <1>1, <1>2, <1>3 DEF RootRound
  <2>3. ss + 2 * sq + qq <= n /\ RootRound(x).num = n - (ss + 2 * sq + qq)
    BY <1>1, <2>1, <2>2
  <2>4. Rooted(RootRound(x), n, s + q, q)
    BY <1>1, <1>2, <2>2, <2>3 DEF Rooted
  <2> QED
    BY <2>4
<1>4. CASE ~(x.num >= x.res + x.bit)
  <2>1. ~(n - ss >= 2 * sq + qq)
    BY <1>2, <1>4
  <2>2. RootRound(x).num = n - ss /\ RootRound(x).res = sq
    BY <1>1, <1>2, <1>4 DEF RootRound
  <2>3. n < ss + 2 * sq + qq
    BY <1>1, <2>1
  <2>4. Rooted(RootRound(x), n, s, q)
    BY <1>1, <1>2, <2>2, <2>3 DEF Rooted, ss, sq
  <2> QED
    BY <2>4
<1> QED
  BY <1>3, <1>4

(* The largest argument: the whole of a word. *)
RootRange == 4 * Bit[Rounds - 1]

LEMMA RangeTyped == RootRange \in Nat
<1>1. Rounds - 1 \in 0 .. Rounds - 1
  BY WordAssumption
<1>2. PICK q \in Nat : Bit[Rounds - 1] = q * q
  BY <1>1, BitSquare
<1> QED
  BY <1>2 DEF RootRange

(* Whatever the argument, _sqrt_u64 rounds its root down, for every width  *)
(* of a word (asm.c:56).                                                   *)
THEOREM RootRoundsDown ==
  ASSUME NEW n \in Nat, n < RootRange
  PROVE  /\ _sqrt_u64(n) \in Nat
         /\ _sqrt_u64(n) * _sqrt_u64(n) <= n
         /\ n < (_sqrt_u64(n) + 1) * (_sqrt_u64(n) + 1)
<1> DEFINE top  == [bit |-> Bit[Rounds - 1], num |-> n, res |-> 0]
           loop == CHOOSE f : f = [k \in 0 .. Rounds |-> IF k = 0 THEN top ELSE RootRound(f[k - 1])]
<1>0. Rounds \in Nat /\ Rounds > 0
  BY WordAssumption
<1>2. _sqrt_u64(n) = loop[Rounds].res
  BY DEF _sqrt_u64
<1>t. top.bit = Bit[Rounds - 1] /\ top.num = n /\ top.res = 0
  OBVIOUS
<1> HIDE DEF top
<1>1. loop = [k \in 0 .. Rounds |-> IF k = 0 THEN top ELSE RootRound(loop[k - 1])]
  <2>1. \E f : f = [k \in 0 .. Rounds |-> IF k = 0 THEN top ELSE RootRound(f[k - 1])]
    BY <1>0, LoopExists
  <2> QED
    BY <2>1, Zenon
<1> HIDE DEF loop
<1>3. loop[0] = top
  BY <1>0, <1>1
<1>4. ASSUME NEW k \in 1 .. Rounds PROVE loop[k] = RootRound(loop[k - 1])
  BY <1>0, <1>1
<1> DEFINE Going(k) == /\ loop[k].bit = Bit[Rounds - 1 - k]
                       /\ \E s, q \in Nat : Rooting(loop[k], n, s, q)
           Done(k)  == \E s \in Nat : Rooted(loop[k], n, s, 1)
           S == {k \in Nat : (k < Rounds => Going(k)) /\ (k = Rounds => Done(k))}
<1>5. 0 \in S
  <2>1. PICK q \in Nat : Bit[Rounds - 1] = q * q
    <3>1. Rounds - 1 \in 0 .. Rounds - 1
      BY <1>0
    <3> QED
      BY <3>1, BitSquare
  <2>2. n < 4 * (q * q)
    BY <2>1 DEF RootRange
  <2>3. 4 * (q * q) = (0 + 2 * q) * (0 + 2 * q) /\ 2 * (0 * q) = 0 /\ 0 * 0 = 0 /\ n - 0 = n
    OBVIOUS
  <2>4. Rooting(top, n, 0, q)
    BY <1>t, <2>1, <2>2, <2>3 DEF Rooting
  <2>5. Rounds - 1 - 0 = Rounds - 1
    BY <1>0
  <2>6. Going(0)
    BY <1>3, <1>t, <2>4, <2>5
  <2> QED
    BY <1>0, <2>6
<1>6. ASSUME NEW k \in Nat, k \in S PROVE k + 1 \in S
  <2> SUFFICES ASSUME k + 1 <= Rounds
               PROVE  (k + 1 < Rounds => Going(k + 1)) /\ (k + 1 = Rounds => Done(k + 1))
    <3> HIDE DEF Going, Done
    <3> QED
      BY <1>0
  <2>1. k < Rounds /\ Going(k)
    <3> HIDE DEF Going, Done
    <3> QED
      BY <1>0, <1>6
  <2>2. PICK s \in Nat, q \in Nat : Rooting(loop[k], n, s, q)
    BY <2>1
  <2> DEFINE x == loop[k]
             y == loop[k + 1]
  <2>3. y = RootRound(x)
    <3>1. k + 1 \in 1 .. Rounds /\ (k + 1) - 1 = k
      BY <1>0
    <3> QED
      BY <1>4, <3>1
  <2>4. PICK r \in Nat : Rooted(y, n, r, q)
    BY <2>2, <2>3, RoundRoots
  <2>5. x.bit = q * q /\ x.bit = Bit[Rounds - 1 - k] /\ y.bit = x.bit \div 4
    BY <2>1, <2>2, <2>3 DEF Rooting, RootRound
  <2> HIDE DEF x, y
  <2>6. CASE k + 1 < Rounds
    <3> DEFINE j == Rounds - 1 - (k + 1)
    <3>1. j \in 0 .. Rounds - 1 /\ j + 1 \in 1 .. Rounds - 1 /\ Rounds - 1 - k = j + 1
      BY <1>0, <2>6
    <3> HIDE DEF j
    <3>2. PICK p \in Nat \ {0} : Bit[j] = p * p
      BY <3>1, BitSquare
    <3>3. Bit[j + 1] = 4 * Bit[j]
      <4>1. (j + 1) - 1 = j
        BY <3>1
      <4> QED
        BY <3>1, <4>1, BitSquare
    <3>4. q * q = 4 * (p * p) /\ y.bit = p * p
      <4>1. p * p \in Nat
        OBVIOUS
      <4>2. \A m \in Nat : (4 * m) \div 4 = m
        OBVIOUS
      <4> QED
        BY <2>5, <3>1, <3>2, <3>3, <4>1, <4>2
    <3>5. q = 2 * p
      <4>1. q * q = (2 * p) * (2 * p)
        BY <3>4
      <4>2. q < 2 * p => q * q < (2 * p) * (2 * p)
        OBVIOUS
      <4>3. q > 2 * p => q * q > (2 * p) * (2 * p)
        OBVIOUS
      <4> QED
        BY <4>1, <4>2, <4>3
    <3>6. r * q = 2 * (r * p)
      BY <3>5
    <3>7. Rooting(y, n, r, p)
      BY <2>4, <3>4, <3>5, <3>6 DEF Rooting, Rooted
    <3>8. y.bit = Bit[j]
      BY <3>2, <3>4
    <3> QED
      BY <2>6, <3>7, <3>8 DEF j, y
  <2>7. CASE k + 1 = Rounds
    <3>1. Rounds - 1 - k = 0
      BY <1>0, <2>7
    <3>2. q * q = 1
      BY <2>5, <3>1, BitSquare
    <3>3. q = 1
      <4>1. q # 0 /\ (q > 1 => q * q > 1)
        BY <3>2
      <4> QED
        BY <3>2, <4>1
    <3> QED
      BY <2>4, <2>7, <3>3 DEF y
  <2> QED
    BY <1>0, <2>6, <2>7
<1> HIDE DEF S
<1>7. Nat \subseteq S
  BY <1>5, <1>6, Induction
<1>8. Done(Rounds)
  BY <1>0, <1>7 DEF S
<1>9. PICK s \in Nat : Rooted(loop[Rounds], n, s, 1)
  BY <1>8
<1>10. loop[Rounds].res = s /\ s * s <= n /\ n < (s + 1) * (s + 1)
  BY <1>9 DEF Rooted
<1> QED
  BY <1>2, <1>10
-----------------------------------------------------------------------------
(***************************************************************************)
(* The pulses of a line.  The planner takes the length of a line from the  *)
(* signed difference of its ends, and rounds differently on either side of *)
(* zero; the property takes it from the steps.                             *)
(***************************************************************************)

(* Two lengths whose legs differ by less than a um differ by at most two.  *)
LEMMA RootsClose ==
  ASSUME NEW x \in Nat, NEW y \in Nat, NEW u \in Nat, NEW v \in Nat,
         u <= x, x <= u + 1, v <= y, y <= v + 1,
         NEW r \in Nat, r * r <= x * x + y * y, x * x + y * y < (r + 1) * (r + 1),
         NEW t \in Nat, t * t <= u * u + v * v, u * u + v * v < (t + 1) * (t + 1)
  PROVE  t <= r /\ r <= t + 2
<1>1. u * u <= x * x /\ v * v <= y * y
  <2>1. u * u <= u * x /\ u * x <= x * x
    OBVIOUS
  <2>2. v * v <= v * y /\ v * y <= y * y
    OBVIOUS
  <2> QED
    BY <2>1, <2>2
<1>2. t <= r
  <2>1. t * t < (r + 1) * (r + 1)
    BY <1>1
  <2>2. t >= r + 1 => t * t >= (r + 1) * (r + 1)
    <3>1. t >= r + 1 => t * t >= t * (r + 1) /\ t * (r + 1) >= (r + 1) * (r + 1)
      OBVIOUS
    <3> QED
      BY <3>1
  <2> QED
    BY <2>1, <2>2
<1>3. x * x + y * y <= u * u + v * v + 2 * (u + v) + 2
  <2>1. x * x <= (u + 1) * (u + 1) /\ (u + 1) * (u + 1) = u * u + 2 * u + 1
    <3>1. x * x <= x * (u + 1) /\ x * (u + 1) <= (u + 1) * (u + 1)
      OBVIOUS
    <3> QED
      BY <3>1
  <2>2. y * y <= (v + 1) * (v + 1) /\ (v + 1) * (v + 1) = v * v + 2 * v + 1
    <3>1. y * y <= y * (v + 1) /\ y * (v + 1) <= (v + 1) * (v + 1)
      OBVIOUS
    <3> QED
      BY <3>1
  <2> QED
    BY <2>1, <2>2
<1> DEFINE w == u + v
<1>4. w * w <= 2 * (u * u + v * v)
  <2>1. (u - v) * (u - v) >= 0
    OBVIOUS
  <2>2. (u - v) * (u - v) = u * u + v * v - 2 * (u * v)
    OBVIOUS
  <2>3. w * w = u * u + v * v + 2 * (u * v)
    OBVIOUS
  <2> QED
    BY <2>1, <2>2, <2>3
<1>5. (t + 1) * (t + 1) = t * t + 2 * t + 1
  OBVIOUS
<1>6. u * u + v * v <= t * t + 2 * t
  BY <1>5
<1>7. w * w <= 2 * (t * t + 2 * t)
  BY <1>4, <1>6
<1>8. w <= 2 * t + 1
  <2>1. w >= 2 * t + 2 => w * w >= (2 * t + 2) * (2 * t + 2)
    <3>1. w >= 2 * t + 2 => w * w >= w * (2 * t + 2) /\ w * (2 * t + 2) >= (2 * t + 2) * (2 * t + 2)
      OBVIOUS
    <3> QED
      BY <3>1
  <2>2. (2 * t + 2) * (2 * t + 2) = 4 * (t * t) + 8 * t + 4
    OBVIOUS
  <2>3. t * t \in Nat
    OBVIOUS
  <2> HIDE DEF w
  <2>4. w \in Nat
    BY DEF w
  <2> QED
    BY <1>7, <2>1, <2>2, <2>3, <2>4
<1>9. r <= t + 2
  <2>1. r * r <= t * t + 2 * t + 2 * w + 2
    BY <1>3, <1>6
  <2>2. r >= t + 3 => r * r >= (t + 3) * (t + 3)
    <3>1. r >= t + 3 => r * r >= r * (t + 3) /\ r * (t + 3) >= (t + 3) * (t + 3)
      OBVIOUS
    <3> QED
      BY <3>1
  <2>3. (t + 3) * (t + 3) = t * t + 6 * t + 9
    OBVIOUS
  <2> QED
    BY <1>8, <2>1, <2>2, <2>3
<1> QED
  BY <1>2, <1>9

LEMMA QuotientNear ==
  ASSUME NEW x \in Int, NEW d \in Nat \ {0}
  PROVE  /\ Quotient(x, d) \in Int
         /\ x - d < Quotient(x, d) * d /\ Quotient(x, d) * d < x + d
         /\ x >= 0 => Quotient(x, d) >= 0 /\ Quotient(x, d) * d <= x
<1>0. ASSUME NEW k \in Nat
      PROVE  k \div d \in Nat /\ (k \div d) * d <= k /\ k < (k \div d) * d + d
  OBVIOUS
<1>1. CASE x >= 0
  BY <1>0, <1>1 DEF Quotient
<1>2. CASE x < 0
  <2> DEFINE k == -x
             g == k \div d
  <2>1. k \in Nat /\ x = -k
    BY <1>2
  <2>2. g \in Nat /\ g * d <= k /\ k < g * d + d
    BY <1>0, <2>1
  <2>3. Quotient(x, d) = -g
    BY <1>2 DEF Quotient
  <2> HIDE DEF k, g
  <2>4. (-g) * d = -(g * d)
    BY <2>2
  <2> QED
    BY <1>2, <2>1, <2>2, <2>3, <2>4
<1> QED
  BY <1>1, <1>2

LEMMA Multiples ==
  ASSUME NEW a \in Int, NEW b \in Int, NEW d \in Nat \ {0}, a * d < b * d
  PROVE  a < b
<1>1. a >= b => a * d >= b * d
  OBVIOUS
<1> QED
  BY <1>1

(* The length of s steps, and of s steps back. *)
LEMMA SignedLength ==
  ASSUME NEW s \in Nat
  PROVE  /\ steps2position(s) \in Nat /\ steps2position(-s) \in Int
         /\ steps2position(s) * XYSteps <= s * XYLength + XYSteps
         /\ \E u \in Nat : /\ steps2position(-s) * steps2position(-s) = u * u
                           /\ u <= steps2position(s) /\ steps2position(s) <= u + 1
<1> DEFINE n == XYSteps
           m == s * XYLength
           h == n \div 2
           A == (m + h) \div n
<1>1. n \in Nat \ {0} /\ m \in Nat
  BY RatioAssumption
<1>a. steps2position(s) = Quotient(m + h, n)
  BY DEF steps2position
<1>b. steps2position(-s) = Quotient(h - m, n)
  <2>1. (-s) * XYLength + h = h - m
    BY RatioAssumption
  <2> QED
    BY <2>1 DEF steps2position
<1>c. s * XYLength + XYSteps = m + n /\ XYSteps = n
  OBVIOUS
<1> HIDE DEF n, m
<1>2. h \in Nat /\ 2 * h <= n /\ h < n
  BY <1>1
<1> HIDE DEF h
<1>3. A \in Nat /\ A * n <= m + h /\ m + h < A * n + n
  BY <1>1, <1>2
<1>4. Quotient(m + h, n) = A
  BY <1>1, <1>2 DEF Quotient
<1> HIDE DEF A
<1>5. ASSUME h - m >= 0
      PROVE  /\ Quotient(h - m, n) = 0 /\ A <= 1
  <2>1. h - m \in Nat /\ h - m < n
    BY <1>1, <1>2, <1>5
  <2>2. Quotient(h - m, n) = (h - m) \div n
    BY <1>5 DEF Quotient
  <2>3. \A k \in Nat : k < n => k \div n = 0
    BY <1>1
  <2>4. A * n < 2 * n
    BY <1>1, <1>2, <1>3, <1>5
  <2>5. A < 2
    BY <1>1, <1>3, <2>4, Multiples
  <2> QED
    BY <1>3, <2>1, <2>2, <2>3, <2>5
<1>6. ASSUME h - m < 0
      PROVE  \E u \in Nat : Quotient(h - m, n) = -u /\ u <= A /\ A <= u + 1
  <2> DEFINE k == m - h
             u == k \div n
  <2>1. k \in Nat /\ Quotient(h - m, n) = -u
    <3>1. -(h - m) = k
      BY <1>1, <1>2
    <3> QED
      BY <1>1, <1>2, <1>6, <3>1 DEF Quotient
  <2>2. u \in Nat /\ u * n <= k /\ k < u * n + n
    BY <1>1, <2>1
  <2> HIDE DEF u
  <2>3. A * n < (u + 2) * n /\ u * n < (A + 1) * n
    <3>1. A * n < u * n + 2 * n /\ u * n < A * n + n
      BY <1>1, <1>2, <1>3, <2>2
    <3>2. (u + 2) * n = u * n + 2 * n /\ (A + 1) * n = A * n + n
      BY <1>1, <1>3, <2>2
    <3> QED
      BY <3>1, <3>2
  <2>4. A < u + 2 /\ u < A + 1
    BY <1>1, <1>3, <2>2, <2>3, Multiples
  <2> QED
    BY <1>3, <2>1, <2>2, <2>4
<1>7. \E u \in Nat : /\ Quotient(h - m, n) \in Int /\ Quotient(h - m, n) * Quotient(h - m, n) = u * u
                     /\ u <= A /\ A <= u + 1
  <2>1. CASE h - m >= 0
    <3>1. 0 * 0 = 0
      OBVIOUS
    <3> QED
      BY <1>3, <1>5, <2>1
  <2>2. CASE h - m < 0
    <3>1. PICK u \in Nat : Quotient(h - m, n) = -u /\ u <= A /\ A <= u + 1
      BY <1>6, <2>2
    <3>2. (-u) * (-u) = u * u /\ -u \in Int
      OBVIOUS
    <3> QED
      BY <3>1, <3>2
  <2> QED
    BY <1>1, <1>2, <2>1, <2>2
<1>8. A * n <= m + n
  BY <1>1, <1>2, <1>3
<1> QED
  BY <1>3, <1>4, <1>7, <1>8, <1>a, <1>b, <1>c

(* What the coordinates and their distance leave room for: steps of a move *)
(* that fit an int, and squares that fit the argument of the root.         *)
LongestLength == Reach + (2 * XYLength) \div XYSteps + 2
ReachFits ==
  /\ Reach \in Nat
  /\ 2 * (Reach * XYSteps + 2 * XYLength) < IntRange * XYLength
  /\ 2 * (LongestLength * LongestLength) < RootRange
  /\ LongRange \div 1000000 < UInt24

(* Coordinates within Reach of each other are less than Reach and two      *)
(* steps apart.                                                            *)
LEMMA StepsApart ==
  ASSUME ReachFits, NEW a \in {"X", "Y"}, NEW d \in Int, NEW e \in Int,
         labs(e - d) <= Reach
  PROVE  /\ position2steps(a, d) \in Int /\ position2steps(a, e) \in Int
         /\ labs(position2steps(a, e) - position2steps(a, d)) \in Nat
         /\ labs(position2steps(a, e) - position2steps(a, d)) * XYLength
              <= Reach * XYSteps + 2 * XYLength
         /\ 2 * labs(position2steps(a, e) - position2steps(a, d)) < IntRange
<1> DEFINE L == XYLength
           h == L \div 2
           x == d * XYSteps + h
           y == e * XYSteps + h
           p == Quotient(x, L)
           q == Quotient(y, L)
           R == Reach * XYSteps
<1>1. L \in Nat \ {0} /\ h \in Nat /\ x \in Int /\ y \in Int /\ R \in Nat
  BY RatioAssumption DEF ReachFits
<1>2. position2steps(a, d) = p /\ position2steps(a, e) = q
  BY DEF position2steps
<1>3. y - x <= R /\ x - y <= R
  <2>1. e - d <= Reach /\ d - e <= Reach
    BY DEF labs, ReachFits
  <2>2. (e - d) * XYSteps <= R /\ (d - e) * XYSteps <= R
    BY <2>1, RatioAssumption DEF ReachFits
  <2>3. y - x = (e - d) * XYSteps /\ x - y = (d - e) * XYSteps
    BY <1>1, RatioAssumption
  <2> QED
    BY <2>2, <2>3
<1>r. 2 * (R + 2 * L) < IntRange * L /\ IntRange \in Nat
  BY WordAssumption DEF ReachFits
<1> HIDE DEF L, h, x, y, R
<1>4. /\ p \in Int /\ x - L < p * L /\ p * L < x + L
      /\ q \in Int /\ y - L < q * L /\ q * L < y + L
  BY <1>1, QuotientNear
<1> HIDE DEF p, q
<1>5. (q - p) * L <= R + 2 * L /\ (p - q) * L <= R + 2 * L
  <2>1. (q - p) * L = q * L - p * L /\ (p - q) * L = p * L - q * L
    BY <1>1, <1>4
  <2> QED
    BY <1>1, <1>3, <1>4, <2>1
<1> DEFINE g == labs(q - p)
<1>6. g \in Nat /\ g * L <= R + 2 * L
  BY <1>4, <1>5 DEF labs
<1> HIDE DEF g
<1>7. (2 * g) * L < IntRange * L
  <2>1. (2 * g) * L = 2 * (g * L)
    BY <1>1, <1>6
  <2> QED
    BY <1>1, <1>6, <1>r, <2>1
<1>8. 2 * g < IntRange
  BY <1>1, <1>6, <1>r, <1>7, Multiples
<1> QED
  BY <1>2, <1>4, <1>6, <1>8 DEF g, R, L

LEMMA AbsFits ==
  ASSUME NEW n \in Int, 2 * labs(n) < IntRange
  PROVE  abs(n) = labs(n)
<1>1. IntRange \in Nat /\ IntRange > 0
  BY WordAssumption
<1>2. CASE n >= 0
  <2>1. n % IntRange = n
    BY <1>1, <1>2 DEF labs
  <2> QED
    BY <1>1, <1>2, <2>1 DEF abs, labs
<1>3. CASE n < 0
  <2>1. n % IntRange = n + IntRange
    <3>1. n + IntRange \in 0 .. IntRange - 1
      BY <1>1, <1>3 DEF labs
    <3>2. n = IntRange * (-1) + (n + IntRange)
      BY <1>1
    <3> QED
      BY <1>1, <3>1, <3>2
  <2> QED
    BY <1>1, <1>3, <2>1 DEF abs, labs
<1> QED
  BY <1>2, <1>3

(* One leg of a line: what the planner takes for its length, and what its  *)
(* steps are long.                                                         *)
LEMMA LegClose ==
  ASSUME ReachFits, NEW a \in {"X", "Y"}, NEW d \in Int, NEW e \in Int,
         labs(e - d) <= Reach
  PROVE  LET back == steps2position(position2steps(a, d) - position2steps(a, e))
             leg  == steps2position(abs(position2steps(a, e) - position2steps(a, d)))
         IN  /\ leg \in Nat /\ leg <= LongestLength
             /\ \E u \in Nat : back * back = u * u /\ u <= leg /\ leg <= u + 1
<1> DEFINE p == position2steps(a, d)
           q == position2steps(a, e)
           g == labs(q - p)
           leg == steps2position(g)
           back == steps2position(p - q)
<1>1. /\ p \in Int /\ q \in Int /\ g \in Nat /\ 2 * g < IntRange
      /\ g * XYLength <= Reach * XYSteps + 2 * XYLength
  BY StepsApart
<1> HIDE DEF p, q
<1>2. abs(q - p) = g
  BY <1>1, AbsFits
<1>3. p - q = -g \/ p - q = g
  BY <1>1 DEF labs
<1> HIDE DEF g
<1>4. /\ leg \in Nat /\ leg * XYSteps <= g * XYLength + XYSteps
      /\ \E u \in Nat : /\ steps2position(-g) * steps2position(-g) = u * u
                        /\ u <= leg /\ leg <= u + 1
  BY <1>1, SignedLength
<1> HIDE DEF leg
<1>5. \E u \in Nat : back * back = u * u /\ u <= leg /\ leg <= u + 1
  <2>1. CASE p - q = -g
    BY <1>4, <2>1
  <2>2. CASE p - q = g
    BY <1>4, <2>2 DEF leg
  <2> QED
    BY <1>3, <2>1, <2>2
<1>6. leg <= LongestLength
  <2> DEFINE n == XYSteps
             m == 2 * XYLength
             k == m \div n
  <2>1. n \in Nat \ {0} /\ m \in Nat /\ Reach \in Nat
    BY RatioAssumption DEF ReachFits
  <2>2. leg * n <= Reach * n + m + n
    BY <1>1, <1>4, <2>1, RatioAssumption
  <2>3. LongestLength = Reach + k + 2
    BY DEF LongestLength
  <2> HIDE DEF n, m
  <2>4. k \in Nat /\ m < k * n + n
    BY <2>1
  <2> HIDE DEF k
  <2>5. leg * n < (Reach + k + 2) * n
    <3>1. (Reach + k + 2) * n = Reach * n + k * n + 2 * n
      BY <2>1, <2>4
    <3> QED
      BY <1>4, <2>1, <2>2, <2>4, <3>1
  <2>6. leg < Reach + k + 2
    BY <1>4, <2>1, <2>4, <2>5, Multiples
  <2> QED
    BY <1>4, <2>1, <2>3, <2>4, <2>6
<1> QED
  BY <1>2, <1>4, <1>5, <1>6 DEF p, q, leg, back

(* The planner's length of a line is at most two um less than its legs say. *)
LEMMA LineLengthClose ==
  ASSUME ReachFits, NEW d \in [Axes -> Int], NEW e \in [Axes -> Int],
         labs(e["X"] - d["X"]) <= Reach, labs(e["Y"] - d["Y"]) <= Reach
  PROVE  LET steps == Line(Steps(d), Steps(e)).steps
             long  == LineLength(Steps(d), Steps(e))
             um    == length2(steps2position(steps["X"]), steps2position(steps["Y"]))
         IN  long \in Nat /\ um \in Nat /\ long <= um /\ um <= long + 2
<1> DEFINE leg(a) == steps2position(abs(position2steps(a, e[a]) - position2steps(a, d[a])))
           back(a) == steps2position(position2steps(a, d[a]) - position2steps(a, e[a]))
           x == leg("X")
           y == leg("Y")
           bx == back("X")
           by == back("Y")
<1>0. d["X"] \in Int /\ d["Y"] \in Int /\ e["X"] \in Int /\ e["Y"] \in Int
  BY DEF Axes
<1>1. /\ x \in Nat /\ x <= LongestLength
      /\ \E u \in Nat : bx * bx = u * u /\ u <= x /\ x <= u + 1
  BY <1>0, LegClose
<1>2. /\ y \in Nat /\ y <= LongestLength
      /\ \E u \in Nat : by * by = u * u /\ u <= y /\ y <= u + 1
  BY <1>0, LegClose
<1>3. /\ LineLength(Steps(d), Steps(e)) = _sqrt_u64(bx * bx + by * by)
      /\ length2(steps2position(Line(Steps(d), Steps(e)).steps["X"]),
                 steps2position(Line(Steps(d), Steps(e)).steps["Y"])) = _sqrt_u64(x * x + y * y)
  BY DEF LineLength, length2, Line, Steps, Axes
<1> HIDE DEF x, y, bx, by
<1>4. PICK u \in Nat : bx * bx = u * u /\ u <= x /\ x <= u + 1
  BY <1>1
<1>5. PICK v \in Nat : by * by = v * v /\ v <= y /\ y <= v + 1
  BY <1>2
<1> DEFINE M == LongestLength
<1>6. x * x + y * y \in Nat /\ x * x + y * y < RootRange
  <2>1. M \in Nat /\ 2 * (M * M) < RootRange
    <3>1. (2 * XYLength) \div XYSteps \in Nat
      BY RatioAssumption
    <3> QED
      BY <3>1 DEF ReachFits, LongestLength
  <2>2. x <= M /\ y <= M
    BY <1>1, <1>2
  <2> HIDE DEF M
  <2>3. x * x <= M * M /\ y * y <= M * M
    <3>1. x * x <= x * M /\ x * M <= M * M
      BY <1>1, <2>1, <2>2
    <3>2. y * y <= y * M /\ y * M <= M * M
      BY <1>2, <2>1, <2>2
    <3>3. x * x \in Nat /\ x * M \in Nat /\ y * y \in Nat /\ y * M \in Nat /\ M * M \in Nat
      BY <1>1, <1>2, <2>1
    <3> QED
      BY <3>1, <3>2, <3>3
  <2>4. x * x \in Nat /\ y * y \in Nat /\ M * M \in Nat
    BY <1>1, <1>2, <2>1
  <2> QED
    BY <2>1, <2>3, <2>4, RangeTyped
<1>7. u * u + v * v \in Nat /\ u * u + v * v < RootRange
  <2>1. u * u <= u * x /\ u * x <= x * x /\ v * v <= v * y /\ v * y <= y * y
    BY <1>1, <1>2, <1>4, <1>5
  <2>2. /\ u * u \in Nat /\ v * v \in Nat /\ x * x \in Nat /\ y * y \in Nat
        /\ u * x \in Nat /\ v * y \in Nat
    BY <1>1, <1>2
  <2>4. u * u + v * v <= x * x + y * y
    BY <2>1, <2>2
  <2> QED
    BY <1>6, <2>2, <2>4, RangeTyped
<1> DEFINE r == _sqrt_u64(x * x + y * y)
           t == _sqrt_u64(u * u + v * v)
<1>8. r \in Nat /\ r * r <= x * x + y * y /\ x * x + y * y < (r + 1) * (r + 1)
  BY <1>6, RootRoundsDown
<1>9. t \in Nat /\ t * t <= u * u + v * v /\ u * u + v * v < (t + 1) * (t + 1)
  BY <1>7, RootRoundsDown
<1>10. LineLength(Steps(d), Steps(e)) = t
  BY <1>3, <1>4, <1>5
<1> HIDE DEF r, t
<1>11. t <= r /\ r <= t + 2
  BY <1>1, <1>2, <1>4, <1>5, <1>8, <1>9, RootsClose
<1> QED
  BY <1>3, <1>8, <1>9, <1>10, <1>11 DEF r

LEMMA PulsesCounted ==
  ASSUME NEW long \in Nat, NEW um \in Nat, long <= um, um <= long + 2,
         NEW ppm \in Nat, (um + 2) * ppm < LongRange,
         NEW N \in Nat \ {0}, NEW U \in Nat \ {0}, LongRange \div N < U,
         NEW p, p = (((long * ppm) % LongRange) \div N) % U
  PROVE  p * N <= (um + 2) * ppm /\ (p + 1) * N > (um - 2) * ppm
<1> DEFINE m == long * ppm
           top == (um + 2) * ppm
           low == (um - 2) * ppm
           k == m \div N
<1>1. m \in Nat /\ top \in Nat /\ low \in Int /\ m <= top /\ low <= m
  <2>1. (um + 2) - long \in Nat /\ long - (um - 2) \in Nat
    OBVIOUS
  <2>2. ((um + 2) - long) * ppm \in Nat /\ (long - (um - 2)) * ppm \in Nat
    BY <2>1
  <2>3. ((um + 2) - long) * ppm = top - m /\ (long - (um - 2)) * ppm = m - low
    OBVIOUS
  <2>4. m \in Nat /\ top \in Nat /\ low \in Int
    OBVIOUS
  <2> HIDE DEF m, top, low
  <2> QED
    BY <2>2, <2>3, <2>4
<1>2. LongRange \in Nat /\ LongRange > 0
  BY WordAssumption
<1> HIDE DEF m, top, low
<1>3. m < LongRange
  BY <1>1, <1>2 DEF top
<1>4. m % LongRange = m
  BY <1>1, <1>2, <1>3
<1>5. k \in Nat /\ k * N <= m /\ m < (k + 1) * N
  BY <1>1
<1>6. k < U
  <2> DEFINE g == LongRange \div N
  <2>1. g \in Nat /\ LongRange < (g + 1) * N
    BY <1>2
  <2>2. g < U
    OBVIOUS
  <2> HIDE DEF g, k
  <2>3. k * N < (g + 1) * N
    BY <1>1, <1>2, <1>3, <1>5, <2>1
  <2>4. k < g + 1
    BY <1>5, <2>1, <2>3, Multiples
  <2> QED
    BY <1>5, <2>1, <2>2, <2>4
<1>7. k % U = k
  <2> HIDE DEF k
  <2> QED
    BY <1>5, <1>6
<1>8. p = k
  BY <1>4, <1>7 DEF m
<1> HIDE DEF k
<1>9. p * N <= top /\ (p + 1) * N > low
  BY <1>1, <1>5, <1>8
<1> QED
  BY <1>9 DEF top, low

PulseInv == DriftInv /\ IsLaser(laser) /\ PulsesAsLong

LEMMA LinePulses ==
  ASSUME ReachFits, DriftInv, DriftInv', IsLaser(laser), IsLaser(laser'), NEW c \in Commands, G1(c)
  PROVE  PulsesAsLong'
<1> DEFINE long == LineLength(position, target')
           steps == Line(position, target').steps
           um == length2(steps2position(steps["X"]), steps2position(steps["Y"]))
           d == destination
           e == destination'
<1>1. d \in [Axes -> Int] /\ position = Steps(d) /\ e \in [Axes -> Int] /\ target' = Steps(e)
  BY DEF DriftInv, Coordinates, NoDrift
<1>2. labs(e["X"] - d["X"]) <= Reach /\ labs(e["Y"] - d["Y"]) <= Reach
  <2>1. e = get_coordinates(c)
    BY DEF G1, Aim
  <2>2. labs(e["X"] - d["X"]) + labs(e["Y"] - d["Y"]) <= Reach
    BY <2>1 DEF G1, Is, WithinReach
  <2>3. e["X"] - d["X"] \in Int /\ e["Y"] - d["Y"] \in Int
    BY <1>1 DEF Axes
  <2>4. \A n \in Int : labs(n) \in Nat
    BY DEF labs
  <2> QED
    BY <2>2, <2>3, <2>4 DEF ReachFits
<1>3. long \in Nat /\ um \in Nat /\ long <= um /\ um <= long + 2
  BY <1>1, <1>2, LineLengthClose
<1>4. PICK b \in LineBlocks(position, target', speed', laser') : queued' = <<b>>
  BY DEF G1, LineTo
<1>5. b.line.steps = steps /\ b.pulses = LaserSteps(laser', long)
  BY DEF LineBlocks
<1>6. ASSUME ~got(c, "Q") PROVE laser'.pulses = 0
  <2> DEFINE w == AfterB(c, AfterC(c, AfterP(c, AfterL(c, AfterS(c, laser)))))
  <2>1. laser' = [w EXCEPT !.pulses = 0]
    BY <1>6 DEF G1, handle_laser_opts
  <2>2. "pulses" \in DOMAIN laser'
    BY DEF IsLaser, LaserFields
  <2> HIDE DEF w
  <2>3. DOMAIN laser' = DOMAIN w
    BY <2>1
  <2> QED
    BY <2>1, <2>2, <2>3
<1>7. laser'.ppm \in Nat
  BY DEF IsLaser
<1>8. command' = c
  BY DEF G1, Told
<1> HIDE DEF long, um, steps
<1>9. ASSUME ~got(c, "Q"), (um + 2) * laser'.ppm < LongRange
      PROVE  /\ b.pulses * 1000000 <= (um + 2) * laser'.ppm
             /\ (b.pulses + 1) * 1000000 > (um - 2) * laser'.ppm
  <2> DEFINE N == 1000000
             p == b.pulses
             ppm == laser'.ppm
  <2>1. p = (((long * ppm) % LongRange) \div N) % UInt24
    BY <1>5, <1>6, <1>9, SMT DEF LaserSteps
  <2>2. LongRange \div N < UInt24 /\ N \in Nat \ {0} /\ UInt24 \in Nat \ {0}
    BY SMT DEF ReachFits, UInt24
  <2>3. (um + 2) * ppm < LongRange /\ ppm \in Nat
    BY <1>7, <1>9
  <2> HIDE DEF N, p, ppm
  <2>4. p * N <= (um + 2) * ppm /\ (p + 1) * N > (um - 2) * ppm
    BY <1>3, <2>1, <2>2, <2>3, PulsesCounted
  <2> QED
    BY <2>4 DEF N, p, ppm
<1>10. \A x \in Blocks({"LINE"})' : x = b
  BY <1>4 DEF Blocks
<1>11. um = length2(steps2position(b.line.steps["X"]), steps2position(b.line.steps["Y"]))
  BY <1>5 DEF um
<1> QED
  BY <1>8, <1>9, <1>10, <1>11 DEF PulsesAsLong

LEMMA NoLinePulses ==
  ASSUME \A i \in DOMAIN queued : queued[i].job # "LINE"
  PROVE  PulsesAsLong
BY DEF PulsesAsLong, Blocks

LEMMA InitPulses == Init => PulseInv
<1> SUFFICES ASSUME Init PROVE PulseInv
  OBVIOUS
<1>1. DOMAIN queued = {1} /\ queued[1].job = "HOME"
  <2>1. "X" \in {"X", "Y"}
    OBVIOUS
  <2> QED
    BY <2>1 DEF Init, HomeBlock
<1> QED
  BY <1>1, InitNoDrift, InitLaser, NoLinePulses DEF PulseInv
LEMMA NextPulses == ReachFits /\ PulseInv /\ [Next]_vars => PulseInv'
<1> SUFFICES ASSUME ReachFits, PulseInv, Next \/ UNCHANGED vars PROVE PulseInv'
  OBVIOUS
<1>1. DriftInv' /\ IsLaser(laser')
  BY NextNoDrift, NextSticks DEF PulseInv
<1>2. CASE UNCHANGED vars
  BY <1>1, <1>2 DEF PulseInv, PulsesAsLong, Blocks, vars, told_vars
<1>3. ASSUME NEW c \in Commands, process_command(c) PROVE PulsesAsLong'
  <2>1. CASE G1(c)
    BY <1>1, <2>1, LinePulses DEF PulseInv
  <2>2. CASE ~G1(c)
    <3> DEFINE None == \A i \in DOMAIN queued' : queued'[i].job # "LINE"
    <3> SUFFICES None
      BY DEF PulsesAsLong, Blocks
    <3> HIDE DEF None
    <3>m. ASSUME NEW t, MoveTo(t) PROVE None
      <4>1. PICK b \in MoveBlocks(position, t, speed') : queued' = <<b>>
        BY <3>m DEF MoveTo
      <4>2. b.job = "MOVE_TO"
        BY MoveIsDark
      <4> QED
        BY <4>1, <4>2 DEF None
    <3>1. CASE G0(c) \/ Tool(c)
      BY <3>1, <3>m DEF G0, Tool
    <3>2. CASE G2(c) \/ G3(c)
      <4>1. PICK ccw \in BOOLEAN : Arc(c, ccw)
        BY <3>2 DEF G2, G3
      <4>2. ASSUME NEW centre, ArcTo(target', centre, ccw) PROVE None
        <5> DEFINE arc == ArcBlock(position, target',
                            [a \in {"X", "Y"} |-> position2steps(a, centre[a])], speed', laser', ccw)
                   there == [target' EXCEPT !["Z"] = position["Z"]]
        <5>1. arc.job = "ARC"
          BY DEF ArcBlock
        <5>2. \/ queued' = <<arc>>
              \/ \E b \in MoveBlocks(there, target', speed') : queued' = <<arc, b>>
          BY <4>2 DEF ArcTo
        <5> HIDE DEF arc, there
        <5>3. CASE \E b \in MoveBlocks(there, target', speed') : queued' = <<arc, b>>
          <6>1. PICK b \in MoveBlocks(there, target', speed') : queued' = <<arc, b>>
            BY <5>3
          <6>2. b.job = "MOVE_TO"
            BY MoveIsDark
          <6> QED
            BY <5>1, <6>1, <6>2 DEF None
        <5>4. CASE queued' = <<arc>>
          BY <5>1, <5>4 DEF None
        <5> QED
          BY <5>2, <5>3, <5>4
      <4> QED
        BY <3>m, <4>1, <4>2 DEF Arc
    <3>3. CASE G28(c) \/ G92(c)
      <4>1. \A t, axes : HomeBlock(t, axes).job # "LINE"
        BY DEF HomeBlock
      <4>2. queued' = <<>> \/ \E t, axes : queued' = <<HomeBlock(t, axes)>>
        BY <3>3 DEF G28, G92
      <4>3. ASSUME NEW t, NEW axes, queued' = <<HomeBlock(t, axes)>> PROVE None
        BY <4>1, <4>3 DEF None
      <4>4. CASE queued' = <<>>
        BY <4>4 DEF None
      <4> QED
        BY <4>2, <4>3, <4>4
    <3>4. CASE Units(c) \/ M649(c) \/ Other(c)
      <4>1. queued' = <<>>
        BY <3>4 DEF Units, M649, Other
      <4> QED
        BY <4>1 DEF None
    <3> QED
      BY <1>3, <2>2, <3>1, <3>2, <3>3, <3>4 DEF process_command
  <2> QED
    BY <2>1, <2>2
<1> QED
  BY <1>1, <1>2, <1>3 DEF Next, PulseInv

(* A line without Q has as many pulses as fit its own length, for every    *)
(* resolution of the axes and every reach whose steps fit an int and whose *)
(* squares fit the root (planner.c:118).                                   *)
THEOREM PulsesFitLines == ReachFits => (Spec => []PulsesAsLong)
<1> SUFFICES ASSUME ReachFits PROVE Spec => []PulsesAsLong
  OBVIOUS
<1>1. PulseInv => PulsesAsLong
  BY DEF PulseInv
<1>2. PulseInv /\ [Next]_vars => PulseInv'
  BY NextPulses
<1> QED
  BY InitPulses, <1>1, <1>2, PTL DEF Spec
-----------------------------------------------------------------------------
(* The resolution of the axes, the clock and the speeds of the firmware    *)
(* (hw_config.h).                                                          *)
Configured ==
  /\ XYSteps = 7922 /\ XYLength = 100000
  /\ kHz = 16000 /\ MIN_SPEED = 5000 /\ MAX_SPEED = 100984

LEMMA SquareBelow ==
  ASSUME NEW m \in Nat, NEW n \in Nat, m <= n
  PROVE  m * m \in Nat /\ n * n \in Nat /\ m * m <= n * n /\ m * m <= m * n /\ m * n \in Nat
<1>1. m * m <= m * n /\ m * n <= n * n
  OBVIOUS
<1>2. m * m \in Nat /\ n * n \in Nat /\ m * n \in Nat
  OBVIOUS
<1> QED
  BY <1>1, <1>2

(* A number whose square is less than the next square.                     *)
LEMMA RootBelow ==
  ASSUME NEW m \in Nat, NEW k \in Nat, m * m < (k + 1) * (k + 1)
  PROVE  m <= k
<1> SUFFICES ASSUME m >= k + 1 PROVE FALSE
  OBVIOUS
<1> DEFINE n == k + 1
<1>1. n \in Nat /\ n <= m
  OBVIOUS
<1> HIDE DEF n
<1>2. n * n <= m * m /\ n * n \in Nat /\ m * m \in Nat
  BY <1>1, SquareBelow
<1> QED
  BY <1>2 DEF n

(* The squares of the legs, in steps and in um: 3961 times twice a um is   *)
(* 100000 times a step, up to three halves of a um.                        *)
LEMMA LegSquare ==
  ASSUME NEW g \in Nat, NEW m \in Nat,
         15844 * m <= 200000 * g + 7922, 200000 * g <= 15844 * m + 23766
  PROVE  /\ g * g \in Nat /\ m * m \in Nat
         /\ 10000000000 * (g * g) <= 15689521 * (4 * (m * m) + 12 * m + 9)
         /\ 15689521 * (4 * (m * m) - 4 * m) <= 10000000000 * (g * g)
<1> DEFINE a == m * m
           c == 100000 * g
           d == 3961 * (2 * m + 3)
<1>1. c \in Nat /\ d \in Nat /\ c <= d
  OBVIOUS
<1>2. c * c <= d * d
  BY <1>1, SquareBelow
<1>3. c * c = 10000000000 * (g * g) /\ d * d = 15689521 * (4 * (m * m) + 12 * m + 9)
  OBVIOUS
<1>4. 15689521 * (4 * (m * m) - 4 * m) <= 10000000000 * (g * g)
  <2>1. CASE m = 0
    BY <2>1
  <2>2. CASE m >= 1
    <3> DEFINE e == 3961 * (2 * m - 1)
    <3>1. e \in Nat /\ e <= c
      BY <2>2
    <3>2. e * e <= c * c
      BY <1>1, <3>1, SquareBelow
    <3>3. e * e = 15689521 * (4 * (m * m) - 4 * m + 1)
      OBVIOUS
    <3>4. m * m \in Nat /\ g * g \in Nat
      OBVIOUS
    <3> HIDE DEF c, d, e
    <3> QED BY <1>3, <3>2, <3>3, <3>4
  <2> QED BY <2>1, <2>2
<1>5. m * m \in Nat /\ g * g \in Nat
  OBVIOUS
<1> HIDE DEF c, d
<1> QED
  BY <1>2, <1>3, <1>4, <1>5

(* A leg of m um for g steps; a root; and what follows for a line.         *)
LegOf(m, g) ==
  m \in Nat /\ g \in Nat /\ 15844 * m <= 200000 * g + 7922 /\ 200000 * g <= 15844 * m + 23766
RootOf(t, q) == t \in Nat /\ t * t <= q /\ q < (t + 1) * (t + 1)
LongAs(t, g, h) ==
  t >= 1007 /\ 158 * (g * g + h * h) <= t * t /\ t * t <= 160 * (g * g + h * h)

(* The length of a line, squared, is close to what its steps are long.     *)
LEMMA LengthOfSteps ==
  ASSUME NEW g, NEW h, NEW m, NEW n, NEW long, g >= 80 \/ h >= 80,
         LegOf(m, g), LegOf(n, h), RootOf(long, m * m + n * n)
  PROVE  LongAs(long, g, h)
<1>0. /\ g \in Nat /\ h \in Nat /\ m \in Nat /\ n \in Nat /\ long \in Nat
      /\ 15844 * m <= 200000 * g + 7922 /\ 200000 * g <= 15844 * m + 23766
      /\ 15844 * n <= 200000 * h + 7922 /\ 200000 * h <= 15844 * n + 23766
  BY DEF LegOf, RootOf
<1>r. long * long <= m * m + n * n /\ m * m + n * n < (long + 1) * (long + 1)
  BY DEF RootOf
<1>1. /\ m * m \in Nat /\ n * n \in Nat /\ g * g \in Nat /\ h * h \in Nat /\ long * long \in Nat
      /\ (long + 1) * (long + 1) = long * long + 2 * long + 1
  BY <1>0
<1>2. m <= long /\ n <= long
  <2>1. m * m < (long + 1) * (long + 1) /\ n * n < (long + 1) * (long + 1)
    BY <1>0, <1>1, <1>r
  <2> QED
    BY <1>0, <2>1, RootBelow
<1>3. long >= 1007
  BY <1>0, <1>2
<1>4. /\ 10000000000 * (g * g) <= 15689521 * (4 * (m * m) + 12 * m + 9)
      /\ 15689521 * (4 * (m * m) - 4 * m) <= 10000000000 * (g * g)
      /\ 10000000000 * (h * h) <= 15689521 * (4 * (n * n) + 12 * n + 9)
      /\ 15689521 * (4 * (n * n) - 4 * n) <= 10000000000 * (h * h)
  BY <1>0, LegSquare
<1>5. 1007 * long <= long * long
  BY <1>0, <1>3
<1> DEFINE s == g * g + h * h
           q == m * m + n * n
           l == long * long
<1>6. /\ s \in Nat /\ q \in Nat /\ l \in Nat /\ l <= q /\ q <= l + 2 * long /\ 1007 * long <= l
      /\ 10000000000 * s <= 15689521 * (4 * q + 24 * long + 18)
      /\ 15689521 * (4 * q - 8 * long) <= 10000000000 * s
  <2>1. s \in Nat /\ q \in Nat /\ l \in Nat
    BY <1>1
  <2>2. 10000000000 * s <= 15689521 * (4 * q + 12 * m + 12 * n + 18)
    BY <1>0, <1>1, <1>4
  <2>3. 15689521 * (4 * q - 4 * m - 4 * n) <= 10000000000 * s
    BY <1>0, <1>1, <1>4
  <2>4. l <= q /\ q <= l + 2 * long
    BY <1>0, <1>1, <1>r
  <2> HIDE DEF s, q, l
  <2>5. 1007 * long <= l
    BY <1>5 DEF l
  <2> QED
    BY <1>0, <1>2, <2>1, <2>2, <2>3, <2>4, <2>5
<1> HIDE DEF s, q, l
<1>7. 158 * s <= l /\ l <= 160 * s
  BY <1>0, <1>3, <1>6
<1> QED
  BY <1>3, <1>7 DEF s, l, LongAs

(* The length of s steps, whichever way they go, in um.                    *)
LEMMA LegOfSteps ==
  ASSUME Configured, NEW s \in Nat, NEW t \in Int, t = s \/ t = -s
  PROVE  \E m \in Nat : /\ steps2position(t) * steps2position(t) = m * m
                        /\ m <= steps2position(s)
                        /\ 15844 * m <= 200000 * s + 7922
                        /\ 200000 * s <= 15844 * m + 23766
<1> DEFINE top == (100000 * s + 3961) \div 7922
           low == (100000 * s - 3961) \div 7922
<1>1. /\ steps2position(s) = Quotient(100000 * s + 3961, 7922)
      /\ steps2position(-s) = Quotient((-s) * 100000 + 3961, 7922)
  BY DEF steps2position, Configured
<1>2. steps2position(s) = top /\ top \in Nat /\ 7922 * top <= 100000 * s + 3961
      /\ 100000 * s + 3961 < 7922 * top + 7922
  BY <1>1 DEF Quotient
<1>3. CASE t = s
  BY <1>2, <1>3
<1>4. CASE t = -s /\ s = 0
  BY <1>2, <1>4
<1>5. CASE t = -s /\ s > 0
  <2>1. steps2position(-s) = -low /\ low \in Nat /\ 7922 * low <= 100000 * s - 3961
        /\ 100000 * s - 3961 < 7922 * low + 7922
    BY <1>1, <1>5 DEF Quotient
  <2>2. low <= top
    BY <1>2, <2>1
  <2> HIDE DEF low, top
  <2>3. (-low) * (-low) = low * low
    BY <2>1
  <2> QED
    BY <1>2, <1>5, <2>1, <2>2, <2>3
<1> QED
  BY <1>3, <1>4, <1>5

(* F_CPU * um \div rate, in spite of the two parts it is put together of.  *)
LEMMA CyclesExact ==
  ASSUME Configured, NEW um \in Nat, NEW r \in Nat \ {0}
  PROVE  /\ Cycles(um, r) \in Nat /\ Cycles(um, r) * r \in Nat
         /\ Cycles(um, r) * r <= 16000000 * um
         /\ 16000000 * um < Cycles(um, r) * r + r
<1> DEFINE a == 16000 * um
           q == a \div r
           b == a % r
           f == (1000 * b) \div r
<1>1. Cycles(um, r) = 1000 * q + f
  BY DEF Cycles, Configured
<1>2. a \in Nat
  OBVIOUS
<1>a. 16000000 * um = 1000 * a
  OBVIOUS
<1> HIDE DEF a
<1>3. q \in Nat /\ b \in Nat /\ a = q * r + b /\ q * r \in Nat
  BY <1>2
<1> HIDE DEF q, b
<1>4. f \in Nat /\ f * r <= 1000 * b /\ 1000 * b < f * r + r /\ f * r \in Nat
  BY <1>3
<1> HIDE DEF f
<1>5. (1000 * q + f) * r = 1000 * (q * r) + f * r
  BY <1>3, <1>4
<1> QED
  BY <1>1, <1>3, <1>4, <1>5, <1>a

LEMMA TicksFit ==
  ASSUME NEW C \in Nat, NEW r \in Nat, NEW um \in Nat, NEW M \in Nat \ {0},
         r >= 5000, um < 18 * M, C * r <= 16000000 * um,
         NEW n \in Nat, n = (C \div M) % 65536
  PROVE  n * M \in Nat /\ n * M <= C /\ C < n * M + M
<1> DEFINE k == C \div M
<1>1. k \in Nat /\ k * M \in Nat /\ k * M <= C /\ C < k * M + M
  OBVIOUS
<1>2. 5000 * C <= C * r
  OBVIOUS
<1>3. C < 57600 * M
  BY <1>2
<1>4. k < 57600
  <2> HIDE DEF k
  <2>1. k * M < 57600 * M
    BY <1>1, <1>3
  <2> QED
    BY <1>1, <2>1, Multiples
<1>5. n = k
  BY <1>1, <1>4
<1> QED
  BY <1>1, <1>5

(* What the ticks of a line travel at its speed, against its length: at    *)
(* most what the length is in steps, and at least 98.8% of it.             *)
LEMMA PaceNear ==
  ASSUME NEW um \in Nat, NEW M \in Nat, M >= 80, 12 * M <= um, um < 18 * M, um >= 1007,
         NEW v \in Nat, v >= 5000, v <= 100984,
         NEW r \in Nat, r = v \/ r = v + 1,
         NEW C \in Nat, C * r <= 16000000 * um, 16000000 * um < C * r + r,
         NEW P \in Nat, P <= C, C < P + M,
         NEW T, T = ((P \div 1000) * (v \div 10)) \div 20196
  PROVE  /\ T \in Nat
         /\ 7766 * um <= 100000 * T
         /\ 20196 * T <= 1600 * um
<1> DEFINE A == P \div 1000
           S == v \div 10
<1>s. v \in Nat /\ v >= 5000 /\ v <= 100984 /\ (r = v \/ r = v + 1)
  OBVIOUS
<1>1. r \in Nat \ {0} /\ r >= 5000 /\ r <= 100985 /\ S \in Nat /\ 10 * S <= r /\ r <= 10 * S + 10
  BY <1>s
<1>2. C \in Nat /\ C * r \in Nat /\ C * r <= 16000000 * um /\ 16000000 * um < C * r + r
  BY <1>1
<1>3. P \in Nat /\ P <= C /\ C < P + M
  OBVIOUS
<1>4. T = (A * S) \div 20196
  OBVIOUS
<1> HIDE DEF S
<1>5. A \in Nat /\ 1000 * A <= P /\ P <= 1000 * A + 999
  BY <1>3
<1> HIDE DEF A
<1> DEFINE X == A * S
<1>6. X \in Nat
  BY <1>1, <1>5
<1>7. T \in Nat /\ 20196 * T <= X /\ X <= 20196 * T + 20195
  <2> HIDE DEF X
  <2> QED BY <1>4, <1>6 DEF X
<1>8. 10000 * X <= C * r
  <2>1. (1000 * A) * (10 * S) <= C * (10 * S)
    BY <1>1, <1>2, <1>3, <1>5
  <2>2. C * (10 * S) <= C * r
    BY <1>1, <1>2
  <2>3. (1000 * A) * (10 * S) = 10000 * X /\ C * (10 * S) \in Nat
    BY <1>1, <1>2, <1>5
  <2> QED BY <1>2, <1>6, <2>1, <2>2, <2>3
<1>9. C * r <= 10000 * X + 10 * C + M * r + 998 * r
  <2>1. C <= 1000 * A + 998 + M
    BY <1>2, <1>3, <1>5
  <2>2. C * r <= (1000 * A + 998 + M) * r
    BY <1>1, <1>2, <1>5, <2>1
  <2>3. (1000 * A + 998 + M) * r = (1000 * A) * r + 998 * r + M * r
    BY <1>1, <1>5
  <2>4. (1000 * A) * r <= (1000 * A) * (10 * S + 10)
    BY <1>1, <1>5
  <2>5. (1000 * A) * (10 * S + 10) = 10000 * X + 10000 * A
    BY <1>1, <1>5
  <2>6. 10000 * A <= 10 * C
    BY <1>2, <1>3, <1>5
  <2>7. (1000 * A) * r \in Nat /\ M * r \in Nat /\ 998 * r \in Nat
    BY <1>1, <1>5
  <2> HIDE DEF X
  <2> QED BY <1>2, <1>5, <1>6, <2>2, <2>3, <2>4, <2>5, <2>6, <2>7
<1> HIDE DEF X
<1>10. 10 * C + M * r + 999 * r <= 111799 * um
  <2>1. 12 * (M * r) <= um * r
    BY <1>1
  <2>2. CASE r <= 50000
    <3>1. C * 5000 <= C * r /\ um * r <= um * 50000
      BY <1>1, <1>2, <2>2
    <3>2. C <= 3200 * um
      BY <1>1, <1>2, <3>1
    <3>3. M * r \in Nat /\ um * r \in Nat
      BY <1>1
    <3>4. 999 * r <= 49604 * um
      BY <1>1, <2>2
    <3> DEFINE a == M * r   b == um * r
    <3>5. 12 * a <= b /\ a \in Nat /\ b \in Nat /\ b <= 50000 * um
      BY <2>1, <3>1, <3>3
    <3> HIDE DEF a, b
    <3>6. 10 * C + a + 999 * r <= 111799 * um
      BY <1>1, <1>2, <3>2, <3>4, <3>5
    <3> QED BY <3>6 DEF a
  <2>3. CASE r > 50000
    <3>1. C * 50000 <= C * r /\ um * r <= um * 100985
      BY <1>1, <1>2, <2>3
    <3>2. C <= 320 * um
      BY <1>1, <1>2, <3>1
    <3>3. M * r \in Nat /\ um * r \in Nat
      BY <1>1
    <3>4. 999 * r <= 100183 * um
      BY <1>1
    <3> DEFINE a == M * r   b == um * r
    <3>5. 12 * a <= b /\ a \in Nat /\ b \in Nat /\ b <= 100985 * um
      BY <2>1, <3>1, <3>3
    <3> HIDE DEF a, b
    <3>6. 10 * C + a + 999 * r <= 111799 * um
      BY <1>1, <1>2, <3>2, <3>4, <3>5
    <3> QED BY <3>6 DEF a
  <2> QED BY <1>1, <2>2, <2>3
<1>11. 20196 * T <= 1600 * um /\ 7766 * um <= 100000 * T
  <2>1. M * r \in Nat
    BY <1>1
  <2>2. 16000000 * um <= 10000 * X + 111799 * um
    BY <1>1, <1>2, <1>6, <1>9, <1>10, <2>1
  <2>3. X <= 1600 * um
    BY <1>2, <1>6, <1>8
  <2> QED BY <1>6, <1>7, <2>2, <2>3
<1> QED
  BY <1>7, <1>11

(* A line of a millimetre or more travels its own length.                  *)
LEMMA SquareNear ==
  ASSUME NEW T \in Nat, NEW um \in Nat, NEW s \in Nat,
         7766 * um <= 100000 * T, 20196 * T <= 1600 * um,
         158 * s <= um * um, um * um <= 160 * s
  PROVE  20 * (T * T - s) <= s /\ 20 * (s - T * T) <= s
<1> DEFINE t == T * T
           l == um * um
<1>1. t \in Nat /\ l \in Nat
  OBVIOUS
<1>2. 60310756 * l <= 10000000000 * t
  <2> DEFINE a == 7766 * um   b == 100000 * T
  <2>1. a \in Nat /\ b \in Nat /\ a <= b
    OBVIOUS
  <2>2. a * a = 60310756 * l /\ b * b = 10000000000 * t
    OBVIOUS
  <2> HIDE DEF a, b
  <2>3. a * a <= b * b
    BY <2>1, SquareBelow
  <2> QED BY <2>2, <2>3
<1>3. 407878416 * t <= 2560000 * l
  <2> DEFINE a == 20196 * T   b == 1600 * um
  <2>1. a \in Nat /\ b \in Nat /\ a <= b
    OBVIOUS
  <2>2. a * a = 407878416 * t /\ b * b = 2560000 * l
    OBVIOUS
  <2> HIDE DEF a, b
  <2>3. a * a <= b * b
    BY <2>1, SquareBelow
  <2> QED BY <2>2, <2>3
<1> HIDE DEF t, l
<1>4. 158 * s <= l /\ l <= 160 * s
  BY DEF l
<1>5. 20 * (t - s) <= s /\ 20 * (s - t) <= s
  BY <1>1, <1>2, <1>3, <1>4
<1> QED BY <1>5 DEF t

(* One leg of a line: its steps, and the planner's length of it.           *)
LEMMA LegLength ==
  ASSUME Configured, ReachFits, NEW a \in {"X", "Y"}, NEW d \in Int, NEW e \in Int,
         labs(e - d) <= Reach
  PROVE  LET back == steps2position(position2steps(a, d) - position2steps(a, e))
             g    == abs(position2steps(a, e) - position2steps(a, d))
         IN  /\ g \in Nat
             /\ \E m \in Nat : /\ back * back = m * m /\ m <= LongestLength
                               /\ 15844 * m <= 200000 * g + 7922
                               /\ 200000 * g <= 15844 * m + 23766
<1> DEFINE p == position2steps(a, d)
           q == position2steps(a, e)
           g == labs(q - p)
<1>1. p \in Int /\ q \in Int /\ g \in Nat /\ 2 * g < IntRange
  BY StepsApart
<1>2. steps2position(abs(q - p)) \in Nat /\ steps2position(abs(q - p)) <= LongestLength
  BY LegClose
<1>l. LongestLength \in Nat
  <2>1. (2 * XYLength) \div XYSteps \in Nat
    BY RatioAssumption
  <2> QED BY <2>1 DEF ReachFits, LongestLength
<1> HIDE DEF p, q
<1>3. abs(q - p) = g
  BY <1>1, AbsFits
<1>4. p - q = -g \/ p - q = g
  BY <1>1 DEF labs
<1> HIDE DEF g
<1>5. PICK m \in Nat : /\ steps2position(p - q) * steps2position(p - q) = m * m
                       /\ m <= steps2position(g)
                       /\ 15844 * m <= 200000 * g + 7922
                       /\ 200000 * g <= 15844 * m + 23766
  <2> DEFINE t == p - q
  <2>1. t \in Int /\ (t = g \/ t = -g)
    BY <1>1, <1>4
  <2> HIDE DEF t
  <2>2. \E m \in Nat : /\ steps2position(t) * steps2position(t) = m * m
                      /\ m <= steps2position(g)
                      /\ 15844 * m <= 200000 * g + 7922
                      /\ 200000 * g <= 15844 * m + 23766
    BY <1>1, <2>1, LegOfSteps
  <2> QED BY <2>2 DEF t
<1>6. m <= LongestLength
  BY <1>2, <1>3, <1>5, <1>l
<1> QED
  BY <1>1, <1>3, <1>5, <1>6 DEF p, q

(* The root of two squares of legs within reach.                           *)
LEMMA RootOfLegs ==
  ASSUME ReachFits, NEW m \in Nat, NEW n \in Nat, m <= LongestLength, n <= LongestLength
  PROVE  LET t == _sqrt_u64(m * m + n * n)
         IN  t \in Nat /\ t * t <= m * m + n * n /\ m * m + n * n < (t + 1) * (t + 1)
<1> DEFINE M == LongestLength
           q == m * m + n * n
<1>1. M \in Nat /\ 2 * (M * M) < RootRange
  <2>1. (2 * XYLength) \div XYSteps \in Nat
    BY RatioAssumption
  <2> QED BY <2>1 DEF ReachFits, LongestLength
<1> HIDE DEF M
<1>2. m <= M /\ n <= M
  BY DEF M
<1>3. m * m \in Nat /\ n * n \in Nat /\ M * M \in Nat /\ m * m <= M * M /\ n * n <= M * M
  BY <1>1, <1>2, SquareBelow
<1>4. q \in Nat /\ q < RootRange
  BY <1>1, <1>3, RangeTyped
<1> HIDE DEF q
<1>5. _sqrt_u64(q) \in Nat /\ _sqrt_u64(q) * _sqrt_u64(q) <= q
      /\ q < (_sqrt_u64(q) + 1) * (_sqrt_u64(q) + 1)
  BY <1>4, RootRoundsDown
<1> QED
  BY <1>5 DEF q

(* What a line of a millimetre or more is long, to its steps: between 12   *)
(* and 18 um to each step of its longer axis, and in squares between 158   *)
(* and 160 um^2 to each step^2.                                            *)
LEMMA LineOfSteps ==
  ASSUME Configured, ReachFits, NEW d \in [Axes -> Int], NEW e \in [Axes -> Int],
         labs(e["X"] - d["X"]) <= Reach, labs(e["Y"] - d["Y"]) <= Reach
  PROVE  LET g     == Line(Steps(d), Steps(e)).steps["X"]
             h     == Line(Steps(d), Steps(e)).steps["Y"]
             major == max(g, h)
             long  == LineLength(Steps(d), Steps(e))
         IN  /\ g \in Nat /\ h \in Nat /\ major \in Nat
             /\ major >= 80 => /\ long \in Nat /\ long >= 1007
                               /\ 12 * major <= long /\ long < 18 * major
                               /\ 158 * (g * g + h * h) <= long * long
                               /\ long * long <= 160 * (g * g + h * h)
<1> DEFINE step(a) == abs(position2steps(a, e[a]) - position2steps(a, d[a]))
           back(a) == steps2position(position2steps(a, d[a]) - position2steps(a, e[a]))
           g == step("X")
           h == step("Y")
           bx == back("X")
           by == back("Y")
           major == max(g, h)
           long == LineLength(Steps(d), Steps(e))
<1>0. d["X"] \in Int /\ d["Y"] \in Int /\ e["X"] \in Int /\ e["Y"] \in Int
  BY DEF Axes
<1>1. g \in Nat /\ \E m \in Nat : /\ bx * bx = m * m /\ m <= LongestLength
                                  /\ 15844 * m <= 200000 * g + 7922
                                  /\ 200000 * g <= 15844 * m + 23766
  BY <1>0, LegLength
<1>2. h \in Nat /\ \E m \in Nat : /\ by * by = m * m /\ m <= LongestLength
                                  /\ 15844 * m <= 200000 * h + 7922
                                  /\ 200000 * h <= 15844 * m + 23766
  BY <1>0, LegLength
<1>3. /\ LineLength(Steps(d), Steps(e)) = _sqrt_u64(bx * bx + by * by)
      /\ Line(Steps(d), Steps(e)).steps["X"] = g
      /\ Line(Steps(d), Steps(e)).steps["Y"] = h
  BY DEF LineLength, length2, Line, Steps, Axes
<1> HIDE DEF g, h, bx, by
<1>4. PICK m \in Nat : /\ bx * bx = m * m /\ m <= LongestLength
                       /\ 15844 * m <= 200000 * g + 7922 /\ 200000 * g <= 15844 * m + 23766
  BY <1>1
<1>5. PICK n \in Nat : /\ by * by = n * n /\ n <= LongestLength
                       /\ 15844 * n <= 200000 * h + 7922 /\ 200000 * h <= 15844 * n + 23766
  BY <1>2
<1>6. long \in Nat /\ long * long <= m * m + n * n /\ m * m + n * n < (long + 1) * (long + 1)
  <2>1. long = _sqrt_u64(m * m + n * n)
    BY <1>3, <1>4, <1>5
  <2> HIDE DEF long
  <2> QED BY <1>4, <1>5, <2>1, RootOfLegs
<1> HIDE DEF long
<1>7. major \in Nat /\ g <= major /\ h <= major /\ (major = g \/ major = h)
  BY <1>1, <1>2 DEF max
<1> HIDE DEF major
<1>8. ASSUME major >= 80
      PROVE  /\ long >= 1007 /\ 12 * major <= long /\ long < 18 * major
             /\ 158 * (g * g + h * h) <= long * long /\ long * long <= 160 * (g * g + h * h)
  <2>1. g >= 80 \/ h >= 80
    BY <1>7, <1>8
  <2>2. /\ long >= 1007
        /\ 158 * (g * g + h * h) <= long * long /\ long * long <= 160 * (g * g + h * h)
    <3>1. LegOf(m, g) /\ LegOf(n, h) /\ RootOf(long, m * m + n * n)
      BY <1>1, <1>2, <1>4, <1>5, <1>6 DEF LegOf, RootOf
    <3>2. LongAs(long, g, h)
      BY <2>1, <3>1, LengthOfSteps, Zenon
    <3> QED
      BY <3>2 DEF LongAs
  <2>3. m <= long /\ n <= long
    <3>1. m * m \in Nat /\ n * n \in Nat /\ (long + 1) * (long + 1) \in Nat
      BY <1>6
    <3>2. m * m < (long + 1) * (long + 1) /\ n * n < (long + 1) * (long + 1)
      BY <1>6, <3>1
    <3> QED BY <1>6, <3>2, RootBelow
  <2>4. 12 * major <= long
    BY <1>1, <1>2, <1>4, <1>5, <1>6, <1>7, <1>8, <2>3
  <2>5. long < 18 * major
    <3> SUFFICES ASSUME long >= 18 * major PROVE FALSE
      BY <1>6, <1>7
    <3> DEFINE k == 18 * major
    <3>1. k \in Nat /\ k <= long
      BY <1>7
    <3>2. k * k = 324 * (major * major)
      BY <1>7
    <3> HIDE DEF k
    <3>3. k * k <= long * long
      BY <1>6, <3>1, SquareBelow
    <3>4. g * g <= major * major /\ h * h <= major * major
          /\ g * g \in Nat /\ h * h \in Nat /\ major * major \in Nat
      BY <1>1, <1>2, <1>7, SquareBelow
    <3>5. 6400 <= major * major
      BY <1>7, <1>8
    <3>6. long * long \in Nat
      BY <1>6
    <3> QED BY <2>2, <3>2, <3>3, <3>4, <3>5, <3>6
  <2> QED BY <2>2, <2>4, <2>5
<1> QED
  BY <1>1, <1>2, <1>3, <1>6, <1>7, <1>8 DEF major, long

(* A block whose ticks, at speed s, travel the length of its line.         *)
Paced(b, s) ==
  LET gx == b.line.steps["X"]
      gy == b.line.steps["Y"]
      major == max(gx, gy)
      squared == gx * gx + gy * gy
      travelled == (((b.ticks * major) \div 1000) * (s \div 10))
                     \div (((kHz \div 10) * XYLength) \div XYSteps)
  IN  major >= 80 => 20 * labs(travelled * travelled - squared) <= squared

LEMMA PacedBlocks ==
  ASSUME \A i \in DOMAIN queued : queued[i].job \in {"MOVE_TO", "LINE"} => Paced(queued[i], speed)
  PROVE  PaceRight
<1> SUFFICES ASSUME NEW b \in Blocks({"MOVE_TO", "LINE"}) PROVE Paced(b, speed)
  BY Zenon DEF PaceRight, Paced, Travelled
<1> QED
  BY DEF Blocks

LEMMA StepLength == Configured => ((kHz \div 10) * XYLength) \div XYSteps = 20196
  BY DEF Configured

LEMMA TravelsItsLength ==
  ASSUME Configured, NEW major \in Nat, NEW long \in Nat,
         major >= 80, long >= 1007, 12 * major <= long, long < 18 * major,
         NEW v \in Nat, v >= 5000, v <= 100984, NEW r \in Nat, r = v \/ r = v + 1
  PROVE  LET n == (Cycles(long, r) \div major) % 65536
             T == (((n * major) \div 1000) * (v \div 10)) \div 20196
         IN  n \in Nat /\ T \in Nat /\ 7766 * long <= 100000 * T /\ 20196 * T <= 1600 * long
<1> DEFINE C == Cycles(long, r)
           n == (C \div major) % 65536
           P == n * major
           T == ((P \div 1000) * (v \div 10)) \div 20196
<1>1. r \in Nat \ {0} /\ r >= 5000 /\ major \in Nat \ {0}
  OBVIOUS
<1>2. C \in Nat /\ C * r <= 16000000 * long /\ 16000000 * long < C * r + r
  BY <1>1, CyclesExact
<1> HIDE DEF C
<1>3. n \in Nat
  BY <1>1, <1>2
<1>4. n = (C \div major) % 65536
  OBVIOUS
<1> HIDE DEF n
<1>5. P \in Nat /\ P <= C /\ C < P + major
  <2>1. n * major \in Nat /\ n * major <= C /\ C < n * major + major
    BY <1>1, <1>2, <1>3, <1>4, TicksFit
  <2> QED BY <2>1
<1>6. T = ((P \div 1000) * (v \div 10)) \div 20196
  OBVIOUS
<1> HIDE DEF P, T
<1>7. T \in Nat /\ 7766 * long <= 100000 * T /\ 20196 * T <= 1600 * long
  BY <1>1, <1>2, <1>5, <1>6, PaceNear
<1> QED
  BY <1>3, <1>7 DEF C, n, P, T

(* Any line between coordinates within reach, at any speed of the machine. *)
LEMMA TicksPaced ==
  ASSUME Configured, ReachFits, NEW d \in [Axes -> Int], NEW e \in [Axes -> Int],
         labs(e["X"] - d["X"]) <= Reach, labs(e["Y"] - d["Y"]) <= Reach,
         NEW s \in Nat, MIN_SPEED <= s, s <= MAX_SPEED, NEW r \in Nat, r = s \/ r = s + 1,
         NEW b, b.line = Line(Steps(d), Steps(e)), b.ticks \in Ticks(Steps(d), Steps(e), r)
  PROVE  Paced(b, s)
<1> DEFINE line == Line(Steps(d), Steps(e))
           g == line.steps["X"]
           h == line.steps["Y"]
           major == max(g, h)
           long == LineLength(Steps(d), Steps(e))
           S == g * g + h * h
           k == (Cycles(long, r) \div major) % 65536
           T == (((k * major) \div 1000) * (s \div 10)) \div 20196
<1>1. /\ g \in Nat /\ h \in Nat /\ major \in Nat
      /\ major >= 80 => /\ long \in Nat /\ long >= 1007
                        /\ 12 * major <= long /\ long < 18 * major
                        /\ 158 * (g * g + h * h) <= long * long
                        /\ long * long <= 160 * (g * g + h * h)
  BY LineOfSteps
<1>2. s >= 5000 /\ s <= 100984
  BY DEF Configured
<1>3. ((kHz \div 10) * XYLength) \div XYSteps = 20196
  BY StepLength
<1>4. \E m \in Pace(long, r, major) : b.ticks = m % 65536
  BY DEF Ticks
<1>5. b.line = line
  OBVIOUS
<1> HIDE DEF line
<1>6. ASSUME major >= 80 PROVE b.ticks = k /\ 20 * labs(T * T - S) <= S
  <2> HIDE DEF g, h, long, major
  <2>1. b.ticks = k
    BY <1>1, <1>4, <1>6 DEF Pace
  <2>2. T \in Nat /\ 7766 * long <= 100000 * T /\ 20196 * T <= 1600 * long
    BY <1>1, <1>2, <1>6, TravelsItsLength
  <2>3. S \in Nat /\ 158 * S <= long * long /\ long * long <= 160 * S
    BY <1>1, <1>6
  <2> HIDE DEF S, T, k
  <2> QED
    <3>1. 20 * labs(T * T - S) <= S
      <4>1. long \in Nat
        BY <1>1, <1>6
      <4> HIDE DEF long
      <4>2. 20 * (T * T - S) <= S /\ 20 * (S - T * T) <= S
        BY <2>2, <2>3, <4>1, SquareNear
      <4> DEFINE t == T * T
      <4>3. t \in Nat
        BY <2>2
      <4>4. 20 * (t - S) <= S /\ 20 * (S - t) <= S
        BY <4>2
      <4> HIDE DEF t
      <4>5. 20 * labs(t - S) <= S
        BY <2>3, <4>3, <4>4 DEF labs
      <4> QED BY <4>5 DEF t
    <3> QED
      BY <2>1, <3>1
<1> DEFINE n == b.ticks
           G == b.line.steps["X"]
           H == b.line.steps["Y"]
           M == max(G, H)
           D == (((n * M) \div 1000) * (s \div 10)) \div (((kHz \div 10) * XYLength) \div XYSteps)
<1>7. G = g /\ H = h /\ M = major
  BY <1>5
<1>8. ASSUME M >= 80 PROVE 20 * labs(D * D - (G * G + H * H)) <= G * G + H * H
  <2>1. n = k /\ 20 * labs(T * T - S) <= S
    BY <1>6, <1>7, <1>8
  <2>2. D = T
    <3> HIDE DEF k, n, M, major
    <3> QED BY <1>3, <1>7, <2>1
  <2>3. G * G + H * H = S
    BY <1>7
  <2> HIDE DEF D, T, S, G, H
  <2> QED
    BY <2>1, <2>2, <2>3
<1> QED
  BY <1>8, Zenon DEF Paced

(* The tool's move, and the one in Z that follows an arc, have no steps in *)
(* X and Y.                                                                *)
LEMMA NoStepsPaced ==
  ASSUME NEW b, NEW p, NEW t, b.line = Line(p, t), NEW s,
         p["X"] \in Int, p["Y"] \in Int, t["X"] = p["X"], t["Y"] = p["Y"]
  PROVE  Paced(b, s)
<1>1. abs(0) = 0
  <2>1. IntRange \in Nat \ {0}
    BY WordAssumption
  <2>2. 0 % IntRange = 0
    BY <2>1
  <2> QED
    BY <2>1, <2>2 DEF abs
<1>2. b.line.steps["X"] = 0 /\ b.line.steps["Y"] = 0
  <2>1. t["X"] - p["X"] = 0 /\ t["Y"] - p["Y"] = 0
    OBVIOUS
  <2> QED
    BY <1>1, <2>1 DEF Line, Axes
<1> DEFINE M == max(b.line.steps["X"], b.line.steps["Y"])
<1>3. M = 0
  BY <1>2 DEF max
<1>4. ~(M >= 80)
  BY <1>3
<1> QED
  BY <1>3, <1>4, Zenon DEF Paced

PaceInv == DriftInv /\ speed \in MIN_SPEED .. MAX_SPEED /\ PaceRight

LEMMA SpeedTyped ==
  ASSUME speed \in MIN_SPEED .. MAX_SPEED, NEW c \in Commands
  PROVE  NewSpeed(c) \in Nat /\ MIN_SPEED <= NewSpeed(c) /\ NewSpeed(c) <= MAX_SPEED
<1>1. Number(c, "F") \in Int
  BY CommandAssumption DEF Number, got
<1> DEFINE n == Number(c, "F")
           q == Quotient(n + 30, 60)
<1>2. q \in Int
  BY <1>1, QuotientNear
<1>3. NewSpeed(c) = IF n <= 0 THEN speed ELSE min(max(q, MIN_SPEED), MAX_SPEED)
  BY DEF NewSpeed
<1> HIDE DEF n, q
<1>4. min(max(q, MIN_SPEED), MAX_SPEED) \in MIN_SPEED .. MAX_SPEED
  BY <1>2, SpeedAssumption DEF min, max
<1>5. NewSpeed(c) \in MIN_SPEED .. MAX_SPEED
  BY <1>3, <1>4
<1> QED
  BY <1>5, SpeedAssumption

LEMMA InitPace == Init => PaceInv
<1> SUFFICES ASSUME Init PROVE PaceInv
  OBVIOUS
<1>1. DOMAIN queued = {1} /\ queued[1].job = "HOME"
  <2>1. "X" \in {"X", "Y"}
    OBVIOUS
  <2> QED
    BY <2>1 DEF Init, HomeBlock
<1>2. speed \in MIN_SPEED .. MAX_SPEED
  BY SpeedAssumption DEF Init
<1> QED
  BY <1>1, <1>2, InitNoDrift, PacedBlocks DEF PaceInv

LEMMA NextPace == Configured /\ ReachFits /\ PaceInv /\ [Next]_vars => PaceInv'
<1> SUFFICES ASSUME Configured, ReachFits, PaceInv, Next \/ UNCHANGED vars PROVE PaceInv'
  OBVIOUS
<1>1. DriftInv'
  BY NextNoDrift DEF PaceInv
<1>2. CASE UNCHANGED vars
  BY <1>1, <1>2 DEF PaceInv, PaceRight, Travelled, Blocks, vars, told_vars
<1>3. ASSUME NEW c \in Commands, process_command(c)
      PROVE  speed' \in MIN_SPEED .. MAX_SPEED /\ PaceRight'
  <2> DEFINE v == speed'
             d == destination
             e == destination'
             All == \A i \in DOMAIN queued' : queued'[i].job \in {"MOVE_TO", "LINE"}
                                                => Paced(queued'[i], v)
  <2>1. speed' = NewSpeed(c)
    BY <1>3, Zenon DEF process_command, G0, G1, G2, G3, Arc, Units, G28, G92, Tool, M649, Other,
                       SetSpeed
  <2>2. speed' \in Nat /\ MIN_SPEED <= speed' /\ speed' <= MAX_SPEED
    BY <2>1, SpeedTyped DEF PaceInv
  <2>3. d \in [Axes -> Int] /\ position = Steps(d) /\ target = Steps(d)
        /\ e \in [Axes -> Int] /\ target' = Steps(e)
    BY <1>1 DEF PaceInv, DriftInv, Coordinates, NoDrift
  <2>4. \A n \in Int : labs(n) \in Nat
    BY DEF labs
  <2>5. ASSUME WithinReach(c), e = get_coordinates(c)
        PROVE  labs(e["X"] - d["X"]) <= Reach /\ labs(e["Y"] - d["Y"]) <= Reach
    <3>1. labs(e["X"] - d["X"]) + labs(e["Y"] - d["Y"]) <= Reach
      BY <2>5 DEF WithinReach
    <3>2. e["X"] - d["X"] \in Int /\ e["Y"] - d["Y"] \in Int
      BY <2>3 DEF Axes
    <3> QED
      BY <2>4, <3>1, <3>2 DEF ReachFits
  <2>6. ASSUME labs(e["X"] - d["X"]) <= Reach, labs(e["Y"] - d["Y"]) <= Reach,
               MoveTo(target') \/ LineTo(target')
        PROVE  All
    <3>1. PICK b : /\ queued' = <<b>> /\ b.line = Line(Steps(d), Steps(e))
                   /\ \E r \in {v, v + 1} : b.ticks \in Ticks(Steps(d), Steps(e), r)
      <4>1. CASE MoveTo(target')
        BY <2>3, <4>1 DEF MoveTo, MoveBlocks
      <4>2. CASE LineTo(target')
        BY <2>3, <4>2 DEF LineTo, LineBlocks
      <4> QED
        BY <2>6, <4>1, <4>2
    <3>2. PICK r : (r = v \/ r = v + 1) /\ b.ticks \in Ticks(Steps(d), Steps(e), r)
      BY <3>1
    <3>3. r \in Nat
      BY <2>2, <3>2
    <3> HIDE DEF v
    <3>4. Paced(b, v)
      BY <2>2, <2>3, <2>6, <3>1, <3>2, <3>3, TicksPaced DEF v
    <3> QED
      BY <3>1, <3>4
  <2>a. All
    <3>1. CASE G0(c) \/ G1(c)
      <4>1. e = get_coordinates(c) /\ WithinReach(c) /\ (MoveTo(target') \/ LineTo(target'))
        BY <3>1 DEF G0, G1, Aim, Is
      <4> QED
        BY <2>5, <2>6, <4>1
    <3>2. CASE G2(c) \/ G3(c)
      <4>1. PICK ccw \in BOOLEAN : Arc(c, ccw)
        BY <3>2 DEF G2, G3
      <4>2. e = get_coordinates(c) /\ WithinReach(c)
        BY <3>2, <4>1 DEF G2, G3, Arc, Aim, Is
      <4>3. ASSUME NEW centre, ArcTo(target', centre, ccw) PROVE All
        <5> DEFINE arc == ArcBlock(position, target',
                            [a \in {"X", "Y"} |-> position2steps(a, centre[a])], speed', laser', ccw)
                   there == [target' EXCEPT !["Z"] = position["Z"]]
        <5>1. arc.job = "ARC"
          BY DEF ArcBlock
        <5>2. \/ queued' = <<arc>>
              \/ \E b \in MoveBlocks(there, target', speed') : queued' = <<arc, b>>
          BY <4>3 DEF ArcTo
        <5>3. /\ there["X"] \in Int /\ there["Y"] \in Int
              /\ target'["X"] = there["X"] /\ target'["Y"] = there["Y"]
          <6>1. DOMAIN target' = Axes
            BY <2>3 DEF Steps
          <6>2. there["X"] = target'["X"] /\ there["Y"] = target'["Y"]
            BY <6>1 DEF Axes
          <6>3. target'["X"] = position2steps("X", e["X"])
                /\ target'["Y"] = position2steps("Y", e["Y"])
            BY <2>3 DEF Steps, Axes
          <6>4. e["X"] \in Int /\ e["Y"] \in Int
            BY <2>3 DEF Axes
          <6>5. /\ position2steps("X", e["X"]) \in Int /\ position2steps("Y", e["Y"]) \in Int
            <7>1. labs(e["X"] - e["X"]) <= Reach /\ labs(e["Y"] - e["Y"]) <= Reach
              BY <6>4 DEF labs, ReachFits
            <7> QED
              BY <6>4, <7>1, StepsApart
          <6> QED
            BY <6>2, <6>3, <6>5
        <5> HIDE DEF arc, there
        <5>4. CASE \E b \in MoveBlocks(there, target', speed') : queued' = <<arc, b>>
          <6>1. PICK b \in MoveBlocks(there, target', speed') : queued' = <<arc, b>>
            BY <5>4
          <6>2. b.line = Line(there, target')
            BY <6>1 DEF MoveBlocks
          <6>3. Paced(b, v)
            BY <5>3, <6>2, NoStepsPaced
          <6> HIDE DEF v
          <6> QED
            BY <5>1, <6>1, <6>3
        <5>5. CASE queued' = <<arc>>
          BY <5>1, <5>5
        <5> QED
          BY <5>2, <5>4, <5>5
      <4> QED
        BY <2>5, <2>6, <4>1, <4>2, <4>3 DEF Arc
    <3>3. CASE G28(c) \/ G92(c)
      <4>1. \A t, axes : HomeBlock(t, axes).job \notin {"MOVE_TO", "LINE"}
        BY DEF HomeBlock
      <4>2. queued' = <<>> \/ \E t, axes : queued' = <<HomeBlock(t, axes)>>
        BY <3>3 DEF G28, G92
      <4>3. ASSUME NEW t, NEW axes, queued' = <<HomeBlock(t, axes)>> PROVE All
        BY <4>1, <4>3
      <4>4. CASE queued' = <<>>
        BY <4>4
      <4> QED
        BY <4>2, <4>3, <4>4
    <3>4. CASE Units(c) \/ M649(c) \/ Other(c)
      <4>1. queued' = <<>>
        BY <3>4 DEF Units, M649, Other
      <4> QED
        BY <4>1
    <3>5. CASE Tool(c)
      <4>1. MoveTo(target) /\ UNCHANGED <<destination, target>>
        BY <3>5 DEF Tool, KeepAim
      <4>2. e = d /\ MoveTo(target')
        BY <4>1 DEF MoveTo
      <4>3. labs(e["X"] - d["X"]) <= Reach /\ labs(e["Y"] - d["Y"]) <= Reach
        <5>1. d["X"] \in Int /\ d["Y"] \in Int
          BY <2>3 DEF Axes
        <5> QED
          BY <4>2, <5>1 DEF labs, ReachFits
      <4> QED
        BY <2>6, <4>2, <4>3
    <3> HIDE DEF All
    <3> QED
      BY <1>3, <3>1, <3>2, <3>3, <3>4, <3>5 DEF process_command
  <2>b. PaceRight'
    <3> SUFFICES ASSUME NEW b \in Blocks({"MOVE_TO", "LINE"})' PROVE Paced(b, v)
      BY Zenon DEF PaceRight, Paced, Travelled
    <3> HIDE DEF v
    <3> QED
      BY <2>a DEF Blocks
  <2> QED
    BY <2>2, <2>b, SpeedAssumption
<1> QED
  BY <1>1, <1>2, <1>3 DEF Next, PaceInv

(* On the scales of the machine a line of a millimetre or more is drawn at *)
(* the speed that was set, within a fortieth, in any direction and after   *)
(* any commands: conversions, the root, two divisions of F_CPU * um and 16 *)
(* bits of ticks included (planner.c:101).                                 *)
THEOREM LinesKeepPace == Configured /\ ReachFits => (Spec => []PaceRight)
<1> SUFFICES ASSUME Configured, ReachFits PROVE Spec => []PaceRight
  OBVIOUS
<1>1. PaceInv => PaceRight
  BY DEF PaceInv
<1>2. PaceInv /\ [Next]_vars => PaceInv'
  BY NextPace
<1> QED
  BY InitPace, <1>1, <1>2, PTL DEF Spec
=============================================================================
