-------------------------------- MODULE Arc ---------------------------------
(***************************************************************************)
(* G2 and G3.  The planner walks an arc once to learn how many steps it    *)
(* has (kernel of arc.c), queues it, and believes to be at its end.  The   *)
(* stepper walks it again, one interrupt per step, for that many steps     *)
(* (arc_kernel of stepper.c).  The two kernels are one text in two places, *)
(* except for when they change to the next octant.                         *)
(*                                                                         *)
(* Coordinates are steps relative to the centre.  Octants are numbered     *)
(* 0 .. 7 counterclockwise from the positive x axis; each quarter is the   *)
(* first one turned, so a table of four rows gives all sixteen cases.      *)
(***************************************************************************)
EXTENDS Integers

CONSTANT Arcs     \* what get_arc_coordinates hands to the planner

Point == Int \X Int
ASSUME ArcsAssumption == Arcs \subseteq [from : Point \ {<<0, 0>>}, to : Point, ccw : BOOLEAN]

VARIABLES
  arc,            \* the arc under way
  phase,          \* "plan", then "draw", then "done"
  octant,         \* octant, and s->job
  x, y,           \* x, y, and s->arc_x, s->arc_y
  dx, dy,         \* twice x and y
  err,            \* distance from the circle, squared
  num_steps,      \* num_steps, and s->steps_to_go
  stepcount,      \* b->arc.stepcount
  result          \* what the planner's last kernel() returned

arc_vars == <<arc, phase, octant, x, y, dx, dy, err, num_steps, stepcount, result>>

square(n) == n * n

(* length2: the root of the sum of squares, rounded down. *)
length2(p) ==
  LET sum == square(p[1]) + square(p[2])
  IN  CHOOSE r \in 0 .. sum : square(r) <= sum /\ sum < square(r + 1)

Radius(a) == IF length2(a.from) >= length2(a.to) THEN length2(a.from) ELSE length2(a.to)

(* A point turned back by q quarters, and turned on by q quarters. *)
TurnBack(q, p) == << <<p[1], p[2], -p[1], -p[2]>>[q + 1], <<p[2], -p[1], -p[2], p[1]>>[q + 1] >>
TurnOn(q, p)   == << <<p[1], -p[2], -p[1], p[2]>>[q + 1], <<p[2], p[1], -p[2], -p[1]>>[q + 1] >>

get_octant(p) ==
  LET q == CHOOSE q \in 0 .. 3 : TurnBack(q, p)[1] > 0 /\ TurnBack(q, p)[2] >= 0
      t == TurnBack(q, p)
  IN  IF t[1] > t[2] THEN 2 * q ELSE 2 * q + 1

(* abs takes an int of 16 bits. *)
abs(n) == LET low == ((n + 32768) % 65536) - 32768 IN IF low < 0 THEN -low ELSE low

sgn(n) == IF n < 0 THEN -1 ELSE IF n > 0 THEN 1 ELSE 0

(* init_arc and the value of err: zero at the end of the arc. *)
StartOctant(a) == get_octant(a.from)
StartErr(a) ==
  square(a.to[1]) - square(a.from[1]) + square(a.to[2]) - square(a.from[2])
MostSteps(a) == 6 * Radius(a)

ArcInit ==
  /\ arc \in Arcs
  /\ phase = "plan" /\ result = "NO_HIT"
  /\ octant = StartOctant(arc)
  /\ x = arc.from[1] /\ y = arc.from[2]
  /\ dx = 2 * arc.from[1] /\ dy = 2 * arc.from[2]
  /\ err = StartErr(arc)
  /\ num_steps = MostSteps(arc)
  /\ stepcount = 0
-----------------------------------------------------------------------------
(* One step of either kernel. *)

quarter == octant \div 2
u == TurnBack(quarter, <<x, y>>)[1]
v == TurnBack(quarter, <<x, y>>)[2]

(* In the first half of a quarter the second coordinate always steps and   *)
(* the first one sometimes, in the second half the other way round.        *)
Sometimes ==
  IF octant % 2 = 0
  THEN IF arc.ccw THEN err <= 2 * v - u ELSE err > u - 2 * v
  ELSE IF arc.ccw THEN err > v - 2 * u  ELSE err <= 2 * u - v

Way ==
  LET once == IF Sometimes THEN 1 ELSE 0
  IN  IF octant % 2 = 0
      THEN IF arc.ccw THEN <<-once, 1>> ELSE <<once, -1>>
      ELSE IF arc.ccw THEN <<-1, once>> ELSE <<1, -once>>

Move == TurnOn(quarter, Way)

(* Has the point <<p, q>>, turned back, left the octant? *)
Leaves(p, q) ==
  IF octant % 2 = 0 THEN (IF arc.ccw THEN q >= p ELSE q <= 0)
                    ELSE (IF arc.ccw THEN p <= 0 ELSE q < p)

NextOctant == IF arc.ccw THEN (octant + 1) % 8 ELSE (octant + 7) % 8

(* Mutant of Gain: the slope not moved on before it is used. *)
GainOldSlope(way, slope) == way * slope

(* What a step `way' adds to the square of a coordinate; `slope' is twice  *)
(* the coordinate before the step.                                         *)
Gain(way, slope) == way * slope + square(way)

KernelStep ==
  /\ x' = x + Move[1] /\ y' = y + Move[2]
  /\ dx' = dx + 2 * Move[1] /\ dy' = dy + 2 * Move[2]
  /\ err' = err - Gain(Move[1], dx) - Gain(Move[2], dy)

(* Where the walk ends, at the point it has come to. *)
Hit ==
  LET tox == arc.to[1]
      toy == arc.to[2]
  IN  IF abs(x') > abs(y')
      THEN IF toy # y' THEN "NO_HIT" ELSE IF tox = x' THEN "HIT"
           ELSE IF sgn(x') = sgn(tox) THEN "NEAR_HIT" ELSE "NO_HIT"
      ELSE IF tox # x' THEN "NO_HIT" ELSE IF toy = y' THEN "HIT"
           ELSE IF sgn(y') = sgn(toy) THEN "NEAR_HIT" ELSE "NO_HIT"

(* kernel() of the planner tests the octant where the step starts. *)
PlanStep ==
  /\ phase = "plan" /\ result = "NO_HIT"
  /\ KernelStep
  /\ octant' = IF Leaves(u, v) THEN NextOctant ELSE octant
  /\ IF Hit # "NO_HIT"
     THEN result' = Hit /\ UNCHANGED num_steps
     ELSE /\ num_steps' = num_steps - 1
          /\ result' = IF num_steps = 1 THEN "NO_MORE_STEPS" ELSE "NO_HIT"
  /\ UNCHANGED <<arc, phase, stepcount>>

(* Mutant of StepsTaken: the kernel() that hits does not count. *)
StepsTakenWithoutLast == MostSteps(arc) - num_steps

StepsTaken == MostSteps(arc) - num_steps + 1

(* buffer_arc, after its loop. *)
Queue ==
  /\ phase = "plan" /\ result # "NO_HIT"
  /\ stepcount' = StepsTaken
  /\ num_steps' = StepsTaken
  /\ octant' = StartOctant(arc)
  /\ x' = arc.from[1] /\ y' = arc.from[2]
  /\ dx' = 2 * arc.from[1] /\ dy' = 2 * arc.from[2]
  /\ err' = StartErr(arc)
  /\ phase' = "draw"
  /\ UNCHANGED <<arc, result>>

(* arc_kernel() of the stepper tests the octant where the step ends. *)
DrawStep ==
  LET ended == TurnBack(quarter, <<x', y'>>)
  IN  /\ phase = "draw"
      /\ KernelStep
      /\ octant' = IF Leaves(ended[1], ended[2]) THEN NextOctant ELSE octant
      /\ num_steps' = num_steps - 1
      /\ phase' = IF num_steps = 1 THEN "done" ELSE "draw"
      /\ UNCHANGED <<arc, stepcount, result>>

ArcNext == PlanStep \/ Queue \/ DrawStep

ArcSpec == ArcInit /\ [][ArcNext]_arc_vars
-----------------------------------------------------------------------------
(* Both walks carry the same error term: how much closer to the centre the *)
(* end of the arc is, squared.  It is kept by increments only, and must be *)
(* zero at the end for the walk to get there (arc.c:379).                  *)
ErrExact ==
  /\ dx = 2 * x /\ dy = 2 * y
  /\ err = square(arc.to[1]) + square(arc.to[2]) - square(x) - square(y)

(* The planner's walk ends because it found the end, and not because its   *)
(* bound of 6 * R steps ran out; and the stepper, which changes octants    *)
(* one step earlier and does not look for the end itself, stops exactly    *)
(* there (arc.c:395).                                                      *)
Lands ==
  /\ result # "NO_MORE_STEPS"
  /\ phase = "done" => <<x, y>> = arc.to

(* Nothing is drawn a step or more off the circle with radius R that goes  *)
(* through the end: x^2 + y^2 differs from R^2 by 2 * R at most.           *)
OnCircle ==
  LET RR == square(arc.to[1]) + square(arc.to[2])
  IN  phase # "plan" => square(square(x) + square(y) - RR) <= 4 * RR

=============================================================================
