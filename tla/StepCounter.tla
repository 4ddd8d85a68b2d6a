----------------------------- MODULE StepCounter -----------------------------
(***************************************************************************)
(* ADVANCE_STEP_COUNTER of asm.h: the error counter that spreads `add'     *)
(* events over `total' stepper interrupts.  Every axis of a move or line   *)
(* has one (steps[axis] of steps_total) and so has the laser (laser.steps  *)
(* of steps_total).                                                        *)
(*                                                                         *)
(* The firmware is built with OPTIMIZE_ASM: the event is the carry out of  *)
(* a 24-bit addition, so a counter is a number modulo W = 2^24.  reference *)
(* follows the C form of the same macro (asm.h:44), which is also what the *)
(* comment over the assembler text says it does.                           *)
(***************************************************************************)
EXTENDS StepArithmetic

CONSTANTS Totals,   \* steps_total of the jobs
          Adds      \* steps or laser.steps of the jobs

ASSUME TotalsAssumption == Totals \subseteq 1 .. W
ASSUME AddsAssumption   == Adds \subseteq 1 .. W

VARIABLES total, add,   \* sub and add of the macro, fixed for a job
          lead,         \* the counter starts at -lead
          ctr,          \* the counter
          taken,        \* events so far
          irqs,         \* interrupts so far
          reference     \* the counter and the events of the C form

vars == <<total, add, lead, ctr, taken, irqs, reference>>

(* Mutant of Start: all axes started at zero. *)
StartAtZero(l) == 0

Start(l) == Wrap(-l)

(* -(steps_total/2) for the axes and for a pulsed laser, -1 for the others. *)
Leads(t) == {t \div 2, 1}

Init ==
  /\ total \in Totals /\ add \in Adds
  /\ lead \in Leads(total)
  /\ ctr = Start(lead)
  /\ taken = 0 /\ irqs = 0
  /\ reference = [ctr |-> -lead, taken |-> 0]

(* One interrupt of the job. *)
Tick ==
  /\ irqs < total
  /\ ctr' = Advance(ctr, add, total)
  /\ taken' = IF Carry(ctr, add) THEN taken + 1 ELSE taken
  /\ irqs' = irqs + 1
  /\ reference' = IF reference.ctr + add > 0
                  THEN [ctr |-> reference.ctr + add - total, taken |-> reference.taken + 1]
                  ELSE [reference EXCEPT !.ctr = @ + add]
  /\ UNCHANGED <<total, add, lead>>

Next == Tick

Spec == Init /\ [][Next]_vars
-----------------------------------------------------------------------------
TypeOK ==
  /\ total \in Totals /\ add \in Adds /\ lead \in Nat
  /\ ctr \in 0 .. W - 1
  /\ taken \in Nat /\ irqs \in 0 .. total
  /\ reference \in [ctr : Int, taken : Nat]

(* No more events than interrupts, and a counter that starts below zero:   *)
(* what the planner hands out for axes moving two steps or more.           *)
Regular == add <= total /\ lead > 0

(* An axis takes exactly its steps in the interrupts of the job, so a line *)
(* ends where the planner thinks (stepper.c:965 and 998, planner.c:140).   *)
AllTaken == Regular /\ irqs = total => taken = add

(* On the way an axis is never more than half a step, rounded up to the    *)
(* next counter value, ahead of the straight line, and less than half a    *)
(* step behind: all axes of a job stay together.                           *)
Straight ==
  Regular /\ lead = total \div 2 =>
     /\ 2 * (taken * total - irqs * add) <= total + 1
     /\ 2 * (irqs * add - taken * total) < total

(* A job draws its line.                                                   *)
FollowsLine == AllTaken /\ Straight

(* asm.h:46 calls the assembler text a shorter form of the C macro: the    *)
(* carry fires on a sum of zero, the C form only above, but they are never *)
(* more than this one event apart.  With more events than interrupts they  *)
(* are not alike: a counter above zero does not carry again.               *)
NearReference == Regular => taken \in {reference.taken, reference.taken + 1}
=============================================================================
