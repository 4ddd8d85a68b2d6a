--------------------------- MODULE StepArithmetic ---------------------------
(***************************************************************************)
(* The 24-bit error counter of ADVANCE_STEP_COUNTER, asm.h:47-65, in the   *)
(* OPTIMIZE_ASM build: an event is the carry out of an addition.  Shared   *)
(* by StepCounter, which studies one counter, and by Stepper.              *)
(***************************************************************************)
EXTENDS Integers

CONSTANT W   \* number of counter values, 2^24

ASSUME WidthAssumption == W \in Nat /\ W > 0

(* Sums and differences of counter values. *)
Wrap(x) == IF x >= W THEN x - W ELSE IF x < 0 THEN x + W ELSE x

Carry(c, a) == c + a >= W

(* Mutant of Advance: the subtraction of `sub' forgotten. *)
AdvanceOnly(c, a, s) == Wrap(c + a)

(* 24-bit add, then 24-bit sub if the add carried. *)
Advance(c, a, s) == IF Carry(c, a) THEN Wrap(Wrap(c + a) - s) ELSE Wrap(c + a)
=============================================================================
