-------------------------------- MODULE MCArc --------------------------------
(***************************************************************************)
(* Arcs and full circles about as small as the kernels can still draw:     *)
(* with radii of less than 16 steps (0.2 mm), or when the two ends differ  *)
(* in radius by a step, the stepper may stop a few steps off.  A quarter   *)
(* is a quarter of any other, so arcs start in the first one.              *)
(***************************************************************************)
EXTENDS Arc

CONSTANTS MinRadius, MaxRadius

norm(p) == square(p[1]) + square(p[2])

Ring == {p \in (-MaxRadius .. MaxRadius) \X (-MaxRadius .. MaxRadius) :
           square(MinRadius) <= norm(p) /\ norm(p) <= square(MaxRadius)}

(* Radii that differ by half a step at most. *)
SameCircle(p, q) == 2 * square(norm(p) - norm(q)) <= norm(p) + norm(q)

MCArcs ==
  {a \in [from : {p \in Ring : p[1] > 0 /\ p[2] >= 0}, to : Ring, ccw : BOOLEAN] :
     SameCircle(a.from, a.to)}
==============================================================================
