------------------------------- MODULE Stepper -------------------------------
(***************************************************************************)
(* The timer-1 interrupt of stepper.c: it fires the laser for the current  *)
(* job, moves the axes one step, and at the end of a job fetches the next  *)
(* one from STEPPER_QUEUE.  One interrupt is one action, since handlers    *)
(* are not interrupted.  STEPPER_QUEUE and LASER_RASTERDATA are sequences: *)
(* RingBuffer shows that the buffers behave like that.                     *)
(*                                                                         *)
(* Left out: arcs, the timing of the interrupts (OCR1A, the ramp), pixels  *)
(* of less than a byte, and the 24-bit range of positions.                 *)
(***************************************************************************)
EXTENDS StepArithmetic, Beam, Sequences

CONSTANTS Axes,        \* X, Y, Z
          HomeDir,     \* X_HOME_DIR, Y_HOME_DIR; 0 for an axis without a switch
          Switch       \* where the limit switch of an axis closes

ASSUME AxesAssumption    == Axes # {}
ASSUME HomeDirAssumption == HomeDir \in [Axes -> {-1, 0, 1}]
ASSUME SwitchAssumption  == Switch \in [Axes -> Int]

VARIABLES
  queue,            \* STEPPER_QUEUE: jobs [job, to, direction, axes, mode, pulses, us, power, line],
                    \* `to' is b->line.steps or b->ref.pos, `axes' b->ref.axis_mask
  raster,           \* LASER_RASTERDATA
  job,              \* s->job: "IDLE", "HOME", "HOME_REF", "MOVE_TO" or "LINE"
  axis_mask,        \* the axis bits of s->axis_mask
  laser_mask,       \* LASER_MASK in s->axis_mask
  home_mask,        \* the upper nibble of s->axis_mask
  count_direction, position, step_ctr,
  steps,            \* the union of s->steps and s->refpos
  steps_total, steps_to_go,
  laser,            \* s->laser
  beam,             \* see Beam
  head_at,          \* where the laser head really is
  line, pixel       \* history: number of the current job, last pixel

motion == <<job, axis_mask, laser_mask, home_mask, count_direction, position,
            step_ctr, steps, steps_total, steps_to_go, head_at, line>>
stepper_vars == <<queue, raster, motion, laser, beam, pixel>>

OFF  == {}
Mode == SUBSET {"CW", "PULSE", "MODULATE"}

StepperInit ==
  /\ queue = <<>> /\ raster = <<>>
  /\ job = "IDLE"
  /\ axis_mask = {} /\ laser_mask = FALSE /\ home_mask = {}
  /\ count_direction = [a \in Axes |-> 0]
  /\ position = [a \in Axes |-> 0]
  /\ step_ctr = [a \in Axes |-> 0]
  /\ steps = [a \in Axes |-> 0]
  /\ steps_total = 0 /\ steps_to_go = 0
  /\ laser = [ctr |-> 0, steps |-> 0, pulse_duration_us |-> 0, power |-> 0,
              mode |-> OFF, last_mode |-> OFF]
  /\ beam = Dark
  /\ line = 0 /\ pixel = "none"
-----------------------------------------------------------------------------
(* 1) The laser, before the axes move (stepper.c:713-831). *)

(* The change of mode noticed by the first interrupt after it. *)
BeamAfterMode ==
  LET changed == laser.last_mode # laser.mode
      b1 == IF changed /\ "CW" \in laser.last_mode /\ "PULSE" \in laser.mode
            THEN Extinguish(beam) ELSE beam
      b2 == IF changed /\ "PULSE" \in laser.last_mode /\ "CW" \in laser.mode
            THEN StartTimer(b1, 0) ELSE b1
  IN  IF changed /\ laser.mode = OFF THEN Extinguish(b2) ELSE b2

(* The laser's own step counter has carried. *)
LaserDue == laser_mask /\ Carry(laser.ctr, laser.steps)

(* Mutant of PixelDue: a pixel in every interrupt. *)
PixelEveryStep == laser_mask /\ "MODULATE" \in laser.mode

(* Mutant of PixelDue: pulsed rasters not supported. *)
PixelForCwOnly == LaserDue /\ {"CW", "MODULATE"} \subseteq laser.mode

PixelDue == LaserDue /\ "MODULATE" \in laser.mode

(* One byte is one pixel; an empty buffer gives a dark one. *)
PixelValue == IF raster = <<>> THEN 0 ELSE Head(raster).value

BeamFired(b) ==
  IF "MODULATE" \in laser.mode
  THEN LET lit == IF "CW" \in laser.mode THEN Fire(b, PixelValue) ELSE b
       IN  IF "PULSE" \in laser.mode /\ PixelValue # 0
           THEN StartTimer(Fire(lit, 255), (laser.pulse_duration_us * PixelValue) \div 256)
           ELSE lit
  ELSE LET pulsed == IF "PULSE" \in laser.mode
                     THEN StartTimer(Fire(b, laser.power \div 4), laser.pulse_duration_us)
                     ELSE b
           lit == IF "CW" \in laser.mode THEN Fire(pulsed, laser.power \div 4) ELSE pulsed
       IN  IF laser.mode = OFF THEN Extinguish(lit) ELSE lit

BeamAfterLaser == IF LaserDue THEN BeamFired(BeamAfterMode) ELSE BeamAfterMode

LaserAfter ==
  [laser EXCEPT !.last_mode = laser.mode,
                !.ctr = IF laser_mask THEN Advance(@, laser.steps, steps_total) ELSE @]

TakePixel ==
  /\ raster' = IF PixelDue /\ raster # <<>> THEN Tail(raster) ELSE raster
  /\ pixel' = IF ~PixelDue THEN pixel
              ELSE IF raster = <<>> THEN "missing"
              ELSE IF Head(raster).line = line THEN "own" ELSE "foreign"
-----------------------------------------------------------------------------
(* 2) The axes. *)

Stepped(axes) ==
  /\ position' = [a \in Axes |-> IF a \in axes THEN position[a] + count_direction[a]
                                 ELSE position[a]]
  /\ head_at' = [a \in Axes |-> IF a \in axes THEN head_at[a] + count_direction[a]
                                ELSE head_at[a]]

(* move_kernel and line_kernel, which differ in speed only. *)
Due == {a \in axis_mask : Carry(step_ctr[a], steps[a])}

CtrAfterStep ==
  [a \in Axes |-> IF a \in axis_mask THEN Advance(step_ctr[a], steps[a], steps_total)
                  ELSE step_ctr[a]]

LastStep == axis_mask = {} \/ steps_to_go = 1

(* X_HOME_IS_ACTIVE, Y_HOME_IS_ACTIVE *)
HomeIsActive(a) == head_at[a] * HomeDir[a] >= Switch[a] * HomeDir[a]

(* Mutant of Seeking: the switch read with the wrong polarity. *)
SeekingInverted == {a \in axis_mask : HomeDir[a] # 0 /\ HomeIsActive(a)}

(* Axes that still look for their switch; without a switch there is none. *)
Seeking == {a \in axis_mask : HomeDir[a] # 0 /\ ~HomeIsActive(a)}

(* Axes that are still leaving their switch. *)
Leaving == {a \in axis_mask : HomeDir[a] # 0 /\ HomeIsActive(a)}

(* The interrupt ends here: the job goes on. *)
GoesOn ==
  /\ laser' = LaserAfter /\ beam' = BeamAfterLaser /\ TakePixel
  /\ UNCHANGED <<queue, line>>

IrqStep ==
  /\ job \in {"MOVE_TO", "LINE"} /\ ~LastStep
  /\ Stepped(Due)
  /\ step_ctr' = CtrAfterStep
  /\ steps_to_go' = steps_to_go - 1
  /\ GoesOn
  /\ UNCHANGED <<job, axis_mask, laser_mask, home_mask, count_direction, steps,
                 steps_total>>

IrqSeek ==
  /\ job = "HOME" /\ Seeking # {}
  /\ axis_mask' = Seeking
  /\ Stepped(Seeking)
  /\ GoesOn
  /\ UNCHANGED <<job, laser_mask, home_mask, count_direction, step_ctr, steps,
                 steps_total, steps_to_go>>

(* All switches found: turn round. *)
IrqTurn ==
  /\ job = "HOME" /\ Seeking = {}
  /\ job' = "HOME_REF"
  /\ axis_mask' = home_mask
  /\ laser_mask' = FALSE
  /\ count_direction' = [a \in Axes |-> -HomeDir[a]]
  /\ GoesOn
  /\ UNCHANGED <<home_mask, position, step_ctr, steps, steps_total, steps_to_go, head_at>>

IrqLeave ==
  /\ job = "HOME_REF" /\ Leaving # {}
  /\ axis_mask' = Leaving
  /\ Stepped(Leaving)
  /\ GoesOn
  /\ UNCHANGED <<job, laser_mask, home_mask, count_direction, step_ctr, steps,
                 steps_total, steps_to_go>>

-----------------------------------------------------------------------------
(* The end of a job, and the next one (stepper.c:885-1071). *)

Moving == job \in {"MOVE_TO", "LINE"}

(* The axes in the last interrupt of a job. *)
JobEnds ==
  \/ /\ job = "IDLE"
     /\ UNCHANGED <<position, head_at>>
  \/ /\ Moving /\ LastStep
     /\ Stepped(Due)
  \/ /\ job = "HOME_REF" /\ Leaving = {}
     /\ position' = [a \in Axes |-> IF a \in home_mask THEN steps[a] ELSE position[a]]
     /\ UNCHANGED head_at

CtrAtEnd  == IF Moving THEN CtrAfterStep ELSE step_ctr
ToGoAtEnd == IF Moving /\ axis_mask # {} THEN steps_to_go - 1 ELSE steps_to_go

(* Mutant of LaserAtRest: the mode of the last job kept. *)
LaserKept == LaserAfter

LaserAtRest == [LaserAfter EXCEPT !.mode = OFF]

(* No job is queued: the mode change is left to the next interrupt. *)
IrqRest ==
  /\ JobEnds /\ queue = <<>>
  /\ job' = "IDLE"
  /\ axis_mask' = IF job = "HOME_REF" THEN home_mask ELSE axis_mask
  /\ home_mask' = IF job = "HOME_REF" THEN {} ELSE home_mask
  /\ step_ctr' = CtrAtEnd /\ steps_to_go' = ToGoAtEnd
  /\ laser' = LaserAtRest
  /\ beam' = BeamAfterLaser /\ TakePixel
  /\ UNCHANGED <<queue, laser_mask, count_direction, steps, steps_total, line>>

MaxStep(to) == CHOOSE n \in {to[a] : a \in Axes} : \A a \in Axes : n >= to[a]

LoadMove(b) ==
  LET total == MaxStep(b.to) IN
  /\ axis_mask' = {a \in Axes : b.to[a] # 0} /\ home_mask' = {}
  /\ count_direction' = b.direction
  /\ steps_total' = total /\ steps_to_go' = total
  /\ step_ctr' = [a \in Axes |-> Wrap(-(total \div 2))]

LoadHome(b) ==
  /\ axis_mask' = (IF b.job = "HOME" THEN b.axes ELSE {}) /\ home_mask' = b.axes
  /\ count_direction' = IF b.job = "HOME" THEN HomeDir ELSE count_direction
  /\ step_ctr' = CtrAtEnd /\ steps_to_go' = ToGoAtEnd
  /\ UNCHANGED steps_total

(* The laser options of a job: cleared, then those of a line that lases.   *)
(* last_mode is cleared too.                                               *)
LaserOf(b, total) ==
  IF b.job = "LINE" /\ b.mode # OFF
  THEN [ctr |-> IF "PULSE" \in b.mode THEN Wrap(-(total \div 2)) ELSE W - 1,
        steps |-> b.pulses, pulse_duration_us |-> b.us, power |-> b.power,
        mode |-> b.mode, last_mode |-> OFF]
  ELSE [ctr |-> W - 1, steps |-> 0, pulse_duration_us |-> 0, power |-> 0,
        mode |-> OFF, last_mode |-> OFF]

(* Mutant of BeamAtFetch: a job without laser does not extinguish it. *)
BeamLeftAlone(mode) == BeamAfterLaser

BeamAtFetch(mode) == IF mode = OFF THEN Extinguish(BeamAfterLaser) ELSE BeamAfterLaser

IrqFetch ==
  LET b == Head(queue) IN
  /\ JobEnds /\ queue # <<>>
  /\ queue' = Tail(queue)
  /\ job' = b.job /\ line' = b.line
  /\ steps' = b.to
  /\ IF b.job \in {"MOVE_TO", "LINE"} THEN LoadMove(b) ELSE LoadHome(b)
  /\ laser_mask' = (b.job = "LINE" /\ b.mode # OFF)
  /\ laser' = LaserOf(b, MaxStep(b.to))
  /\ beam' = BeamAtFetch(laser'.mode) /\ TakePixel

Irq == IrqStep \/ IrqSeek \/ IrqTurn \/ IrqLeave \/ IrqRest \/ IrqFetch

(* TIMER3_COMPA_vect: the pulse is over. *)
Timer3 ==
  /\ beam.timer
  /\ beam' = Expire(beam)
  /\ UNCHANGED <<queue, raster, motion, laser, pixel>>

=============================================================================
