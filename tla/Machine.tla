------------------------------- MODULE Machine -------------------------------
(***************************************************************************)
(* The main program against the stepper interrupt: the commands of gcode.c *)
(* that move, home, wait or fire, the planner that turns them into queued  *)
(* jobs, and stepper_drain_buffer.  A command runs to its end before the   *)
(* next one starts; interrupts come between any two of its steps.          *)
(***************************************************************************)
EXTENDS Stepper

CONSTANTS
  IntRange,      \* 2^16: the values of an int
  QueueRoom,     \* STEPPER_QUEUE_SIZE - 1
  RasterRoom,    \* LASER_RASTERDATA_QUEUE_SIZE - 1
  Targets,       \* coordinates commands name, in steps
  Pixels,        \* raster bytes
  HomeSets,      \* sets of axes that G28 names
  Starts,        \* where the head may be at power-up
  Hosts,         \* the commands a host uses, and the [mode, pulses, us, power] of its lines
  MaxCommands    \* bound on the commands of a behaviour

ASSUME IntAssumption == IntRange \in Nat \ {0}
ASSUME RoomAssumption == QueueRoom \in Nat \ {0} /\ RasterRoom \in Nat \ {0}
ASSUME HostAssumption ==
  /\ Targets \subseteq [Axes -> Int]
  /\ \A h \in Hosts : h.options \subseteq [mode : Mode, pulses : Nat, us : Nat, power : Nat]
  /\ Pixels \subseteq 0 .. 255
  /\ HomeSets \subseteq SUBSET {a \in Axes : HomeDir[a] # 0}
  /\ Starts \subseteq [Axes -> Int]
  /\ MaxCommands \in Nat

VARIABLES
  pc,         \* where main is: "ready" for the next command, or in one
  after,      \* where stepper_drain_buffer returns to
  planned,    \* PL.position
  block,      \* the block main fills, at STEPPER_QUEUE_head
  bytes,      \* raster bytes of the command still to be put
  pulse,      \* laser.pulse_duration_us, what the last L said
  sent,       \* commands so far
  host        \* the host at the other end, the same all the time

main_vars == <<pc, after, planned, block, bytes, pulse, sent, host>>
vars == <<stepper_vars, main_vars>>

Zero == [a \in Axes |-> 0]

Init ==
  /\ StepperInit
  /\ head_at \in Starts
  /\ pc = "ready" /\ after = "ready"
  /\ planned = Zero
  /\ block = [job |-> "MOVE_TO", to |-> Zero, direction |-> [a \in Axes |-> 1],
              axes |-> {}, mode |-> OFF, pulses |-> 0, us |-> 0, power |-> 0, line |-> 0]
  /\ bytes = <<>> /\ pulse = 1000 /\ sent = 0
  /\ host \in Hosts
-----------------------------------------------------------------------------
(* process_command: one command that has an effect. *)

Begin(command) ==
  /\ pc = "ready"
  /\ command \in host.commands /\ sent < MaxCommands
  /\ sent' = sent + 1 /\ UNCHANGED host

(* abs takes an int, and a distance of steps is cut to one.  The one value *)
(* that has no absolute value in an int is taken as it comes out in steps. *)
abs(n) == LET i == n % IntRange IN IF 2 * i >= IntRange THEN IntRange - i ELSE i

Apart(target) == [a \in Axes |-> abs(target[a] - planned[a])]

Direction(target) == [a \in Axes |-> IF planned[a] > target[a] THEN -1 ELSE 1]

(* Mutant of Filled: the distance counted from the commanded end only. *)
FilledAbsolute(kind, target, opts) ==
  [job |-> kind, to |-> [a \in Axes |-> IF target[a] >= 0 THEN target[a] ELSE -target[a]],
   direction |-> Direction(target), axes |-> {},
   mode |-> opts.mode, pulses |-> opts.pulses, us |-> opts.us, power |-> opts.power,
   line |-> sent']

(* The block planner_move and planner_line fill in place. *)
Filled(kind, target, opts) ==
  [job |-> kind, to |-> Apart(target), direction |-> Direction(target), axes |-> {},
   mode |-> opts.mode, pulses |-> opts.pulses, us |-> opts.us, power |-> opts.power,
   line |-> sent']

NoLaser == [mode |-> OFF, pulses |-> 0, us |-> 0, power |-> 0]

QueueMove(target) ==
  /\ block' = Filled("MOVE_TO", target, NoLaser)
  /\ planned' = target
  /\ pc' = "push"
  /\ UNCHANGED bytes

(* G0. *)
Move ==
  /\ Begin("move")
  /\ \E target \in Targets : QueueMove(target)
  /\ after' = "ready"
  /\ UNCHANGED pulse

(* M2, M3, M4 and M5 queue a move to where the planner is.  M3 and M4 take  *)
(* laser options, M2 waits for the stepper.                                *)
Spindle ==
  /\ Begin("spindle")
  /\ QueueMove(planned)
  /\ \/ after' = "drain" /\ UNCHANGED pulse
     \/ after' = "ready" /\ pulse' \in {pulse} \cup {opts.us : opts \in host.options}

(* M649. *)
Options ==
  /\ Begin("options")
  /\ pulse' \in {opts.us : opts \in host.options}
  /\ UNCHANGED <<pc, after, planned, block, bytes>>

(* Bound: the host never asks for more raster pulses than a line has steps. *)
(* Such a line loses pulses, see NearReference of StepCounter, and leaves its *)
(* bytes to the next one.                                                  *)
Regular(target, opts) == "MODULATE" \in opts.mode => opts.pulses <= MaxStep(Apart(target))

(* G1.  Raster bytes of the same line are put before (parser.c:245-252). *)
Line ==
  /\ Begin("line")
  /\ \E target \in Targets, opts \in host.options :
       /\ Regular(target, opts)
       /\ block' = Filled("LINE", target, opts)
       /\ planned' = target
       /\ IF "MODULATE" \in opts.mode
          THEN \E values \in [1 .. opts.pulses -> Pixels] :
                 bytes' = [i \in 1 .. opts.pulses |-> [value |-> values[i], line |-> sent']]
          ELSE bytes' = <<>>
       /\ pulse' = opts.us
  /\ pc' = "put"
  /\ after' = "ready"

(* G28, which waits, and G92 (planner_home_axes). *)
Reference(kind, axes, target, then) ==
  /\ block' = [block EXCEPT !.job = kind, !.to = target, !.axes = axes, !.line = sent']
  /\ planned' = target
  /\ pc' = "push"
  /\ after' = then
  /\ UNCHANGED <<bytes, pulse>>

Home ==
  /\ Begin("home")
  /\ \E axes \in HomeSets \ {{}}, at \in Targets :
       Reference("HOME", axes, [a \in Axes |-> IF a \in axes THEN at[a] ELSE planned[a]],
                 "drain")

SetPosition ==
  /\ Begin("set_position")
  /\ \E target \in Targets : Reference("HOME_REF", Axes, target, "ready")

(* M400 and G4.  The raster bytes G4 discards afterwards are gone already. *)
Wait ==
  /\ Begin("wait")
  /\ pc' = "drain" /\ after' = "drain"
  /\ UNCHANGED <<planned, block, bytes, pulse>>

(* `P': a single pulse. *)
SinglePulse ==
  /\ Begin("pulse")
  /\ pc' = "drain" /\ after' = "pulse"
  /\ UNCHANGED <<planned, block, bytes, pulse>>
-----------------------------------------------------------------------------
(* LASER_RASTERDATA_put waits for room. *)
Put ==
  /\ pc = "put" /\ bytes # <<>>
  /\ Len(raster) < RasterRoom
  /\ raster' = Append(raster, Head(bytes))
  /\ bytes' = Tail(bytes)
  /\ UNCHANGED <<queue, motion, laser, beam, pixel, pc, after, planned, block, pulse, sent, host>>

PutDone ==
  /\ pc = "put" /\ bytes = <<>>
  /\ pc' = "push"
  /\ UNCHANGED <<stepper_vars, after, planned, block, bytes, pulse, sent, host>>

(* STEPPER_QUEUE_push waits for room. *)
Push ==
  /\ pc = "push"
  /\ Len(queue) < QueueRoom
  /\ queue' = Append(queue, block)
  /\ pc' = after
  /\ UNCHANGED <<raster, motion, laser, beam, pixel, after, planned, block, bytes,
                 pulse, sent, host>>

(* Mutant of QueueSeenEmpty: the job watched first, the queue second. *)
JobSeenIdle ==
  /\ pc = "drain"
  /\ job = "IDLE"
  /\ pc' = "drain_job"
  /\ UNCHANGED <<stepper_vars, after, planned, block, bytes, pulse, sent, host>>

(* stepper_drain_buffer: wait for the queue, then for the job, then throw  *)
(* the raster bytes away.                                                  *)
QueueSeenEmpty ==
  /\ pc = "drain"
  /\ queue = <<>>
  /\ pc' = "drain_job"
  /\ UNCHANGED <<stepper_vars, after, planned, block, bytes, pulse, sent, host>>

(* Mutant of JobSeenDone: waits for the axes to be released as well. *)
AxesSeenFree ==
  /\ pc = "drain_job"
  /\ job = "IDLE" /\ axis_mask = {}
  /\ pc' = "reset"
  /\ UNCHANGED <<stepper_vars, after, planned, block, bytes, pulse, sent, host>>

JobSeenDone ==
  /\ pc = "drain_job"
  /\ job = "IDLE"
  /\ pc' = "reset"
  /\ UNCHANGED <<stepper_vars, after, planned, block, bytes, pulse, sent, host>>

ResetRaster ==
  /\ pc = "reset"
  /\ raster' = <<>>
  /\ pc' = IF after = "pulse" THEN "pulse" ELSE "ready"
  /\ UNCHANGED <<queue, motion, laser, beam, pixel, after, planned, block, bytes,
                 pulse, sent, host>>
-----------------------------------------------------------------------------
(* laser_fire(255) in main, which an interrupt may split. *)
PulseCounts ==
  /\ pc = "pulse"
  /\ beam' = [beam EXCEPT !.on = TRUE]
  /\ pc' = "pulse_pin"
  /\ UNCHANGED <<queue, raster, motion, laser, pixel, after, planned, block, bytes,
                 pulse, sent, host>>

PulsePin ==
  /\ pc = "pulse_pin"
  /\ beam' = [beam EXCEPT !.pin = TRUE]
  /\ pc' = "pulse_timer"
  /\ UNCHANGED <<queue, raster, motion, laser, pixel, after, planned, block, bytes,
                 pulse, sent, host>>

(* A critical section. *)
PulseTimer ==
  /\ pc = "pulse_timer"
  /\ beam' = StartTimer(beam, pulse)
  /\ pc' = "pulse_wait"
  /\ UNCHANGED <<queue, raster, motion, laser, pixel, after, planned, block, bytes,
                 pulse, sent, host>>

(* The loop's body is empty and laser_is_on is no volatile: a build may    *)
(* read it at every turn, or once, before the first.                       *)
PulseDone ==
  /\ pc = "pulse_wait"
  /\ ~beam.on
  /\ pc' = "ready"
  /\ UNCHANGED <<stepper_vars, after, planned, block, bytes, pulse, sent, host>>

PulseHangs ==
  /\ pc = "pulse_wait"
  /\ beam.on
  /\ pc' = "pulse_ever"
  /\ UNCHANGED <<stepper_vars, after, planned, block, bytes, pulse, sent, host>>
-----------------------------------------------------------------------------
Command ==
  /\ Move \/ Spindle \/ Options \/ Line \/ Home \/ SetPosition \/ Wait \/ SinglePulse
  /\ UNCHANGED stepper_vars

Main ==
  \/ Put \/ PutDone \/ Push
  \/ QueueSeenEmpty \/ JobSeenDone \/ ResetRaster
  \/ PulseCounts \/ PulsePin \/ PulseTimer \/ PulseDone \/ PulseHangs

Interrupt == (Irq \/ Timer3) /\ UNCHANGED main_vars

Next == Command \/ Main \/ Interrupt

(* Timer 1 always runs, and a started timer 3 expires.  Main is never kept *)
(* from its work for good, but nobody has to send a command.               *)
Fairness ==
  /\ WF_vars(Irq /\ UNCHANGED main_vars)
  /\ WF_vars(Timer3 /\ UNCHANGED main_vars)
  /\ WF_vars(Main)

Spec == Init /\ [][Next]_vars
FairSpec == Spec /\ Fairness
-----------------------------------------------------------------------------
(* Properties *)

(* The steps an axis of the current job still has to take. *)
Remaining(a) ==
  IF a \in axis_mask
  THEN (step_ctr[a] - W + steps_total + steps_to_go * steps[a]) \div steps_total
  ELSE 0

(* Where the current job leaves the position. *)
JobLanding ==
  CASE Moving -> [a \in Axes |-> position[a] + count_direction[a] * Remaining(a)]
    [] job \in {"HOME", "HOME_REF"} ->
         [a \in Axes |-> IF a \in home_mask THEN steps[a] ELSE position[a]]
    [] OTHER -> position

(* Where a queued job leaves it, when it starts at `from'. *)
Landing(from, b) ==
  [a \in Axes |-> IF b.job \in {"MOVE_TO", "LINE"}
                  THEN from[a] + b.direction[a] * b.to[a]
                  ELSE IF a \in b.axes THEN b.to[a] ELSE from[a]]

Unfinished == IF pc \in {"put", "push"} THEN Append(queue, block) ELSE queue

(* The planner adds jobs to a position of its own (planner.c:71, 140, 206) *)
(* and never hears from the stepper: at every moment what is under way and *)
(* queued leads exactly to where the planner thinks it is.                 *)
Leads(from, jobs) ==
  LET at[n \in 0 .. Len(jobs)] == IF n = 0 THEN from ELSE Landing(at[n - 1], jobs[n])
  IN  at[Len(jobs)]
PlannerAgrees == Leads(JobLanding, Unfinished) = planned

(* Where main goes on after stepper_drain_buffer. *)
Drained == pc \in {"reset", "pulse", "pulse_pin", "pulse_timer", "pulse_wait", "pulse_ever"}

(* stepper_drain_buffer waits until all jobs are completed (stepper.c:1081): *)
(* nothing runs, nothing is queued, whatever main asks its two questions   *)
(* between.                                                                *)
DrainedIsIdle == Drained => queue = <<>> /\ job = "IDLE"

(* And the machine stands at the planned position.                         *)
DrainedIsStill == DrainedIsIdle /\ (Drained => position = planned)

(* When G28 returns, every axis it named stands one step off its switch,   *)
(* wherever it came from, and that place has the reference coordinate.     *)
HomeIsCalibrated ==
  pc = "reset" /\ after = "drain" /\ block.job = "HOME" =>
    \A a \in block.axes : /\ head_at[a] = Switch[a] - HomeDir[a]
                          /\ position[a] = block.to[a]

(* stepper.h:24, `NEVER FIRES LASER!', and the same for homing and for     *)
(* lines with the laser off: whatever ran before and however its last      *)
(* pulse falls, the beam is dark while such a job moves.                   *)
DarkJobs ==
  job \in {"MOVE_TO", "HOME", "HOME_REF"} \/ (job = "LINE" /\ laser.mode = OFF)
    => ~beam.pin

(* Raster lines that ask for one pulse per byte get their own bytes, in    *)
(* order, and are never short of one, although the bytes of later lines    *)
(* enter the same buffer while they run.                                   *)
OwnPixels == pixel \in {"none", "own"}

(* A command that waits for the stepper returns (gcode.c:319, 524, 678). *)
DrainReturns == pc = "drain" ~> pc \in {"ready", "pulse"}

(* Raster bytes and jobs always find room in the end. *)
RoomComes == pc \in {"put", "push"} ~> pc \notin {"put", "push"}

(* A machine left alone goes dark: the end of a job only sets the mode,    *)
(* the next interrupt acts on it (stepper.c:722 and 889).                  *)
AtRest == job = "IDLE" /\ queue = <<>> /\ pc = "ready"
RestIsDark == AtRest ~> (~beam.pin \/ ~AtRest)

(* The beam of a single pulse goes dark by the timer alone, though main    *)
(* may wait for it for ever (gcode.c:713-715) and no job comes to end it.  *)
PulseEnds == pc = "pulse_timer" /\ pulse > 0 ~> ~beam.pin
=============================================================================
