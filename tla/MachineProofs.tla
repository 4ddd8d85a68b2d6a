---------------------------- MODULE MachineProofs ----------------------------
(***************************************************************************)
(* Proofs about the machine, for every size of it, every sequence of       *)
(* commands and every interleaving with the interrupts: jobs without laser *)
(* run in the dark, homing ends at the reference, the planner and the      *)
(* stepper agree, raster lines get their own bytes, and the pulse timer's  *)
(* value fits.                                                             *)
(***************************************************************************)
EXTENDS Machine, SequenceTheorems, WellFoundedInduction, TLAPS

(* Where stepper_drain_buffer, and what follows it, rely on the stepper    *)
(* being at rest.                                                          *)
PastQueue == {"drain_job", "reset", "pulse", "pulse_pin", "pulse_timer", "pulse_wait",
              "pulse_ever"}
PastJob   == PastQueue \ {"drain_job"}

(* Nothing is queued and nothing runs while main relies on it, and main    *)
(* does not come to rely on it by pushing a job.                           *)
Still ==
  /\ pc \in {"put", "push"} => after \in {"ready", "drain"}
  /\ pc \in PastQueue => queue = <<>>
  /\ pc \in PastJob => job = "IDLE"

DarkJob == job \in {"MOVE_TO", "HOME", "HOME_REF"} \/ (job = "LINE" /\ laser.mode = OFF)

LaserFields == {"ctr", "steps", "pulse_duration_us", "power", "mode", "last_mode"}

(* What keeps the laser off during a job without laser: it is extinguished *)
(* when the job starts, and no interrupt of the job finds a change of mode *)
(* or an event of the laser's counter.                                     *)
Quiet ==
  /\ DOMAIN laser = LaserFields
  /\ DarkJob => /\ laser_mask = FALSE
                /\ laser.mode = OFF /\ laser.last_mode = OFF
                /\ ~beam.pin

DarkInv == Still /\ Quiet

LEMMA InitDark == Init => DarkInv
  BY DEF Init, StepperInit, DarkInv, Still, Quiet, DarkJob, PastQueue, PastJob, LaserFields

(* The fields an interrupt within a job leaves alone. *)
LEMMA ModeKept ==
  ASSUME DOMAIN laser = LaserFields
  PROVE  /\ DOMAIN LaserAfter = LaserFields
         /\ LaserAfter.mode = laser.mode
         /\ LaserAfter.last_mode = laser.mode
  BY DEF LaserAfter, LaserFields

(* In the dark an interrupt leaves the beam alone. *)
LEMMA BeamKept ==
  ASSUME laser_mask = FALSE, laser.mode = OFF, laser.last_mode = OFF
  PROVE  BeamAfterLaser = beam
  BY DEF BeamAfterLaser, BeamAfterMode, LaserDue

(* An interrupt within a job. *)
LEMMA GoesOnDark ==
  ASSUME Quiet, GoesOn, DarkJob' => DarkJob,
         laser_mask' = laser_mask \/ laser_mask' = FALSE
  PROVE  Quiet'
<1>1. DOMAIN laser' = LaserFields /\ laser'.mode = laser.mode /\ laser'.last_mode = laser.mode
  BY ModeKept DEF GoesOn, Quiet
<1>2. ASSUME DarkJob' PROVE laser_mask' = FALSE /\ laser'.mode = OFF /\ laser'.last_mode = OFF
                           /\ ~beam'.pin
  <2>1. laser_mask = FALSE /\ laser.mode = OFF /\ laser.last_mode = OFF /\ ~beam.pin
    BY <1>2 DEF Quiet
  <2>2. beam' = beam
    BY <2>1, BeamKept DEF GoesOn
  <2> QED
    BY <1>1, <2>1, <2>2
<1> QED
  BY <1>1, <1>2 DEF Quiet

LEMMA IrqDark == DarkInv /\ Irq /\ UNCHANGED main_vars => DarkInv'
<1> SUFFICES ASSUME DarkInv, Irq, UNCHANGED main_vars PROVE DarkInv'
  OBVIOUS
<1>s. Still'
  <2>1. CASE queue = <<>>
    <3>1. queue' = <<>> /\ (job = "IDLE" => job' = "IDLE")
      BY <2>1 DEF Irq, IrqStep, IrqSeek, IrqTurn, IrqLeave, IrqRest, IrqFetch, GoesOn
    <3> QED
      BY <3>1 DEF DarkInv, Still, main_vars
  <2>2. CASE queue # <<>>
    BY <2>2 DEF DarkInv, Still, main_vars, PastQueue, PastJob
  <2> QED
    BY <2>1, <2>2
<1>1. CASE IrqStep
  <2>1. laser'.mode = laser.mode
    BY <1>1, ModeKept DEF IrqStep, GoesOn, DarkInv, Quiet
  <2>2. (DarkJob' => DarkJob) /\ laser_mask' = laser_mask /\ GoesOn
    BY <1>1, <2>1 DEF IrqStep, DarkJob
  <2> QED
    BY <1>s, <2>2, GoesOnDark DEF DarkInv
<1>2. CASE IrqSeek
  BY <1>2, <1>s, GoesOnDark DEF IrqSeek, DarkInv, DarkJob
<1>3. CASE IrqTurn
  BY <1>3, <1>s, GoesOnDark DEF IrqTurn, DarkInv, DarkJob
<1>4. CASE IrqLeave
  BY <1>4, <1>s, GoesOnDark DEF IrqLeave, DarkInv, DarkJob
<1>5. CASE IrqRest
  <2>1. DOMAIN laser' = LaserFields
    BY <1>5, ModeKept DEF IrqRest, LaserAtRest, DarkInv, Quiet
  <2>2. ~DarkJob'
    BY <1>5 DEF IrqRest, DarkJob
  <2> QED
    BY <1>s, <2>1, <2>2 DEF DarkInv, Quiet
<1>6. CASE IrqFetch
  <2> DEFINE b == Head(queue)
  <2>1. /\ laser_mask' = (b.job = "LINE" /\ b.mode # OFF)
        /\ laser' = LaserOf(b, MaxStep(b.to))
        /\ beam' = BeamAtFetch(laser'.mode)
        /\ job' = b.job
    BY <1>6 DEF IrqFetch
  <2>2. DOMAIN laser' = LaserFields
    BY <2>1 DEF LaserOf, LaserFields
  <2>3. CASE b.job = "LINE" /\ b.mode # OFF
    <3>1. job' = "LINE" /\ laser'.mode # OFF
      BY <2>1, <2>3 DEF LaserOf
    <3> QED
      BY <1>s, <2>2, <3>1 DEF DarkInv, Quiet, DarkJob
  <2>4. CASE ~(b.job = "LINE" /\ b.mode # OFF)
    <3>1. laser_mask' = FALSE /\ laser'.mode = OFF /\ laser'.last_mode = OFF
      BY <2>1, <2>4 DEF LaserOf
    <3>2. beam' = Extinguish(BeamAfterLaser)
      BY <2>1, <3>1 DEF BeamAtFetch
    <3>3. ~beam'.pin
      BY <3>2 DEF Extinguish
    <3> QED
      BY <1>s, <2>2, <3>1, <3>3 DEF DarkInv, Quiet
  <2> QED
    BY <2>3, <2>4
<1> QED
  BY <1>1, <1>2, <1>3, <1>4, <1>5, <1>6 DEF Irq

LEMMA TimerDark == DarkInv /\ Timer3 /\ UNCHANGED main_vars => DarkInv'
<1> SUFFICES ASSUME DarkInv, Timer3, UNCHANGED main_vars PROVE DarkInv'
  OBVIOUS
<1>1. ~beam'.pin
  BY DEF Timer3, Expire, Extinguish
<1>2. UNCHANGED <<queue, job, laser_mask, laser, pc, after>>
  BY DEF Timer3, motion, main_vars
<1> QED
  BY <1>1, <1>2 DEF DarkInv, Still, Quiet, DarkJob

LEMMA CommandDark == DarkInv /\ Command => DarkInv'
<1> SUFFICES ASSUME DarkInv, Command PROVE DarkInv'
  OBVIOUS
<1>1. pc' \in {"ready", "drain"} \/ (pc' \in {"push", "put"} /\ after' \in {"ready", "drain"})
  <2>1. Move \/ Spindle \/ SetPosition
          => pc' = "push" /\ after' \in {"ready", "drain"}
    BY DEF Move, Spindle, QueueMove, SetPosition, Reference
  <2>2. Home => pc' = "push" /\ after' \in {"ready", "drain"}
    BY DEF Home, Reference
  <2>3. Line => pc' = "put" /\ after' \in {"ready", "drain"}
    BY Zenon DEF Line
  <2>4. Wait \/ SinglePulse => pc' = "drain"
    BY DEF Wait, SinglePulse
  <2>5. Options => pc' = "ready"
    BY DEF Options, Begin
  <2> QED
    BY <2>1, <2>2, <2>3, <2>4, <2>5 DEF Command
<1>2. UNCHANGED <<job, laser_mask, laser, beam>>
  BY DEF Command, stepper_vars, motion
<1> QED
  BY <1>1, <1>2 DEF DarkInv, Still, Quiet, DarkJob, PastQueue, PastJob

(* main lights the laser only while the stepper is at rest. *)
LEMMA MainDark == DarkInv /\ Main => DarkInv'
<1> SUFFICES ASSUME DarkInv, Main PROVE DarkInv'
  OBVIOUS
<1> USE DEF DarkInv, Still, Quiet, DarkJob, PastQueue, PastJob
<1>1. CASE Put \/ PutDone
  BY <1>1 DEF Put, PutDone, stepper_vars, motion
<1>2. CASE Push
  <2>1. pc' = after /\ pc' \in {"ready", "drain"} /\ after' = after
    BY <1>2 DEF Push
  <2> QED
    BY <1>2, <2>1 DEF Push, motion
<1>3. CASE QueueSeenEmpty \/ JobSeenDone \/ PulseDone \/ PulseHangs
  BY <1>3 DEF QueueSeenEmpty, JobSeenDone, PulseDone, PulseHangs, stepper_vars, motion
<1>4. CASE ResetRaster
  BY <1>4 DEF ResetRaster, motion
<1>5. CASE PulseCounts \/ PulsePin \/ PulseTimer
  <2>1. job = "IDLE" /\ queue = <<>>
    BY <1>5 DEF PulseCounts, PulsePin, PulseTimer
  <2>2. /\ UNCHANGED <<queue, job, laser>>
        /\ pc' \in {"pulse_pin", "pulse_timer", "pulse_wait"}
    BY <1>5 DEF PulseCounts, PulsePin, PulseTimer, motion
  <2> QED
    BY <2>1, <2>2
<1> QED
  BY <1>1, <1>2, <1>3, <1>4, <1>5 DEF Main

LEMMA NextDark == DarkInv /\ [Next]_vars => DarkInv'
<1>1. DarkInv /\ UNCHANGED vars => DarkInv'
  BY DEF DarkInv, Still, Quiet, DarkJob, vars, stepper_vars, motion, main_vars
<1> QED
  BY <1>1, IrqDark, TimerDark, CommandDark, MainDark DEF Next, Interrupt

(* stepper.h:24, `NEVER FIRES LASER!': no job without laser ever moves     *)
(* with the beam on, whatever ran before it.                               *)
THEOREM JobsAreDark == Spec => []DarkJobs
<1>1. DarkInv => DarkJobs
  BY DEF DarkInv, Quiet, DarkJob, DarkJobs
<1> QED
  BY InitDark, NextDark, <1>1, PTL DEF Spec

(* stepper_drain_buffer, which looks at the queue and then at the job,     *)
(* really waits for both, and they stay as they are until main goes on     *)
(* (stepper.c:1081).                                                       *)
THEOREM WaitingWaits == Spec => []DrainedIsIdle
<1>1. DarkInv => DrainedIsIdle
  BY DEF DarkInv, Still, PastJob, PastQueue, DrainedIsIdle, Drained
<1> QED
  BY InitDark, NextDark, <1>1, PTL DEF Spec
-----------------------------------------------------------------------------
(***************************************************************************)
(* The planner and the stepper.  What is under way and queued leads to     *)
(* where the planner thinks it is: a step moves the position one closer to *)
(* where the job leaves it, and the end of a job leaves it there.          *)
(***************************************************************************)

LEMMA LeastElement ==
  ASSUME NEW T, T \subseteq Nat, T # {}
  PROVE  \E x \in T : \A y \in T : x <= y
<1> DEFINE R == OpToRel(<, Nat)
<1>1. IsWellFoundedOn(R, Nat)
  BY NatLessThanWellFounded, Zenon
<1>2. \A x, y \in Nat : x < y => <<x, y>> \in R
  BY DEF OpToRel
<1> HIDE DEF R
<1>3. PICK x \in T : \A y \in T : ~(<<y, x>> \in R)
  BY <1>1, WFMin, Zenon
<1>4. ASSUME NEW y \in T PROVE x <= y
  <2>1. ~(y < x)
    BY <1>2, <1>3
  <2> QED
    BY <2>1
<1> QED
  BY <1>4

(* The steps of a job's longest axis. *)
LEMMA LongestAxis ==
  ASSUME NEW to \in [Axes -> Nat], \A a \in Axes : to[a] < W
  PROVE  /\ MaxStep(to) \in Nat /\ MaxStep(to) < W
         /\ \A a \in Axes : to[a] <= MaxStep(to)
         /\ \E a \in Axes : to[a] = MaxStep(to)
<1> DEFINE T == {W - to[a] : a \in Axes}
<1>1. W \in Nat
  BY WidthAssumption
<1>2. T \subseteq Nat /\ T # {}
  BY <1>1, AxesAssumption
<1>3. PICK x \in T : \A y \in T : x <= y
  BY <1>2, LeastElement
<1>4. PICK b \in Axes : x = W - to[b]
  OBVIOUS
<1>5. \A a \in Axes : to[b] >= to[a]
  <2> TAKE a \in Axes
  <2>1. W - to[a] \in T
    OBVIOUS
  <2>2. x <= W - to[a]
    BY <1>3, <2>1
  <2>3. to[a] \in Nat /\ to[b] \in Nat
    OBVIOUS
  <2> HIDE DEF T
  <2> QED
    BY <1>1, <1>4, <2>2, <2>3
<1>6. \E n \in {to[a] : a \in Axes} : \A a \in Axes : n >= to[a]
  BY <1>5
<1>7. MaxStep(to) \in {to[a] : a \in Axes} /\ \A a \in Axes : MaxStep(to) >= to[a]
  BY <1>6 DEF MaxStep
<1> QED
  BY <1>7

LEMMA DivUnique ==
  ASSUME NEW d \in Nat \ {0}, NEW k \in Int, NEW q \in Int, q * d <= k, k < q * d + d
  PROVE  k \div d = q
<1> DEFINE p == k \div d
<1>1. p \in Int /\ p * d <= k /\ k < p * d + d
  OBVIOUS
<1> HIDE DEF p
<1>2. p >= q + 1 => p * d >= q * d + d
  <2>1. p >= q + 1 => p * d >= (q + 1) * d
    BY <1>1
  <2>2. (q + 1) * d = q * d + d
    OBVIOUS
  <2> QED
    BY <2>1, <2>2
<1>3. q >= p + 1 => q * d >= p * d + d
  <2>1. q >= p + 1 => q * d >= (p + 1) * d
    BY <1>1
  <2>2. (p + 1) * d = p * d + d
    BY <1>1
  <2> QED
    BY <2>1, <2>2
<1>4. p * d \in Int /\ q * d \in Int
  BY <1>1
<1>5. p = q
  BY <1>1, <1>2, <1>3, <1>4
<1> QED
  BY <1>5 DEF p

(* The steps an axis still has to take, from its counter c, the steps s of *)
(* its t it takes altogether, and the interrupts g to come.                *)
Rest(c, s, g, t) == (c - W + t + g * s) \div t

(* A counter stays in the t values below W. *)
LEMMA CounterSteps ==
  ASSUME NEW t \in Nat, t < W, NEW s \in 0 .. t, NEW c \in W - t .. W - 1
  PROVE  /\ Advance(c, s, t) \in W - t .. W - 1
         /\ Carry(c, s) => Advance(c, s, t) = c + s - t
         /\ ~Carry(c, s) => Advance(c, s, t) = c + s
         /\ t > 0
BY WidthAssumption DEF Advance, Carry, Wrap

(* An interrupt takes a step off the rest, or leaves it. *)
LEMMA RestSteps ==
  ASSUME NEW t \in Nat, t < W, NEW s \in 0 .. t, NEW c \in W - t .. W - 1,
         NEW g \in Nat, g >= 1
  PROVE  /\ Rest(c, s, g, t) \in Int
         /\ Rest(c, s, g, t) = Rest(Advance(c, s, t), s, g - 1, t)
                                 + IF Carry(c, s) THEN 1 ELSE 0
<1>0. W \in Nat
  BY WidthAssumption
<1> DEFINE m == g * s
           k == (g - 1) * s
           x == c - W + t + m
           e == Advance(c, s, t)
           y == e - W + t + k
           q == y \div t
<1>1. m \in Nat /\ k \in Nat /\ m = k + s
  OBVIOUS
<1>2. /\ e \in W - t .. W - 1 /\ t > 0
      /\ Carry(c, s) => e = c + s - t
      /\ ~Carry(c, s) => e = c + s
  BY CounterSteps
<1> HIDE DEF m, k, e
<1>3. x \in Int /\ y \in Int /\ (Carry(c, s) => y = x - t) /\ (~Carry(c, s) => y = x)
  BY <1>0, <1>1, <1>2
<1> HIDE DEF x, y
<1>4. q \in Int /\ q * t <= y /\ y < q * t + t
  BY <1>2, <1>3
<1>5. CASE Carry(c, s)
  <2>1. (q + 1) * t = q * t + t
    BY <1>4
  <2>2. (q + 1) * t <= x /\ x < (q + 1) * t + t
    BY <1>3, <1>4, <1>5, <2>1
  <2>3. x \div t = q + 1
    BY <1>2, <1>3, <1>4, <2>2, DivUnique
  <2> QED
    BY <1>4, <1>5, <2>3 DEF Rest, x, y, m, k, e
<1>6. CASE ~Carry(c, s)
  BY <1>3, <1>4, <1>6 DEF Rest, x, y, m, k, e
<1> QED
  BY <1>5, <1>6

(* Nothing is left after the last interrupt. *)
LEMMA RestEnds ==
  ASSUME NEW t \in Nat, t < W, NEW s \in 0 .. t, NEW c \in W - t .. W - 1
  PROVE  Rest(c, s, 0, t) = 0
<1>0. W \in Nat
  BY WidthAssumption
<1> DEFINE x == c - W + t + 0 * s
<1>1. x \in Int /\ 0 * t = 0 /\ 0 <= x /\ x < t /\ t \in Nat \ {0}
  BY <1>0
<1> HIDE DEF x
<1>2. x \div t = 0
  BY <1>1, DivUnique
<1> QED
  BY <1>2 DEF Rest, x

(* All steps are left before the first one, if there is more than one. *)
LEMMA RestStarts ==
  ASSUME NEW t \in Nat, t < W, t >= 2, NEW s \in 0 .. t
  PROVE  /\ Wrap(-(t \div 2)) \in W - t .. W - 1
         /\ Rest(Wrap(-(t \div 2)), s, t, t) = s
<1>0. W \in Nat
  BY WidthAssumption
<1> DEFINE h == t \div 2
           m == t * s
           x == (W - h) - W + t + m
<1>1. h \in Nat /\ h >= 1 /\ h < t
  OBVIOUS
<1>2. m \in Nat /\ s * t = m
  OBVIOUS
<1> HIDE DEF h, m
<1>3. Wrap(-h) = W - h
  BY <1>0, <1>1 DEF Wrap
<1>4. x = m + (t - h) /\ s * t <= x /\ x < s * t + t /\ x \in Int
  BY <1>0, <1>1, <1>2
<1> HIDE DEF x
<1>5. x \div t = s
  <2>1. t \in Nat \ {0}
    OBVIOUS
  <2> QED
    BY <1>4, <2>1, DivUnique
<1> QED
  BY <1>0, <1>1, <1>3, <1>5 DEF Rest, x, h, m

LEMMA Induction ==
  ASSUME NEW S, 0 \in S, \A n \in Nat : n \in S => n + 1 \in S
  PROVE  Nat \subseteq S
<1> SUFFICES ASSUME Nat \ S # {} PROVE FALSE
  OBVIOUS
<1>1. PICK x \in Nat \ S : \A y \in Nat \ S : x <= y
  BY LeastElement
<1>2. x - 1 \in Nat /\ x - 1 \in S
  BY <1>1
<1> QED
  BY <1>2

(* A sequence of places, each where the next job leads from the one before, *)
(* shows where all of them lead.                                           *)
LEMMA PathLeads ==
  ASSUME NEW from, NEW jobs, Len(jobs) \in Nat, NEW path, path[0] = from,
         \A i \in 1 .. Len(jobs) : path[i] = Landing(path[i - 1], jobs[i])
  PROVE  Leads(from, jobs) = path[Len(jobs)]
<1> DEFINE L == Len(jobs)
           Land(p, b) == Landing(p, b)
           at == CHOOSE f : f = [n \in 0 .. L |-> IF n = 0 THEN from ELSE Land(f[n - 1], jobs[n])]
           p == [n \in 0 .. L |-> path[n]]
<1>1. Leads(from, jobs) = at[L]
  BY DEF Leads
<1>2. \A i \in 1 .. L : path[i] = Land(path[i - 1], jobs[i])
  OBVIOUS
<1> HIDE DEF Land
<1>3. p = [n \in 0 .. L |-> IF n = 0 THEN from ELSE Land(p[n - 1], jobs[n])]
  <2>1. \A n \in 0 .. L : p[n] = IF n = 0 THEN from ELSE Land(p[n - 1], jobs[n])
    BY <1>2
  <2> QED
    BY <2>1
<1> HIDE DEF p
<1>4. at = [n \in 0 .. L |-> IF n = 0 THEN from ELSE Land(at[n - 1], jobs[n])]
  BY <1>3, Zenon
<1> HIDE DEF at
<1> DEFINE S == {n \in Nat : n <= L => at[n] = path[n]}
<1>5. 0 \in S
  BY <1>4
<1>6. ASSUME NEW n \in Nat, n \in S PROVE n + 1 \in S
  <2> SUFFICES ASSUME n + 1 <= L PROVE at[n + 1] = path[n + 1]
    OBVIOUS
  <2>1. n + 1 \in 1 .. L /\ (n + 1) - 1 = n /\ at[n] = path[n]
    BY <1>6
  <2>2. at[n + 1] = Land(at[n], jobs[n + 1])
    BY <1>4, <2>1
  <2>3. path[n + 1] = Land(path[n], jobs[n + 1])
    BY <1>2, <2>1
  <2> QED
    BY <2>1, <2>2, <2>3
<1> HIDE DEF S
<1>7. Nat \subseteq S
  BY <1>5, <1>6, Induction
<1>8. at[L] = path[L]
  BY <1>7 DEF S
<1> QED
  BY <1>1, <1>8

Kinds == {"MOVE_TO", "LINE", "HOME", "HOME_REF"}
Place == [Axes -> Int]
Block ==
  {b \in [job : Kinds, to : Place, direction : Place, axes : SUBSET Axes, mode : Mode,
          pulses : Nat, us : Nat, power : Nat, line : Nat] :
     b.job = "HOME" => \A a \in b.axes : HomeDir[a] # 0}

MotionType ==
  /\ queue \in Seq(Block) /\ block \in Block
  /\ planned \in Place /\ position \in Place /\ head_at \in Place
  /\ steps \in Place /\ count_direction \in Place
  /\ job \in Kinds \cup {"IDLE"}
  /\ axis_mask \subseteq Axes /\ home_mask \subseteq Axes
  /\ sent \in Nat /\ host \in Hosts

OneOff(a) == head_at[a] = Switch[a] - HomeDir[a]

(* Homing: an axis that has left the mask has found its switch. *)
Homing ==
  /\ job \in {"HOME", "HOME_REF"} => axis_mask \subseteq home_mask
  /\ job = "HOME" =>
       /\ count_direction = HomeDir
       /\ \A a \in home_mask : HomeDir[a] # 0 /\ (a \in axis_mask \/ HomeIsActive(a))

(* Turned round: an axis that has left the mask is one step off. *)
Backing ==
  /\ count_direction = [a \in Axes |-> -HomeDir[a]]
  /\ \A a \in home_mask : HomeDir[a] # 0 /\ (OneOff(a) \/ (a \in axis_mask /\ HomeIsActive(a)))

(* The homing that main asked for last: queued, under way, or done and     *)
(* nothing has moved since.                                                *)
Pushed == pc \notin {"put", "push"}
LastHome ==
  block.job = "HOME" /\ Pushed =>
    \/ queue # <<>> /\ queue[Len(queue)] = block
    \/ queue = <<>> /\ job = "HOME" /\ home_mask = block.axes /\ steps = block.to
    \/ queue = <<>> /\ job = "HOME_REF" /\ home_mask = block.axes /\ steps = block.to /\ Backing
    \/ queue = <<>> /\ job = "IDLE" /\ \A a \in block.axes : OneOff(a) /\ position[a] = block.to[a]

HomeInv == DarkInv /\ MotionType /\ Homing /\ LastHome

LEMMA InitHome == Init => HomeInv
<1> SUFFICES ASSUME Init PROVE HomeInv
  OBVIOUS
<1>1. Zero \in Place /\ [a \in Axes |-> 0] \in Place /\ [a \in Axes |-> 1] \in Place
  BY DEF Zero, Place
<1>2. block \in Block /\ block.job = "MOVE_TO"
  BY <1>1 DEF Init, Block, Kinds, Mode, OFF
<1>3. queue \in Seq(Block)
  BY DEF Init, StepperInit
<1>4. head_at \in Place
  BY HostAssumption DEF Init, Place
<1> QED
  BY <1>1, <1>2, <1>3, <1>4, InitDark
     DEF Init, StepperInit, HomeInv, MotionType, Homing, LastHome

(* The axes that step do so by one. *)
LEMMA SteppedTyped ==
  ASSUME MotionType, NEW axes, Stepped(axes)
  PROVE  position' \in Place /\ head_at' \in Place
<1>1. \A a \in Axes : position[a] \in Int /\ head_at[a] \in Int /\ count_direction[a] \in Int
  BY DEF MotionType, Place
<1> QED
  BY <1>1 DEF Stepped, Place

LEMMA JobEndsTyped ==
  ASSUME MotionType, JobEnds
  PROVE  position' \in Place /\ head_at' \in Place
<1>1. CASE UNCHANGED <<position, head_at>>
  BY <1>1 DEF MotionType
<1>2. CASE Stepped(Due)
  BY <1>2, SteppedTyped
<1>3. CASE /\ position' = [a \in Axes |-> IF a \in home_mask THEN steps[a] ELSE position[a]]
           /\ UNCHANGED head_at
  BY <1>3 DEF MotionType, Place
<1> QED
  BY <1>1, <1>2, <1>3 DEF JobEnds

LEMMA HeadOfQueue ==
  ASSUME MotionType, queue # <<>>
  PROVE  Head(queue) \in Block /\ Tail(queue) \in Seq(Block)
BY DEF MotionType

LEMMA IrqTyped == MotionType /\ Irq /\ UNCHANGED main_vars => MotionType'
<1> SUFFICES ASSUME MotionType, Irq, UNCHANGED main_vars PROVE MotionType'
  OBVIOUS
<1>m. block' \in Block /\ planned' \in Place /\ sent' \in Nat /\ host' \in Hosts
  BY DEF MotionType, main_vars
<1>1. CASE IrqStep
  <2>1. position' \in Place /\ head_at' \in Place
    BY <1>1, SteppedTyped DEF IrqStep
  <2> QED
    BY <1>1, <1>m, <2>1 DEF IrqStep, GoesOn, MotionType
<1>2. CASE IrqSeek
  <2>1. position' \in Place /\ head_at' \in Place
    BY <1>2, SteppedTyped DEF IrqSeek
  <2> QED
    BY <1>2, <1>m, <2>1 DEF IrqSeek, GoesOn, MotionType, Seeking
<1>3. CASE IrqTurn
  <2>1. \A a \in Axes : HomeDir[a] \in Int
    BY HomeDirAssumption
  <2>2. count_direction' \in Place
    BY <1>3, <2>1 DEF IrqTurn, Place
  <2> QED
    BY <1>3, <1>m, <2>2 DEF IrqTurn, GoesOn, MotionType, Kinds
<1>4. CASE IrqLeave
  <2>1. position' \in Place /\ head_at' \in Place
    BY <1>4, SteppedTyped DEF IrqLeave
  <2> QED
    BY <1>4, <1>m, <2>1 DEF IrqLeave, GoesOn, MotionType, Leaving
<1>5. CASE IrqRest
  <2>1. position' \in Place /\ head_at' \in Place
    BY <1>5, JobEndsTyped DEF IrqRest
  <2> QED
    BY <1>5, <1>m, <2>1 DEF IrqRest, MotionType
<1>6. CASE IrqFetch
  <2> DEFINE b == Head(queue)
  <2>1. position' \in Place /\ head_at' \in Place
    BY <1>6, JobEndsTyped DEF IrqFetch
  <2>2. b \in Block /\ Tail(queue) \in Seq(Block)
    BY <1>6, HeadOfQueue DEF IrqFetch
  <2>3. b.job \in Kinds /\ b.to \in Place /\ b.direction \in Place /\ b.axes \subseteq Axes
    BY <2>2 DEF Block
  <2>4. HomeDir \in Place
    BY HomeDirAssumption DEF Place
  <2>5. /\ queue' = Tail(queue) /\ job' = b.job /\ steps' = b.to
        /\ IF b.job \in {"MOVE_TO", "LINE"} THEN LoadMove(b) ELSE LoadHome(b)
    BY <1>6 DEF IrqFetch
  <2> HIDE DEF b
  <2>6. /\ count_direction' \in Place /\ axis_mask' \subseteq Axes /\ home_mask' \subseteq Axes
    <3>1. CASE LoadMove(b)
      BY <2>3, <3>1 DEF LoadMove
    <3>2. CASE LoadHome(b)
      BY <2>3, <2>4, <3>2 DEF LoadHome, MotionType
    <3> QED
      BY <2>5, <3>1, <3>2
  <2> QED
    BY <1>m, <2>1, <2>2, <2>3, <2>5, <2>6 DEF MotionType
<1> QED
  BY <1>1, <1>2, <1>3, <1>4, <1>5, <1>6 DEF Irq

(* abs is the distance, as long as an int holds it. *)
LEMMA AbsNatural ==
  ASSUME NEW n \in Int
  PROVE  abs(n) \in Nat
<1>1. IntRange \in Nat /\ IntRange > 0
  BY IntAssumption
<1>2. PICK i \in 0 .. IntRange - 1 : i = n % IntRange
  BY <1>1
<1> QED
  BY <1>1, <1>2 DEF abs

WithinInt(n) == -IntRange < 2 * n /\ 2 * n < IntRange

LEMMA AbsFits ==
  ASSUME NEW n \in Int, WithinInt(n)
  PROVE  abs(n) = IF n >= 0 THEN n ELSE -n
<1>1. IntRange \in Nat /\ IntRange > 0
  BY IntAssumption
<1>2. CASE n >= 0
  <2>1. n % IntRange = n
    BY <1>1, <1>2 DEF WithinInt
  <2> QED
    BY <1>1, <1>2, <2>1 DEF abs, WithinInt
<1>3. CASE n < 0
  <2>1. n + IntRange \in 0 .. IntRange - 1 /\ n = IntRange * (-1) + (n + IntRange)
    BY <1>1, <1>3 DEF WithinInt
  <2>2. n % IntRange = n + IntRange
    BY <1>1, <2>1
  <2> QED
    BY <1>1, <1>3, <2>2 DEF abs, WithinInt
<1> QED
  BY <1>2, <1>3

LEMMA FilledTyped ==
  ASSUME MotionType, NEW kind \in Kinds, kind # "HOME", NEW target \in Place, sent' \in Nat,
         NEW opts, opts.mode \in Mode, opts.pulses \in Nat, opts.us \in Nat, opts.power \in Nat
  PROVE  Filled(kind, target, opts) \in Block
<1>1. \A a \in Axes : target[a] \in Int /\ planned[a] \in Int
  BY DEF MotionType, Place
<1>2. Apart(target) \in Place /\ Direction(target) \in Place
  <2>1. \A a \in Axes : abs(target[a] - planned[a]) \in Int
    BY <1>1, AbsNatural
  <2> QED
    BY <1>1, <2>1 DEF Apart, Direction, Place
<1> QED
  BY <1>2 DEF Filled, Block

(* What a command that queues a job leaves for main to push. *)
LEMMA CommandTyped ==
  ASSUME MotionType, Command
  PROVE  /\ MotionType'
         /\ \/ UNCHANGED <<block, planned>> /\ pc' \in {"ready", "drain"}
            \/ pc' \in {"put", "push"}
<1>s. /\ UNCHANGED <<queue, position, head_at, steps, count_direction, job, axis_mask, home_mask>>
      /\ sent' = sent + 1 /\ UNCHANGED host
  BY DEF Command, stepper_vars, motion, Move, Spindle, Options, Line, Home, SetPosition, Wait,
         SinglePulse, Begin
<1>t. /\ host \in Hosts /\ planned \in Place /\ block \in Block /\ sent' \in Nat
      /\ \A a \in Axes : planned[a] \in Int
  BY <1>s DEF MotionType, Place
<1>h. /\ Targets \subseteq Place
      /\ host.options \subseteq [mode : Mode, pulses : Nat, us : Nat, power : Nat]
  BY <1>t, HostAssumption DEF Place
<1>m. ASSUME NEW target \in Place, QueueMove(target)
      PROVE  block' \in Block /\ planned' \in Place /\ pc' = "push"
  <2>1. /\ NoLaser.mode \in Mode /\ NoLaser.pulses \in Nat /\ NoLaser.us \in Nat
        /\ NoLaser.power \in Nat
    BY DEF NoLaser, Mode, OFF
  <2>2. Filled("MOVE_TO", target, NoLaser) \in Block
    BY <1>s, <1>t, <2>1, FilledTyped DEF Kinds
  <2> QED
    BY <1>m, <2>2 DEF QueueMove
<1>1. CASE Move
  BY <1>1, <1>h, <1>m, <1>s, <1>t DEF Move, MotionType
<1>2. CASE Spindle
  BY <1>2, <1>m, <1>s, <1>t DEF Spindle, MotionType
<1>3. CASE Options \/ Wait \/ SinglePulse
  BY <1>3, <1>s, <1>t DEF Options, Wait, SinglePulse, Begin, MotionType
<1>4. CASE Line
  <2>1. PICK target \in Targets, opts \in host.options :
           block' = Filled("LINE", target, opts) /\ planned' = target
    BY <1>4 DEF Line
  <2>2. /\ opts.mode \in Mode /\ opts.pulses \in Nat /\ opts.us \in Nat /\ opts.power \in Nat
        /\ target \in Place
    BY <1>h
  <2>3. block' \in Block
    BY <1>s, <1>t, <2>1, <2>2, FilledTyped DEF Kinds
  <2>4. pc' = "put"
    BY <1>4 DEF Line
  <2> QED
    BY <1>s, <1>t, <2>1, <2>2, <2>3, <2>4 DEF MotionType
<1>r. ASSUME NEW kind \in {"HOME", "HOME_REF"}, NEW axes \in SUBSET Axes, NEW target \in Place,
             NEW then, Reference(kind, axes, target, then),
             kind = "HOME" => \A a \in axes : HomeDir[a] # 0
      PROVE  block' \in Block /\ planned' \in Place /\ pc' = "push"
  <2>1. block' = [block EXCEPT !.job = kind, !.to = target, !.axes = axes, !.line = sent']
    BY <1>r DEF Reference
  <2>2. block \in [job : Kinds, to : Place, direction : Place, axes : SUBSET Axes, mode : Mode,
                   pulses : Nat, us : Nat, power : Nat, line : Nat]
    BY <1>t DEF Block
  <2>3. block' \in [job : Kinds, to : Place, direction : Place, axes : SUBSET Axes, mode : Mode,
                    pulses : Nat, us : Nat, power : Nat, line : Nat]
    BY <1>t, <2>1, <2>2 DEF Kinds
  <2>4. block'.job = kind /\ block'.axes = axes
    BY <2>1, <2>2
  <2>5. block' \in Block
    BY <1>r, <2>3, <2>4 DEF Block
  <2> QED
    BY <1>r, <2>5 DEF Reference
<1>5. CASE Home
  <2>1. PICK axes \in HomeSets \ {{}}, at \in Targets :
          Reference("HOME", axes, [a \in Axes |-> IF a \in axes THEN at[a] ELSE planned[a]], "drain")
    BY <1>5 DEF Home
  <2>2. axes \in SUBSET Axes /\ \A a \in axes : HomeDir[a] # 0
    BY HostAssumption
  <2>3. [a \in Axes |-> IF a \in axes THEN at[a] ELSE planned[a]] \in Place
    BY <1>h, <1>t DEF Place
  <2> QED
    BY <1>r, <1>s, <1>t, <2>1, <2>2, <2>3 DEF MotionType
<1>6. CASE SetPosition
  <2>1. PICK target \in Targets : Reference("HOME_REF", Axes, target, "ready")
    BY <1>6 DEF SetPosition
  <2> QED
    BY <1>h, <1>r, <1>s, <1>t, <2>1 DEF MotionType
<1> QED
  BY <1>1, <1>2, <1>3, <1>4, <1>5, <1>6 DEF Command

LEMMA MainTyped == MotionType /\ Main => MotionType'
<1> SUFFICES ASSUME MotionType, Main PROVE MotionType'
  OBVIOUS
<1>1. /\ UNCHANGED <<position, head_at, steps, count_direction, job, axis_mask, home_mask,
                     planned, block, sent, host>>
      /\ queue' = queue \/ queue' = Append(queue, block)
  BY DEF Main, Put, PutDone, Push, QueueSeenEmpty, JobSeenDone, ResetRaster, PulseCounts,
         PulsePin, PulseTimer, PulseDone, PulseHangs, stepper_vars, motion
<1>2. queue' \in Seq(Block)
  BY <1>1 DEF MotionType
<1> QED
  BY <1>1, <1>2 DEF MotionType

LEMMA TimerKeeps ==
  ASSUME Timer3, UNCHANGED main_vars
  PROVE  UNCHANGED <<queue, raster, motion, laser, pixel, main_vars>>
BY DEF Timer3

LEMMA IrqHoming == MotionType /\ Homing /\ Irq => Homing'
<1> SUFFICES ASSUME MotionType, Homing, Irq PROVE Homing'
  OBVIOUS
<1>1. CASE IrqStep
  BY <1>1 DEF IrqStep, Homing
<1>2. CASE IrqSeek
  <2>1. /\ axis_mask' = Seeking /\ Seeking \subseteq axis_mask /\ axis_mask \subseteq home_mask
        /\ UNCHANGED <<job, home_mask, count_direction>> /\ job = "HOME"
        /\ home_mask \subseteq Axes
    BY <1>2 DEF IrqSeek, Seeking, Homing, MotionType
  <2>2. \A a \in Axes : a \notin Seeking => head_at'[a] = head_at[a]
    BY <1>2 DEF IrqSeek, Stepped
  <2>3. ASSUME NEW a \in home_mask, a \notin Seeking PROVE HomeIsActive(a)'
    <3>1. HomeIsActive(a)
      BY <2>1, <2>3 DEF Seeking, Homing
    <3>2. head_at'[a] = head_at[a]
      BY <2>1, <2>2, <2>3
    <3> QED
      BY <3>1, <3>2 DEF HomeIsActive
  <2> QED
    BY <2>1, <2>3 DEF Homing
<1>3. CASE IrqTurn
  BY <1>3 DEF IrqTurn, Homing
<1>4. CASE IrqLeave
  BY <1>4 DEF IrqLeave, Homing, Leaving
<1>5. CASE IrqRest
  BY <1>5 DEF IrqRest, Homing
<1>6. CASE IrqFetch
  <2> DEFINE b == Head(queue)
  <2>1. b \in Block
    BY <1>6, HeadOfQueue DEF IrqFetch
  <2>2. /\ b.job = "HOME" => \A a \in b.axes : HomeDir[a] # 0
    BY <2>1 DEF Block
  <2>3. job' = b.job /\ (b.job \in {"HOME", "HOME_REF"} => LoadHome(b))
    BY <1>6 DEF IrqFetch
  <2> HIDE DEF b
  <2> QED
    BY <2>2, <2>3 DEF Homing, LoadHome
<1> QED
  BY <1>1, <1>2, <1>3, <1>4, <1>5, <1>6 DEF Irq

(* An axis that leaves its switch goes on, or is off by one. *)
LEMMA StepOff ==
  ASSUME NEW a \in Axes, HomeDir[a] # 0, head_at[a] \in Int, HomeIsActive(a),
         head_at'[a] = head_at[a] + (-HomeDir[a])
  PROVE  OneOff(a)' \/ HomeIsActive(a)'
<1>1. HomeDir[a] \in {-1, 1} /\ Switch[a] \in Int
  BY HomeDirAssumption, SwitchAssumption
<1>2. CASE HomeDir[a] = 1
  BY <1>1, <1>2 DEF HomeIsActive, OneOff
<1>3. CASE HomeDir[a] = -1
  BY <1>1, <1>3 DEF HomeIsActive, OneOff
<1> QED
  BY <1>1, <1>2, <1>3

LEMMA LeaveBacks ==
  ASSUME MotionType, Homing, Backing, IrqLeave
  PROVE  Backing'
<1>1. /\ axis_mask' = Leaving /\ axis_mask \subseteq home_mask /\ home_mask \subseteq Axes
      /\ UNCHANGED <<home_mask, count_direction>>
      /\ \A a \in Axes : head_at'[a] = IF a \in Leaving THEN head_at[a] + count_direction[a]
                                       ELSE head_at[a]
  BY DEF IrqLeave, Homing, MotionType, Stepped
<1>2. ASSUME NEW a \in home_mask
      PROVE  HomeDir[a] # 0 /\ (OneOff(a)' \/ (a \in axis_mask' /\ HomeIsActive(a)'))
  <2>0. a \in Axes /\ HomeDir[a] # 0 /\ head_at[a] \in Int
    BY <1>1 DEF Backing, MotionType, Place
  <2>1. CASE a \in Leaving
    <3>1. HomeIsActive(a)
      BY <2>1 DEF Leaving
    <3>2. head_at'[a] = head_at[a] + (-HomeDir[a])
      BY <1>1, <2>0, <2>1 DEF Backing
    <3> QED
      BY <1>1, <2>0, <2>1, <3>1, <3>2, StepOff
  <2>2. CASE a \notin Leaving
    <3>1. OneOff(a)
      BY <2>0, <2>2 DEF Leaving, Backing
    <3>2. head_at'[a] = head_at[a]
      BY <1>1, <2>0, <2>2
    <3> QED
      BY <2>0, <3>1, <3>2 DEF OneOff
  <2> QED
    BY <2>1, <2>2
<1> QED
  BY <1>1, <1>2 DEF Backing

LEMMA TailOfOne ==
  ASSUME NEW S, NEW q \in Seq(S), Len(q) = 1
  PROVE  Tail(q) = <<>> /\ Head(q) = q[Len(q)]
<1>1. q # <<>>
  OBVIOUS
<1>2. Tail(q) \in Seq(S) /\ Len(Tail(q)) = 0
  BY <1>1
<1>3. Tail(q) = <<>>
  BY <1>2, EmptySeq
<1>4. Head(q) = q[1]
  BY <1>1
<1> QED
  BY <1>3, <1>4

LEMMA TailOfMore ==
  ASSUME NEW S, NEW q \in Seq(S), Len(q) > 1
  PROVE  Tail(q) # <<>> /\ Tail(q)[Len(Tail(q))] = q[Len(q)]
<1>1. Tail(q) \in Seq(S) /\ Len(Tail(q)) = Len(q) - 1
  OBVIOUS
<1>2. \A i \in 1 .. Len(q) - 1 : Tail(q)[i] = q[i + 1]
  OBVIOUS
<1>3. Len(q) \in Nat
  OBVIOUS
<1>4. Len(q) - 1 \in 1 .. Len(q) - 1 /\ (Len(q) - 1) + 1 = Len(q)
  BY <1>3
<1>5. Tail(q)[Len(q) - 1] = q[Len(q)]
  BY <1>2, <1>4
<1>6. Len(Tail(q)) # 0
  BY <1>1, <1>3
<1>7. Tail(q) # <<>>
  BY <1>1, <1>6, EmptySeq
<1> QED
  BY <1>1, <1>5, <1>7

LEMMA IrqLastHome == HomeInv /\ Irq /\ UNCHANGED main_vars => LastHome'
<1> SUFFICES ASSUME HomeInv, Irq, UNCHANGED main_vars, block.job = "HOME", Pushed
             PROVE  LastHome'
  BY DEF LastHome, Pushed, main_vars
<1>b. block' = block /\ block \in Block
  BY DEF main_vars, HomeInv, MotionType
<1>t. MotionType /\ Homing
  BY DEF HomeInv
<1>1. CASE queue # <<>> /\ queue[Len(queue)] = block
  <2>1. CASE IrqFetch
    <3> DEFINE b == Head(queue)
    <3>1. /\ queue \in Seq(Block) /\ Len(queue) \in Nat /\ Len(queue) >= 1
      BY <1>1, <1>t DEF MotionType
    <3>2. CASE Len(queue) = 1
      <4>1. Tail(queue) = <<>> /\ b = block
        BY <1>1, <3>1, <3>2, TailOfOne
      <4>2. job' = b.job /\ steps' = b.to /\ queue' = Tail(queue) /\ (b.job = "HOME" => LoadHome(b))
        BY <2>1 DEF IrqFetch
      <4> HIDE DEF b
      <4> QED
        BY <1>b, <4>1, <4>2 DEF LastHome, LoadHome
    <3>3. CASE Len(queue) > 1
      <4> DEFINE q == Tail(queue)
      <4>1. q # <<>> /\ q[Len(q)] = queue[Len(queue)]
        BY <3>1, <3>3, TailOfMore
      <4>2. queue' = q
        BY <2>1 DEF IrqFetch
      <4> HIDE DEF q
      <4> QED
        BY <1>1, <1>b, <4>1, <4>2 DEF LastHome
    <3>4. Len(queue) = 1 \/ Len(queue) > 1
      <4> DEFINE n == Len(queue)
      <4>1. n \in Nat /\ n >= 1
        BY <3>1
      <4> HIDE DEF n
      <4>2. n = 1 \/ n > 1
        BY <4>1
      <4> QED
        BY <4>2 DEF n
    <3> QED
      BY <3>2, <3>3, <3>4
  <2>2. CASE ~IrqFetch
    <3>1. queue' = queue
      BY <2>2 DEF Irq, IrqStep, IrqSeek, IrqTurn, IrqLeave, IrqRest, GoesOn
    <3> QED
      BY <1>1, <1>b, <3>1 DEF LastHome
  <2> QED
    BY <2>1, <2>2
<1>2. CASE queue = <<>> /\ job = "HOME" /\ home_mask = block.axes /\ steps = block.to
  <2>1. CASE IrqSeek
    BY <1>2, <1>b, <2>1 DEF IrqSeek, GoesOn, LastHome
  <2>2. CASE IrqTurn
    <3>1. ASSUME NEW a \in home_mask PROVE HomeDir[a] # 0 /\ HomeIsActive(a)'
      <4>1. HomeDir[a] # 0 /\ (a \in axis_mask \/ HomeIsActive(a))
        BY <1>2, <1>t DEF Homing
      <4>2. HomeIsActive(a)
        BY <2>2, <4>1 DEF IrqTurn, Seeking
      <4> QED
        BY <2>2, <4>1, <4>2 DEF IrqTurn, HomeIsActive
    <3>2. Backing'
      BY <2>2, <3>1 DEF IrqTurn, Backing
    <3> QED
      BY <1>2, <1>b, <2>2, <3>2 DEF IrqTurn, GoesOn, LastHome
  <2> QED
    BY <1>2, <2>1, <2>2 DEF Irq, IrqStep, IrqLeave, IrqRest, IrqFetch, JobEnds, Moving
<1>3. CASE /\ queue = <<>> /\ job = "HOME_REF" /\ home_mask = block.axes /\ steps = block.to
           /\ Backing
  <2>1. CASE IrqLeave
    <3>1. Backing'
      BY <1>3, <1>t, <2>1, LeaveBacks
    <3> QED
      BY <1>3, <1>b, <2>1, <3>1 DEF IrqLeave, GoesOn, LastHome
  <2>2. CASE IrqRest
    <3>1. /\ Leaving = {} /\ UNCHANGED head_at
          /\ position' = [a \in Axes |-> IF a \in home_mask THEN steps[a] ELSE position[a]]
      BY <1>3, <2>2 DEF IrqRest, JobEnds, Moving
    <3>2. ASSUME NEW a \in block.axes PROVE OneOff(a)' /\ position'[a] = block.to[a]
      <4>1. a \in Axes /\ a \in home_mask
        BY <1>3, <1>t DEF MotionType
      <4>2. OneOff(a)
        BY <1>3, <3>1, <4>1 DEF Backing, Leaving
      <4> QED
        BY <1>3, <3>1, <4>1, <4>2 DEF OneOff
    <3>3. queue' = <<>> /\ job' = "IDLE"
      BY <1>3, <2>2 DEF IrqRest
    <3> QED
      BY <1>b, <3>2, <3>3 DEF LastHome
  <2> QED
    BY <1>3, <2>1, <2>2 DEF Irq, IrqStep, IrqSeek, IrqTurn, IrqFetch
<1>4. CASE /\ queue = <<>> /\ job = "IDLE"
           /\ \A a \in block.axes : OneOff(a) /\ position[a] = block.to[a]
  <2>1. IrqRest
    BY <1>4 DEF Irq, IrqStep, IrqSeek, IrqTurn, IrqLeave, IrqFetch
  <2>2. UNCHANGED <<position, head_at>> /\ queue' = <<>> /\ job' = "IDLE"
    BY <1>4, <2>1 DEF IrqRest, JobEnds, Moving
  <2> QED
    BY <1>4, <1>b, <2>2 DEF LastHome, OneOff
<1> QED
  BY <1>1, <1>2, <1>3, <1>4 DEF HomeInv, LastHome

LEMMA SameStepper ==
  ASSUME UNCHANGED <<motion, queue>>
  PROVE  Homing' = Homing /\ (Pushed /\ Pushed' /\ block' = block => LastHome' = LastHome)
BY DEF motion, Homing, Pushed, LastHome, Backing, HomeIsActive, OneOff

LEMMA CommandHome == HomeInv /\ Command => HomeInv'
<1> SUFFICES ASSUME HomeInv, Command PROVE HomeInv'
  OBVIOUS
<1>1. DarkInv'
  BY CommandDark DEF HomeInv
<1>2. /\ MotionType'
      /\ \/ UNCHANGED <<block, planned>> /\ pc' \in {"ready", "drain"}
         \/ pc' \in {"put", "push"}
  BY CommandTyped DEF HomeInv
<1>3. pc = "ready" /\ UNCHANGED <<motion, queue>>
  BY DEF Command, stepper_vars, Move, Spindle, Options, Line, Home, SetPosition, Wait,
         SinglePulse, Begin
<1>4. Homing'
  BY <1>3, SameStepper DEF HomeInv
<1>5. LastHome'
  <2>1. CASE pc' \in {"put", "push"}
    BY <2>1 DEF LastHome, Pushed
  <2>2. CASE block' = block /\ pc' \in {"ready", "drain"}
    BY <1>3, <2>2, SameStepper DEF HomeInv, Pushed
  <2> QED
    BY <1>2, <2>1, <2>2
<1> QED
  BY <1>1, <1>2, <1>4, <1>5 DEF HomeInv

LEMMA MainHome == HomeInv /\ Main => HomeInv'
<1> SUFFICES ASSUME HomeInv, Main PROVE HomeInv'
  OBVIOUS
<1>1. DarkInv' /\ MotionType'
  BY MainDark, MainTyped DEF HomeInv
<1>2. UNCHANGED <<motion, block>>
  BY DEF Main, Put, PutDone, Push, QueueSeenEmpty, JobSeenDone, ResetRaster, PulseCounts,
         PulsePin, PulseTimer, PulseDone, PulseHangs, stepper_vars
<1>3. CASE Push
  <2>1. queue \in Seq(Block) /\ block \in Block
    BY DEF HomeInv, MotionType
  <2>2. queue' = Append(queue, block)
    BY <1>3 DEF Push
  <2>3. queue' # <<>> /\ queue'[Len(queue')] = block
    BY <2>1, <2>2, AppendProperties
  <2>4. LastHome'
    BY <1>2, <2>3 DEF LastHome
  <2>5. Homing'
    BY <1>2 DEF motion, HomeInv, Homing, HomeIsActive
  <2> QED
    BY <1>1, <2>4, <2>5 DEF HomeInv
<1>4. CASE ~Push
  <2>1. UNCHANGED queue
    BY <1>4 DEF Main, Put, PutDone, QueueSeenEmpty, JobSeenDone, ResetRaster, PulseCounts,
         PulsePin, PulseTimer, PulseDone, PulseHangs, stepper_vars
  <2>2. Pushed' => Pushed
    BY <1>4 DEF Main, Put, PutDone, QueueSeenEmpty, JobSeenDone, ResetRaster, PulseCounts,
         PulsePin, PulseTimer, PulseDone, PulseHangs, Pushed
  <2>3. Homing' /\ (Pushed /\ Pushed' => LastHome')
    BY <1>2, <2>1, SameStepper DEF HomeInv
  <2>4. LastHome'
    BY <2>2, <2>3 DEF LastHome
  <2> QED
    BY <1>1, <2>3, <2>4 DEF HomeInv
<1> QED
  BY <1>3, <1>4

LEMMA NextHome == HomeInv /\ [Next]_vars => HomeInv'
<1> SUFFICES ASSUME HomeInv, [Next]_vars PROVE HomeInv'
  OBVIOUS
<1>d. DarkInv'
  BY NextDark DEF HomeInv
<1>1. CASE Command
  BY <1>1, CommandHome
<1>2. CASE Main
  BY <1>2, MainHome
<1>3. CASE Irq /\ UNCHANGED main_vars
  BY <1>d, <1>3, IrqTyped, IrqHoming, IrqLastHome DEF HomeInv
<1>4. CASE \/ Timer3 /\ UNCHANGED main_vars
           \/ UNCHANGED vars
  <2>1. UNCHANGED <<queue, motion, main_vars>>
    BY <1>4 DEF Timer3, vars, stepper_vars
  <2>2. MotionType'
    BY <2>1 DEF HomeInv, MotionType, motion, main_vars
  <2>3. Homing' /\ LastHome'
    BY <2>1, SameStepper DEF HomeInv, main_vars, Pushed, LastHome
  <2> QED
    BY <1>d, <2>2, <2>3 DEF HomeInv
<1> QED
  BY <1>1, <1>2, <1>3, <1>4 DEF Next, Interrupt

(* When G28 returns, every axis it named stands one step off its switch,   *)
(* and that place has the reference coordinate (gcode.c:524): for every    *)
(* machine with switches at any end, from wherever the head started, and   *)
(* whatever was queued before.                                             *)
THEOREM HomingCalibrates == Spec => []HomeIsCalibrated
<1>1. HomeInv => HomeIsCalibrated
  <2> SUFFICES ASSUME HomeInv, pc = "reset", block.job = "HOME", NEW a \in block.axes
               PROVE  head_at[a] = Switch[a] - HomeDir[a] /\ position[a] = block.to[a]
    BY DEF HomeIsCalibrated
  <2>1. queue = <<>> /\ job = "IDLE" /\ Pushed
    BY DEF HomeInv, DarkInv, Still, PastQueue, PastJob, Pushed
  <2>2. OneOff(a) /\ position[a] = block.to[a]
    BY <2>1 DEF HomeInv, LastHome
  <2> QED
    BY <2>2 DEF OneOff
<1> QED
  BY InitHome, NextHome, <1>1, PTL DEF Spec
-----------------------------------------------------------------------------
(* What the planner may queue: no axis is sent further than its counter    *)
(* counts, and no job is a single step long: such a job loses its step,    *)
(* because its counter starts at -(1 \div 2) = 0 (stepper.c:965, 998).     *)
Proper(b) ==
  b.job \in {"MOVE_TO", "LINE"} =>
    (\A a \in Axes : b.to[a] < W) /\ MaxStep(b.to) # 1

ProperJobs == Proper(block)

(* A move goes no further than the argument of abs holds (planner.c:43-45, *)
(* 91-93): the Z axis is longer than that.                                 *)
ShortMove == Move \/ Line => \A a \in Axes : WithinInt(planned'[a] - planned[a])

Sound(b) ==
  /\ Proper(b)
  /\ b.job \in {"MOVE_TO", "LINE"} => b.to \in [Axes -> Nat]

SoundJobs == Sound(block) /\ \A i \in 1 .. Len(queue) : Sound(queue[i])

(* The counters of the axes that move. *)
Counting ==
  Moving =>
    /\ steps_total \in Nat /\ steps_total < W
    /\ axis_mask # {} => steps_to_go \in Nat /\ steps_to_go >= 1
    /\ \A a \in axis_mask : /\ steps[a] \in 0 .. steps_total
                            /\ step_ctr[a] \in W - steps_total .. W - 1

(* The places the jobs lead to, from where the current one ends to where   *)
(* the planner is.                                                         *)
Chain ==
  \E path : /\ path[0] = JobLanding
            /\ path[Len(Unfinished)] = planned
            /\ \A i \in 1 .. Len(Unfinished) : path[i] = Landing(path[i - 1], Unfinished[i])

PlanInv == HomeInv /\ SoundJobs /\ Counting /\ Chain

LEMMA InitPlan == Init /\ ProperJobs => PlanInv
<1> SUFFICES ASSUME Init, ProperJobs PROVE PlanInv
  OBVIOUS
<1>1. HomeInv
  BY InitHome
<1>2. queue = <<>> /\ job = "IDLE" /\ Unfinished = <<>> /\ JobLanding = planned
  BY DEF Init, StepperInit, Unfinished, JobLanding, Moving, Zero
<1>3. Len(queue) = 0 /\ Len(Unfinished) = 0
  BY <1>2
<1>4. SoundJobs
  BY <1>3 DEF SoundJobs, Sound, ProperJobs, Init, Zero
<1>5. Counting
  BY <1>2 DEF Counting, Moving
<1>6. Chain
  <2> DEFINE path == [n \in Nat |-> planned]
  <2>1. path[0] = planned
    OBVIOUS
  <2> HIDE DEF path
  <2> QED
    BY <1>2, <1>3, <2>1 DEF Chain
<1> QED
  BY <1>1, <1>4, <1>5, <1>6 DEF PlanInv

LEMMA OneMore ==
  ASSUME NEW d \in Int, NEW p \in Int, NEW r \in Int
  PROVE  (p + d) + d * r = p + d * (r + 1)
<1> DEFINE m == d * r
<1>1. m \in Int /\ d * (r + 1) = m + d
  OBVIOUS
<1> HIDE DEF m
<1> QED
  BY <1>1 DEF m

LEMMA LandsMoving ==
  ASSUME Moving
  PROVE  JobLanding = [a \in Axes |-> position[a] + count_direction[a] * Remaining(a)]
<1> DEFINE f == [a \in Axes |-> position[a] + count_direction[a] * Remaining(a)]
           g == [a \in Axes |-> IF a \in home_mask THEN steps[a] ELSE position[a]]
<1>1. JobLanding = CASE Moving -> f [] job \in {"HOME", "HOME_REF"} -> g [] OTHER -> position
  BY DEF JobLanding
<1>2. ~(job \in {"HOME", "HOME_REF"})
  BY DEF Moving
<1> HIDE DEF f, g
<1>3. JobLanding = f
  BY <1>1, <1>2
<1> QED
  BY <1>3 DEF f

LEMMA LandsMovingNext ==
  (Moving => JobLanding = [a \in Axes |-> position[a] + count_direction[a] * Remaining(a)])'
<1>1. Moving => JobLanding = [a \in Axes |-> position[a] + count_direction[a] * Remaining(a)]
  BY LandsMoving
<1> QED
  BY <1>1, PTL

(* An interrupt of a move leaves it where it leads. *)
LEMMA MoveLands ==
  ASSUME MotionType, Counting, Moving, axis_mask # {}, Stepped(Due), NEW a \in Axes,
         step_ctr' = CtrAfterStep
  PROVE  position[a] + count_direction[a] * Remaining(a)
           = position'[a] + count_direction[a] *
               IF a \in axis_mask THEN Rest(step_ctr'[a], steps[a], steps_to_go - 1, steps_total)
               ELSE 0
<1>1. position[a] \in Int /\ count_direction[a] \in Int
  BY DEF MotionType, Place
<1>2. position'[a] = IF a \in Due THEN position[a] + count_direction[a] ELSE position[a]
  BY DEF Stepped
<1>3. CASE a \notin axis_mask
  BY <1>1, <1>2, <1>3 DEF Due, Remaining
<1>4. CASE a \in axis_mask
  <2> DEFINE c == step_ctr[a]
             s == steps[a]
             g == steps_to_go
             t == steps_total
             r == Rest(Advance(c, s, t), s, g - 1, t)
  <2>1. /\ t \in Nat /\ t < W /\ s \in 0 .. t /\ c \in W - t .. W - 1 /\ g \in Nat /\ g >= 1
    BY <1>4 DEF Counting
  <2>2. Remaining(a) = Rest(c, s, g, t)
    BY <1>4 DEF Remaining, Rest
  <2>3. step_ctr'[a] = Advance(c, s, t)
    BY <1>4 DEF CtrAfterStep
  <2>4. a \in Due <=> Carry(c, s)
    BY <1>4 DEF Due
  <2> HIDE DEF c, s, g, t
  <2>5. /\ Rest(c, s, g, t) \in Int
        /\ Rest(c, s, g, t) = r + IF Carry(c, s) THEN 1 ELSE 0
    BY <2>1, RestSteps
  <2>6. r \in Int
    <3>1. Advance(c, s, t) \in W - t .. W - 1 /\ t > 0
      BY <2>1, CounterSteps
    <3>2. (g - 1) * s \in Int
      BY <2>1
    <3>3. W \in Nat
      BY WidthAssumption
    <3> DEFINE e == Advance(c, s, t)
               k == (g - 1) * s
    <3>4. e \in Int /\ k \in Int
      BY <2>1, <3>1, <3>2, <3>3
    <3>5. r = (e - W + t + k) \div t
      BY DEF Rest
    <3> HIDE DEF e, k
    <3> QED
      BY <2>1, <3>1, <3>3, <3>4, <3>5
  <2> HIDE DEF r
  <2>7. position[a] + count_direction[a] * Remaining(a)
          = position'[a] + count_direction[a] * r
    <3>1. CASE Carry(c, s)
      <4>1. Remaining(a) = r + 1 /\ position'[a] = position[a] + count_direction[a]
        BY <1>2, <2>2, <2>4, <2>5, <3>1
      <4>2. (position[a] + count_direction[a]) + count_direction[a] * r
              = position[a] + count_direction[a] * (r + 1)
        BY <1>1, <2>6, OneMore
      <4> QED
        BY <4>1, <4>2
    <3>2. CASE ~Carry(c, s)
      BY <1>1, <1>2, <2>2, <2>4, <2>5, <2>6, <3>2
    <3> QED
      BY <3>1, <3>2
  <2>8. r = Rest(step_ctr'[a], steps[a], steps_to_go - 1, steps_total)
    BY <2>3 DEF r, c, s, g, t
  <2> QED
    BY <1>4, <2>7, <2>8
<1> QED
  BY <1>3, <1>4

(* The end of a job leaves the position where the job leads. *)
LEMMA EndLands ==
  ASSUME MotionType, Counting, JobEnds
  PROVE  position' = JobLanding
<1>0. /\ position \in Place /\ \A a \in Axes : position[a] \in Int /\ count_direction[a] \in Int
  BY DEF MotionType, Place
<1>1. CASE job = "IDLE" /\ UNCHANGED <<position, head_at>>
  BY <1>1 DEF JobLanding, Moving
<1>2. CASE /\ job = "HOME_REF" /\ Leaving = {}
           /\ position' = [a \in Axes |-> IF a \in home_mask THEN steps[a] ELSE position[a]]
           /\ UNCHANGED head_at
  BY <1>2 DEF JobLanding, Moving
<1>3. CASE Moving /\ LastStep /\ Stepped(Due)
  <2>1. JobLanding = [a \in Axes |-> position[a] + count_direction[a] * Remaining(a)]
    BY <1>3, LandsMoving
  <2>2. position' = [a \in Axes |-> position'[a]]
    BY <1>3 DEF Stepped
  <2>3. ASSUME NEW a \in Axes
        PROVE  position'[a] = position[a] + count_direction[a] * Remaining(a)
    <3>1. position'[a] = IF a \in Due THEN position[a] + count_direction[a] ELSE position[a]
      BY <1>3 DEF Stepped
    <3>2. CASE a \notin axis_mask
      BY <1>0, <3>1, <3>2 DEF Due, Remaining
    <3>3. CASE a \in axis_mask
      <4> DEFINE c == step_ctr[a]
                 s == steps[a]
                 t == steps_total
      <4>1. steps_to_go = 1
        BY <1>3, <3>3 DEF LastStep
      <4>2. t \in Nat /\ t < W /\ s \in 0 .. t /\ c \in W - t .. W - 1
        BY <1>3, <3>3 DEF Counting
      <4>3. Remaining(a) = Rest(c, s, 1, t)
        BY <3>3, <4>1 DEF Remaining, Rest
      <4>4. a \in Due <=> Carry(c, s)
        BY <3>3 DEF Due
      <4> HIDE DEF c, s, t
      <4>5. Rest(c, s, 1, t) = Rest(Advance(c, s, t), s, 1 - 1, t)
                                 + IF Carry(c, s) THEN 1 ELSE 0
        BY <4>2, RestSteps
      <4>6. Rest(Advance(c, s, t), s, 0, t) = 0
        <5>1. Advance(c, s, t) \in W - t .. W - 1
          BY <4>2, CounterSteps
        <5> QED
          BY <4>2, <5>1, RestEnds
      <4>7. Remaining(a) = IF a \in Due THEN 1 ELSE 0
        BY <4>3, <4>4, <4>5, <4>6
      <4> QED
        BY <1>0, <3>1, <4>7
    <3> QED
      BY <3>2, <3>3
  <2> QED
    BY <2>1, <2>2, <2>3
<1> QED
  BY <1>1, <1>2, <1>3 DEF JobEnds

(* An interrupt within a job changes nothing of where it leads. *)
LEMMA OnTheWay ==
  ASSUME MotionType, Homing, Counting, IrqStep \/ IrqSeek \/ IrqTurn \/ IrqLeave
  PROVE  JobLanding' = JobLanding
<1>1. CASE IrqStep
  <2>1. /\ Moving /\ Moving' /\ Stepped(Due) /\ step_ctr' = CtrAfterStep /\ axis_mask # {}
        /\ steps_to_go' = steps_to_go - 1
        /\ UNCHANGED <<job, axis_mask, count_direction, steps, steps_total>>
    BY <1>1 DEF IrqStep, Moving, LastStep
  <2>2. /\ JobLanding = [a \in Axes |-> position[a] + count_direction[a] * Remaining(a)]
        /\ JobLanding' = [a \in Axes |-> position'[a] + count_direction'[a] * Remaining(a)']
    BY <2>1, LandsMoving, LandsMovingNext
  <2>3. ASSUME NEW a \in Axes
        PROVE  position'[a] + count_direction'[a] * Remaining(a)'
                 = position[a] + count_direction[a] * Remaining(a)
    <3>1. Remaining(a)' = IF a \in axis_mask
                          THEN Rest(step_ctr'[a], steps[a], steps_to_go - 1, steps_total) ELSE 0
      BY <2>1 DEF Remaining, Rest
    <3> QED
      BY <2>1, <3>1, MoveLands
  <2> QED
    BY <2>2, <2>3
<1>2. CASE IrqSeek \/ IrqTurn \/ IrqLeave
  <2>1. /\ job \in {"HOME", "HOME_REF"} /\ job' \in {"HOME", "HOME_REF"}
        /\ UNCHANGED <<home_mask, steps>>
    BY <1>2 DEF IrqSeek, IrqTurn, IrqLeave
  <2>2. \A a \in Axes : a \notin home_mask => position'[a] = position[a]
    BY <1>2, <2>1 DEF IrqSeek, IrqTurn, IrqLeave, Stepped, Seeking, Leaving, Homing
  <2> QED
    BY <2>1, <2>2 DEF JobLanding, Moving
<1> QED
  BY <1>1, <1>2

(* A job that is fetched leads where the planner took it to lead. *)
LEMMA LoadedMove ==
  ASSUME MotionType, NEW b \in Block, b.job \in {"MOVE_TO", "LINE"}, Sound(b), LoadMove(b),
         steps' = b.to, job' = b.job, position' \in Place
  PROVE  /\ Counting'
         /\ JobLanding' = [a \in Axes |-> position'[a] + b.direction[a] * b.to[a]]
<1> DEFINE total == MaxStep(b.to)
<1>1. /\ b.to \in [Axes -> Nat] /\ \A a \in Axes : b.to[a] < W
      /\ total # 1
  BY DEF Sound, Proper
<1>2. /\ total \in Nat /\ total < W
      /\ \A a \in Axes : b.to[a] <= total
  BY <1>1, LongestAxis
<1>3. /\ axis_mask' = {a \in Axes : b.to[a] # 0}
      /\ count_direction' = b.direction
      /\ steps_total' = total /\ steps_to_go' = total
      /\ step_ctr' = [a \in Axes |-> Wrap(-(total \div 2))]
  BY DEF LoadMove
<1> HIDE DEF total
<1>4. \A a \in axis_mask' : total >= 2 /\ b.to[a] \in 0 .. total
  BY <1>1, <1>2, <1>3
<1>5. ASSUME NEW a \in axis_mask'
      PROVE  /\ step_ctr'[a] \in W - total .. W - 1
             /\ Rest(step_ctr'[a], b.to[a], total, total) = b.to[a]
  <2>1. step_ctr'[a] = Wrap(-(total \div 2))
    BY <1>3
  <2> QED
    BY <1>2, <1>4, <1>5, <2>1, RestStarts
<1>6. Counting'
  <2>1. axis_mask' # {} => total >= 2
    BY <1>4
  <2> QED
    BY <1>2, <1>3, <1>4, <1>5, <2>1 DEF Counting
<1>7. ASSUME NEW a \in Axes PROVE Remaining(a)' = b.to[a]
  <2>1. Remaining(a)' = IF a \in axis_mask' THEN Rest(step_ctr'[a], b.to[a], total, total) ELSE 0
    BY <1>3 DEF Remaining, Rest
  <2> QED
    BY <1>3, <1>5, <2>1
<1>8. Moving'
  BY DEF Moving
<1>9. JobLanding' = [a \in Axes |-> position'[a] + count_direction'[a] * Remaining(a)']
  BY <1>8, LandsMovingNext
<1> QED
  BY <1>3, <1>6, <1>7, <1>9

LEMMA FetchLands ==
  ASSUME MotionType, SoundJobs, Counting, IrqFetch
  PROVE  /\ Counting'
         /\ JobLanding' = Landing(JobLanding, Head(queue))
<1> DEFINE b == Head(queue)
<1>1. /\ b \in Block /\ Sound(b) /\ queue # <<>>
  <2>1. queue \in Seq(Block) /\ queue # <<>>
    BY DEF MotionType, IrqFetch
  <2>2. Len(queue) \in Nat \ {0} /\ b = queue[1] /\ b \in Block
    BY <2>1, EmptySeq, HeadTailProperties
  <2>3. 1 \in 1 .. Len(queue)
    BY <2>2
  <2> QED
    BY <2>1, <2>2, <2>3 DEF SoundJobs
<1>2. position' = JobLanding /\ position' \in Place
  BY EndLands, JobEndsTyped DEF IrqFetch
<1>3. /\ job' = b.job /\ steps' = b.to
      /\ IF b.job \in {"MOVE_TO", "LINE"} THEN LoadMove(b) ELSE LoadHome(b)
  BY DEF IrqFetch
<1>4. b.job \in Kinds
  BY <1>1 DEF Block
<1> HIDE DEF b
<1>5. CASE b.job \in {"MOVE_TO", "LINE"}
  <2>1. /\ Counting'
        /\ JobLanding' = [a \in Axes |-> position'[a] + b.direction[a] * b.to[a]]
    BY <1>1, <1>2, <1>3, <1>5, LoadedMove
  <2>2. Landing(JobLanding, b) = [a \in Axes |-> JobLanding[a] + b.direction[a] * b.to[a]]
    BY <1>5 DEF Landing
  <2> QED
    BY <1>2, <2>1, <2>2 DEF b
<1>6. CASE b.job \in {"HOME", "HOME_REF"}
  <2>1. Counting'
    BY <1>3, <1>6 DEF Counting, Moving
  <2>2. home_mask' = b.axes
    BY <1>3, <1>6 DEF LoadHome
  <2>3. JobLanding' = [a \in Axes |-> IF a \in b.axes THEN b.to[a] ELSE position'[a]]
    BY <1>3, <1>6, <2>2 DEF JobLanding, Moving
  <2>4. Landing(JobLanding, b) = [a \in Axes |-> IF a \in b.axes THEN b.to[a] ELSE JobLanding[a]]
    BY <1>6 DEF Landing
  <2> QED
    BY <1>2, <2>1, <2>3, <2>4 DEF b
<1> QED
  BY <1>4, <1>5, <1>6 DEF Kinds

LEMMA TailOfUnfinished ==
  ASSUME NEW S, NEW q \in Seq(S), q # <<>>, NEW e \in S
  PROVE  /\ Tail(Append(q, e)) = Append(Tail(q), e)
         /\ Head(Append(q, e)) = Head(q)
<1> DEFINE l == Append(q, e)
<1>1. /\ l \in Seq(S) /\ l # <<>> /\ Len(l) = Len(q) + 1
      /\ \A i \in 1 .. Len(q) : l[i] = q[i]
      /\ l[Len(q) + 1] = e
  BY AppendProperties
<1>2. Len(q) \in Nat \ {0}
  BY EmptySeq
<1>3. /\ Tail(l) \in Seq(S) /\ Len(Tail(l)) = Len(l) - 1
      /\ \A i \in 1 .. Len(Tail(l)) : Tail(l)[i] = l[i + 1]
  BY <1>1, HeadTailProperties
<1> DEFINE t == Tail(q)
           r == Append(t, e)
<1>4. /\ t \in Seq(S) /\ Len(t) = Len(q) - 1
      /\ \A i \in 1 .. Len(t) : t[i] = q[i + 1]
  BY HeadTailProperties
<1>5. /\ r \in Seq(S) /\ Len(r) = Len(t) + 1
      /\ \A i \in 1 .. Len(t) : r[i] = t[i]
      /\ r[Len(t) + 1] = e
  BY <1>4, AppendProperties
<1>6. Head(l) = Head(q)
  <2>1. 1 \in 1 .. Len(q) /\ Head(q) = q[1]
    BY <1>2
  <2>2. Head(l) = l[1]
    BY <1>1
  <2> QED
    BY <1>1, <2>1, <2>2
<1> DEFINE u == Tail(l)
           n == Len(q)
<1>7. /\ u \in Seq(S) /\ Len(u) = n
      /\ \A i \in 1 .. n : u[i] = l[i + 1]
  BY <1>1, <1>2, <1>3
<1> HIDE DEF l, t, r, u, n
<1>8. Len(r) = n
  BY <1>2, <1>4, <1>5 DEF n
<1>9. ASSUME NEW i \in 1 .. n PROVE u[i] = r[i]
  <2>1. CASE i = n
    BY <1>1, <1>2, <1>4, <1>5, <1>7, <2>1 DEF n
  <2>2. CASE i < n
    <3>1. i \in 1 .. Len(t) /\ i + 1 \in 1 .. n
      BY <1>2, <1>4, <2>2 DEF n
    <3>2. u[i] = q[i + 1] /\ r[i] = q[i + 1]
      BY <1>1, <1>4, <1>5, <1>7, <3>1 DEF n
    <3> QED
      BY <3>2
  <2> QED
    BY <1>2, <2>1, <2>2 DEF n
<1>10. u = r
  BY <1>5, <1>7, <1>8, <1>9, SeqEqual
<1> QED
  BY <1>6, <1>10 DEF u, r, l, t

LEMMA UnfinishedTyped ==
  MotionType => Unfinished \in Seq(Block) /\ Len(Unfinished) \in Nat
<1> SUFFICES ASSUME MotionType PROVE Unfinished \in Seq(Block)
  BY LenProperties
<1> QED
  BY AppendProperties DEF MotionType, Unfinished

LEMMA ChainKept ==
  ASSUME Chain, JobLanding' = JobLanding, Unfinished' = Unfinished, planned' = planned
  PROVE  Chain'
BY DEF Chain

(* The first job of a chain begins where the current one ends. *)
LEMMA ChainShortens ==
  ASSUME Chain, MotionType, Unfinished # <<>>, Unfinished' = Tail(Unfinished),
         JobLanding' = Landing(JobLanding, Head(Unfinished)), planned' = planned
  PROVE  Chain'
<1> DEFINE U == Unfinished
           V == Tail(U)
           L == Len(U)
           from == JobLanding
           Land(p, b) == Landing(p, b)
<1>1. U \in Seq(Block) /\ U # <<>> /\ L \in Nat \ {0}
  BY UnfinishedTyped, EmptySeq
<1>2. V \in Seq(Block) /\ Len(V) = L - 1 /\ Head(U) = U[1]
      /\ \A i \in 1 .. L - 1 : V[i] = U[i + 1]
  BY <1>1, HeadTailProperties
<1>3. PICK path : /\ path[0] = from
                  /\ path[L] = planned
                  /\ \A i \in 1 .. L : path[i] = Land(path[i - 1], U[i])
  BY DEF Chain
<1>n. Unfinished' = V /\ JobLanding' = Land(from, U[1])
  BY <1>2
<1> HIDE DEF U, V, L, from, Land
<1> DEFINE rest == [n \in Nat |-> path[n + 1]]
<1>4. rest[0] = Land(from, U[1])
  <2>1. 1 \in 1 .. L /\ 1 - 1 = 0
    BY <1>1
  <2>2. rest[0] = path[1]
    OBVIOUS
  <2> HIDE DEF rest
  <2> QED
    BY <1>3, <2>1, <2>2
<1>5. rest[L - 1] = planned
  BY <1>1, <1>3
<1>6. ASSUME NEW i \in 1 .. L - 1 PROVE rest[i] = Land(rest[i - 1], V[i])
  <2>1. i \in Nat /\ i - 1 \in Nat /\ i + 1 \in 1 .. L /\ (i + 1) - 1 = i /\ (i - 1) + 1 = i
    BY <1>1
  <2>2. rest[i] = path[i + 1] /\ rest[i - 1] = path[i]
    BY <2>1
  <2>3. path[i + 1] = Land(path[i], U[i + 1])
    BY <1>3, <2>1
  <2> QED
    BY <1>2, <2>2, <2>3
<1>7. \A i \in 1 .. L - 1 : rest[i] = Landing(rest[i - 1], V[i])
  BY <1>6 DEF Land
<1> HIDE DEF rest
<1>8. Len(Unfinished') = L - 1 /\ rest[0] = JobLanding'
  BY <1>2, <1>4, <1>n
<1>9. /\ rest[0] = JobLanding'
      /\ rest[Len(Unfinished')] = planned'
      /\ \A i \in 1 .. Len(Unfinished') : rest[i] = Landing(rest[i - 1], Unfinished'[i])
  BY <1>5, <1>7, <1>8, <1>n
<1> QED
  BY <1>9 DEF Chain

(* A job is added that leads from where the planner was to where it is now. *)
LEMMA ChainGrows ==
  ASSUME Chain, Unfinished \in Seq(Block), NEW b, b \in Block,
         Unfinished' = Append(Unfinished, b), JobLanding' = JobLanding,
         planned' = Landing(planned, b)
  PROVE  Chain'
<1> DEFINE U == Unfinished
           V == Append(U, b)
           L == Len(U)
           from == JobLanding
           end == planned
           Land(p, c) == Landing(p, c)
<1>1. L \in Nat
  BY LenProperties
<1>2. Len(V) = L + 1 /\ V[L + 1] = b /\ \A i \in 1 .. L : V[i] = U[i]
  BY AppendProperties
<1>3. PICK path : /\ path[0] = from
                  /\ path[L] = end
                  /\ \A i \in 1 .. L : path[i] = Land(path[i - 1], U[i])
  BY DEF Chain
<1>n. Unfinished' = V /\ planned' = Land(end, b)
  OBVIOUS
<1> HIDE DEF U, V, L, from, end, Land
<1> DEFINE more == [n \in Nat |-> IF n <= L THEN path[n] ELSE Land(end, b)]
<1>4. /\ more[L + 1] = Land(end, b)
      /\ \A n \in 0 .. L : more[n] = path[n]
  BY <1>1
<1> HIDE DEF more
<1>5. ASSUME NEW i \in 1 .. L + 1 PROVE more[i] = Land(more[i - 1], V[i])
  <2>1. CASE i \in 1 .. L
    <3>1. i \in 0 .. L /\ i - 1 \in 0 .. L
      BY <1>1, <2>1
    <3> QED
      BY <1>2, <1>3, <1>4, <2>1, <3>1
  <2>2. CASE i = L + 1
    <3>1. i - 1 = L /\ L \in 0 .. L
      BY <1>1, <2>2
    <3> QED
      BY <1>2, <1>3, <1>4, <2>2, <3>1
  <2> QED
    BY <1>1, <2>1, <2>2
<1>6. more[0] = from
  BY <1>1, <1>3, <1>4
<1>7. /\ more[0] = JobLanding'
      /\ more[Len(Unfinished')] = planned'
      /\ \A i \in 1 .. Len(Unfinished') : more[i] = Landing(more[i - 1], Unfinished'[i])
  BY <1>2, <1>4, <1>5, <1>6, <1>n DEF from, Land
<1> QED
  BY <1>7 DEF Chain

LEMMA IrqPlan == PlanInv /\ Irq /\ UNCHANGED main_vars => SoundJobs' /\ Counting' /\ Chain'
<1> SUFFICES ASSUME PlanInv, Irq, UNCHANGED main_vars PROVE SoundJobs' /\ Counting' /\ Chain'
  OBVIOUS
<1>t. MotionType /\ Homing /\ SoundJobs /\ Counting /\ Chain
  BY DEF PlanInv, HomeInv
<1>m. UNCHANGED <<pc, block, planned>>
  BY DEF main_vars
<1>q. queue \in Seq(Block) /\ block \in Block
  BY <1>t DEF MotionType
<1>1. CASE IrqStep \/ IrqSeek \/ IrqTurn \/ IrqLeave \/ IrqRest
  <2>1. queue' = queue /\ Unfinished' = Unfinished
    BY <1>m, <1>1 DEF IrqStep, IrqSeek, IrqTurn, IrqLeave, IrqRest, GoesOn, Unfinished
  <2>2. SoundJobs'
    BY <1>m, <1>t, <2>1 DEF SoundJobs
  <2>3. JobLanding' = JobLanding
    <3>1. CASE IrqRest
      <4>1. position' = JobLanding /\ job' = "IDLE"
        BY <1>t, <3>1, EndLands DEF IrqRest
      <4> QED
        BY <4>1 DEF JobLanding, Moving
    <3> QED
      BY <1>t, <1>1, <3>1, OnTheWay
  <2>4. Chain'
    BY <1>m, <1>t, <2>1, <2>3, ChainKept
  <2>5. Counting'
    <3>1. CASE IrqStep
      <4>1. /\ Moving /\ axis_mask # {} /\ steps_to_go # 1 /\ steps_to_go' = steps_to_go - 1
            /\ step_ctr' = CtrAfterStep /\ UNCHANGED <<job, axis_mask, steps, steps_total>>
        BY <3>1 DEF IrqStep, Moving, LastStep
      <4>2. steps_to_go' \in Nat /\ steps_to_go' >= 1
        BY <1>t, <4>1 DEF Counting
      <4>3. ASSUME NEW a \in axis_mask
            PROVE  step_ctr'[a] \in W - steps_total .. W - 1
        <5>1. /\ steps_total \in Nat /\ steps_total < W
              /\ steps[a] \in 0 .. steps_total /\ step_ctr[a] \in W - steps_total .. W - 1
          BY <1>t, <4>1 DEF Counting
        <5>2. a \in Axes
          BY <1>t DEF MotionType
        <5>3. step_ctr'[a] = Advance(step_ctr[a], steps[a], steps_total)
          BY <4>1, <5>2 DEF CtrAfterStep
        <5> QED
          BY <5>1, <5>3, CounterSteps
      <4> QED
        BY <1>t, <4>1, <4>2, <4>3 DEF Counting
    <3>2. CASE IrqSeek \/ IrqTurn \/ IrqLeave \/ IrqRest
      BY <3>2 DEF IrqSeek, IrqTurn, IrqLeave, IrqRest, Counting, Moving
    <3> QED
      BY <1>1, <3>1, <3>2
  <2> QED
    BY <2>2, <2>4, <2>5
<1>2. CASE IrqFetch
  <2>1. /\ Counting'
        /\ JobLanding' = Landing(JobLanding, Head(queue))
    BY <1>t, <1>2, FetchLands
  <2>2. queue # <<>> /\ queue' = Tail(queue)
    BY <1>2 DEF IrqFetch
  <2>3. /\ Unfinished # <<>> /\ Unfinished' = Tail(Unfinished)
        /\ Head(Unfinished) = Head(queue)
    <3>1. CASE pc \in {"put", "push"}
      <4>1. Unfinished = Append(queue, block) /\ Unfinished' = Append(Tail(queue), block)
        BY <1>m, <2>2, <3>1 DEF Unfinished
      <4> QED
        BY <1>q, <2>2, <4>1, TailOfUnfinished, AppendProperties
    <3>2. CASE pc \notin {"put", "push"}
      BY <1>m, <2>2, <3>2 DEF Unfinished
    <3> QED
      BY <3>1, <3>2
  <2>4. Chain'
    BY <1>m, <1>t, <2>1, <2>3, ChainShortens
  <2>5. SoundJobs'
    <3>1. /\ Len(queue') = Len(queue) - 1 /\ Len(queue) \in Nat
          /\ \A i \in 1 .. Len(queue') : queue'[i] = queue[i + 1]
      BY <1>q, <2>2, HeadTailProperties, LenProperties
    <3>2. ASSUME NEW i \in 1 .. Len(queue') PROVE Sound(queue'[i])
      <4>1. i + 1 \in 1 .. Len(queue)
        BY <3>1
      <4> QED
        BY <1>t, <3>1, <4>1 DEF SoundJobs
    <3> QED
      BY <1>m, <1>t, <3>2 DEF SoundJobs
  <2> QED
    BY <2>1, <2>4, <2>5
<1> QED
  BY <1>1, <1>2 DEF Irq

(* The distance planner_move and planner_line count from leads from where  *)
(* the planner was to the target, if an int holds it.                      *)
LEMMA FilledLands ==
  ASSUME planned \in Place, NEW target \in Place, NEW opts, NEW kind \in {"MOVE_TO", "LINE"},
         \A a \in Axes : WithinInt(target[a] - planned[a])
  PROVE  /\ Filled(kind, target, opts).to \in [Axes -> Nat]
         /\ Landing(planned, Filled(kind, target, opts)) = target
<1> DEFINE b == Filled(kind, target, opts)
<1>1. b.job = kind /\ b.to = Apart(target) /\ b.direction = Direction(target)
  BY DEF Filled
<1> HIDE DEF b
<1>2. \A a \in Axes : planned[a] \in Int /\ target[a] \in Int
  BY DEF Place
<1>3. b.to \in [Axes -> Nat]
  <2>1. \A a \in Axes : abs(target[a] - planned[a]) \in Nat
    BY <1>2, AbsNatural
  <2> QED
    BY <1>1, <2>1 DEF Apart
<1>4. Landing(planned, b) = [a \in Axes |-> planned[a] + b.direction[a] * b.to[a]]
  BY <1>1 DEF Landing
<1>5. ASSUME NEW a \in Axes PROVE planned[a] + b.direction[a] * b.to[a] = target[a]
  <2> DEFINE n == target[a] - planned[a]
  <2>n. n \in Int /\ abs(n) = IF n >= 0 THEN n ELSE -n
    BY <1>2, AbsFits
  <2>b. b.to[a] = abs(n)
    BY <1>1 DEF Apart
  <2>1. CASE planned[a] > target[a]
    <3>1. b.direction[a] = -1 /\ b.to[a] = planned[a] - target[a]
      BY <1>1, <1>2, <2>1, <2>b, <2>n DEF Direction
    <3> QED
      BY <1>2, <3>1
  <2>2. CASE ~(planned[a] > target[a])
    <3>1. b.direction[a] = 1 /\ b.to[a] = target[a] - planned[a]
      BY <1>1, <1>2, <2>2, <2>b, <2>n DEF Direction
    <3> QED
      BY <1>2, <3>1
  <2> QED
    BY <2>1, <2>2
<1> QED
  BY <1>3, <1>4, <1>5 DEF b, Place

LEMMA ReferenceLands ==
  ASSUME planned \in Place, block \in Block, NEW target \in Place, NEW axes,
         NEW kind \in {"HOME", "HOME_REF"}, NEW then, Reference(kind, axes, target, then),
         \A a \in Axes : a \notin axes => target[a] = planned[a]
  PROVE  /\ block'.job = kind
         /\ planned' = Landing(planned, block')
<1>1. /\ block' = [block EXCEPT !.job = kind, !.to = target, !.axes = axes, !.line = sent']
      /\ planned' = target
  BY DEF Reference
<1>2. block'.job = kind /\ block'.to = target /\ block'.axes = axes
  BY <1>1 DEF Block
<1>3. Landing(planned, block')
        = [a \in Axes |-> IF a \in axes THEN target[a] ELSE planned[a]]
  BY <1>2 DEF Landing
<1> QED
  BY <1>1, <1>2, <1>3 DEF Place

LEMMA CommandPlan ==
  ASSUME PlanInv, Command, ProperJobs', ShortMove
  PROVE  SoundJobs' /\ Counting' /\ Chain'
<1>t. MotionType /\ SoundJobs /\ Counting /\ Chain /\ MotionType'
  BY CommandTyped DEF PlanInv, HomeInv
<1>p. /\ planned \in Place /\ block \in Block /\ block' \in Block /\ queue \in Seq(Block)
      /\ host \in Hosts
  BY <1>t DEF MotionType
<1>h. /\ Targets \subseteq Place
  BY HostAssumption DEF Place
<1>s. pc = "ready" /\ UNCHANGED <<motion, queue>>
  BY DEF Command, stepper_vars, Move, Spindle, Options, Line, Home, SetPosition, Wait,
         SinglePulse, Begin
<1>1. Counting' /\ JobLanding' = JobLanding
  BY <1>s, <1>t DEF motion, Counting, Moving, JobLanding, Remaining
<1>2. Unfinished = queue
  BY <1>s DEF Unfinished
<1>3. \/ UNCHANGED <<block, planned>> /\ pc' \in {"ready", "drain"}
      \/ /\ pc' \in {"put", "push"} /\ Sound(block')
         /\ planned' = Landing(planned, block')
  <2>m. ASSUME NEW target \in Place, QueueMove(target),
               \A a \in Axes : WithinInt(target[a] - planned[a])
        PROVE  /\ pc' \in {"put", "push"} /\ Sound(block')
               /\ planned' = Landing(planned, block')
    <3>1. /\ block' = Filled("MOVE_TO", target, NoLaser) /\ planned' = target /\ pc' = "push"
      BY <2>m DEF QueueMove
    <3>2. block'.to \in [Axes -> Nat] /\ Landing(planned, block') = target
      BY <1>p, <2>m, <3>1, FilledLands
    <3> QED
      BY <3>1, <3>2 DEF Sound, ProperJobs
  <2>1. CASE Move
    <3>1. PICK target \in Targets : QueueMove(target)
      BY <2>1 DEF Move
    <3>2. \A a \in Axes : WithinInt(target[a] - planned[a])
      BY <2>1, <3>1 DEF ShortMove, QueueMove
    <3> QED
      BY <1>h, <2>m, <3>1, <3>2
  <2>2. CASE Spindle
    <3>1. QueueMove(planned)
      BY <2>2 DEF Spindle
    <3>2. \A a \in Axes : planned[a] - planned[a] = 0
      BY <1>p DEF Place
    <3>3. \A a \in Axes : WithinInt(planned[a] - planned[a])
      BY <3>2, IntAssumption DEF WithinInt
    <3> QED
      BY <1>p, <2>m, <3>1, <3>3
  <2>3. CASE Options \/ Wait \/ SinglePulse
    BY <2>3 DEF Options, Wait, SinglePulse, Begin
  <2>4. CASE Line
    <3>1. PICK target \in Targets, opts \in host.options :
             block' = Filled("LINE", target, opts) /\ planned' = target
      BY <2>4 DEF Line
    <3>s. \A a \in Axes : WithinInt(target[a] - planned[a])
      BY <2>4, <3>1 DEF ShortMove
    <3>2. block'.to \in [Axes -> Nat] /\ Landing(planned, block') = target
      BY <1>h, <1>p, <3>1, <3>s, FilledLands
    <3>3. pc' = "put"
      BY <2>4 DEF Line
    <3> QED
      BY <3>1, <3>2, <3>3 DEF Sound, ProperJobs
  <2>5. CASE Home
    <3>1. PICK axes \in HomeSets \ {{}}, at \in Targets :
            Reference("HOME", axes, [a \in Axes |-> IF a \in axes THEN at[a] ELSE planned[a]],
                      "drain")
      BY <2>5 DEF Home
    <3> DEFINE target == [a \in Axes |-> IF a \in axes THEN at[a] ELSE planned[a]]
    <3>2. target \in Place /\ \A a \in Axes : a \notin axes => target[a] = planned[a]
      BY <1>h, <1>p DEF Place
    <3>3. block'.job = "HOME" /\ planned' = Landing(planned, block')
      BY <1>p, <3>1, <3>2, ReferenceLands
    <3>4. pc' = "push"
      BY <3>1 DEF Reference
    <3> QED
      BY <3>3, <3>4 DEF Sound, ProperJobs
  <2>6. CASE SetPosition
    <3>1. PICK target \in Targets : Reference("HOME_REF", Axes, target, "ready")
      BY <2>6 DEF SetPosition
    <3>2. block'.job = "HOME_REF" /\ planned' = Landing(planned, block')
      BY <1>h, <1>p, <3>1, ReferenceLands
    <3>3. pc' = "push"
      BY <3>1 DEF Reference
    <3> QED
      BY <3>2, <3>3 DEF Sound, ProperJobs
  <2> QED
    BY <2>1, <2>2, <2>3, <2>4, <2>5, <2>6 DEF Command
<1>4. CASE UNCHANGED <<block, planned>> /\ pc' \in {"ready", "drain"}
  <2>1. Unfinished' = Unfinished
    BY <1>s, <1>2, <1>4 DEF Unfinished
  <2>2. SoundJobs'
    BY <1>s, <1>t, <1>4 DEF SoundJobs
  <2>3. Chain'
    BY <1>t, <1>1, <1>4, <2>1, ChainKept
  <2> QED
    BY <1>1, <2>2, <2>3
<1>5. CASE /\ pc' \in {"put", "push"} /\ Sound(block')
           /\ planned' = Landing(planned, block')
  <2>1. Unfinished' = Append(Unfinished, block')
    BY <1>s, <1>2, <1>5 DEF Unfinished
  <2>2. SoundJobs'
    BY <1>s, <1>t, <1>5 DEF SoundJobs
  <2>3. Unfinished \in Seq(Block)
    BY <1>p, <1>2
  <2>4. Chain'
    BY <1>p, <1>t, <1>1, <1>5, <2>1, <2>3, ChainGrows
  <2> QED
    BY <1>1, <2>2, <2>4
<1> QED
  BY <1>3, <1>4, <1>5

LEMMA MainPlan ==
  ASSUME PlanInv, Main
  PROVE  SoundJobs' /\ Counting' /\ Chain'
<1>t. MotionType /\ SoundJobs /\ Counting /\ Chain /\ Still
  BY DEF PlanInv, HomeInv, DarkInv
<1>p. block \in Block /\ queue \in Seq(Block)
  BY <1>t DEF MotionType
<1>1. UNCHANGED <<motion, block, planned>>
  BY DEF Main, Put, PutDone, Push, QueueSeenEmpty, JobSeenDone, ResetRaster, PulseCounts,
         PulsePin, PulseTimer, PulseDone, PulseHangs, stepper_vars
<1>2. Counting' /\ JobLanding' = JobLanding
  BY <1>t, <1>1 DEF motion, Counting, Moving, JobLanding, Remaining
<1>3. CASE Push
  <2>1. queue' = Append(queue, block) /\ pc = "push" /\ pc' \in {"ready", "drain"}
    BY <1>t, <1>3 DEF Push, Still
  <2>2. Unfinished' = Unfinished
    BY <1>1, <2>1 DEF Unfinished
  <2>3. SoundJobs'
    <3>1. /\ Len(queue') = Len(queue) + 1 /\ Len(queue) \in Nat
          /\ \A i \in 1 .. Len(queue) : queue'[i] = queue[i]
          /\ queue'[Len(queue) + 1] = block
      BY <1>p, <2>1, AppendProperties, LenProperties
    <3>2. \A i \in 1 .. Len(queue') : i \in 1 .. Len(queue) \/ i = Len(queue) + 1
      BY <3>1
    <3> QED
      BY <1>t, <1>1, <3>1, <3>2 DEF SoundJobs
  <2> QED
    BY <1>t, <1>1, <1>2, <2>2, <2>3, ChainKept
<1>4. CASE ~Push
  <2>1. /\ UNCHANGED queue
        /\ pc' \in {"put", "push"} <=> pc \in {"put", "push"}
    BY <1>4 DEF Main, Put, PutDone, QueueSeenEmpty, JobSeenDone, ResetRaster, PulseCounts,
         PulsePin, PulseTimer, PulseDone, PulseHangs, stepper_vars
  <2>2. Unfinished' = Unfinished
    BY <1>1, <2>1 DEF Unfinished
  <2>3. SoundJobs'
    BY <1>t, <1>1, <2>1 DEF SoundJobs
  <2> QED
    BY <1>t, <1>1, <1>2, <2>2, <2>3, ChainKept
<1> QED
  BY <1>3, <1>4

LEMMA NextPlan == PlanInv /\ ProperJobs' /\ [Next]_vars /\ [ShortMove]_vars => PlanInv'
<1> SUFFICES ASSUME PlanInv, ProperJobs', [Next]_vars, [ShortMove]_vars PROVE PlanInv'
  OBVIOUS
<1>h. HomeInv'
  BY NextHome DEF PlanInv
<1>1. CASE Command
  <2>1. sent' = sent + 1 /\ sent \in Nat
    BY <1>1 DEF Command, Move, Spindle, Options, Line, Home, SetPosition, Wait, SinglePulse, Begin,
         PlanInv, HomeInv, MotionType
  <2>2. sent' # sent
    BY <2>1
  <2>3. ShortMove
    BY <2>2 DEF vars, main_vars
  <2> QED
    BY <1>h, <1>1, <2>3, CommandPlan DEF PlanInv
<1>2. CASE Main
  BY <1>h, <1>2, MainPlan DEF PlanInv
<1>3. CASE Irq /\ UNCHANGED main_vars
  BY <1>h, <1>3, IrqPlan DEF PlanInv
<1>4. CASE \/ Timer3 /\ UNCHANGED main_vars
           \/ UNCHANGED vars
  <2>1. UNCHANGED <<queue, motion, main_vars>>
    BY <1>4 DEF Timer3, vars, stepper_vars
  <2>2. Counting' /\ JobLanding' = JobLanding /\ Unfinished' = Unfinished /\ planned' = planned
    BY <2>1 DEF motion, main_vars, Counting, Moving, JobLanding, Remaining, Unfinished, PlanInv
  <2>3. SoundJobs'
    BY <2>1 DEF SoundJobs, PlanInv, main_vars
  <2>4. Chain'
    BY <2>2, ChainKept DEF PlanInv
  <2> QED
    BY <1>h, <2>2, <2>3, <2>4 DEF PlanInv
<1> QED
  BY <1>1, <1>2, <1>3, <1>4 DEF Next, Interrupt

LEMMA PlanAgrees == PlanInv => PlannerAgrees /\ DrainedIsStill
<1> SUFFICES ASSUME PlanInv PROVE PlannerAgrees /\ DrainedIsStill
  OBVIOUS
<1>1. MotionType /\ Still /\ Chain
  BY DEF PlanInv, HomeInv, DarkInv
<1>2. PICK path : /\ path[0] = JobLanding
                  /\ path[Len(Unfinished)] = planned
                  /\ \A i \in 1 .. Len(Unfinished) : path[i] = Landing(path[i - 1], Unfinished[i])
  BY <1>1 DEF Chain
<1>3. Leads(JobLanding, Unfinished) = path[Len(Unfinished)]
  BY <1>1, <1>2, UnfinishedTyped, PathLeads
<1>4. PlannerAgrees
  BY <1>2, <1>3 DEF PlannerAgrees
<1>5. ASSUME Drained PROVE queue = <<>> /\ job = "IDLE" /\ position = planned
  <2>1. queue = <<>> /\ job = "IDLE" /\ pc \notin {"put", "push"}
    BY <1>1, <1>5 DEF Drained, Still, PastQueue, PastJob
  <2>2. Len(Unfinished) = 0 /\ JobLanding = position
    BY <2>1 DEF Unfinished, JobLanding, Moving
  <2> QED
    BY <1>2, <2>1, <2>2
<1> QED
  BY <1>4, <1>5 DEF DrainedIsStill, DrainedIsIdle

(* The planner and the stepper agree (planner.c:71, 140, 206): for any     *)
(* number of axes, every counter width and queue size, as long as no       *)
(* command moves the machine by a single step, or an axis further than a   *)
(* counter or the int of its distance holds.                               *)
THEOREM PlannerKeepsUp == Spec /\ []ProperJobs /\ [][ShortMove]_vars => []PlannerAgrees
BY InitPlan, NextPlan, PlanAgrees, PTL DEF Spec

(* When stepper_drain_buffer returns, the machine stands where the planner *)
(* sent it (stepper.c:1081), under the same two hypotheses.                *)
THEOREM DrainingArrives == Spec /\ []ProperJobs /\ [][ShortMove]_vars => []DrainedIsStill
BY InitPlan, NextPlan, PlanAgrees, PTL DEF Spec

(* Targets no two of which are one step, or more than a counter or an int  *)
(* holds, apart on an axis.                                                *)
Coordinate(a) == {t[a] : t \in Targets} \cup {0}
Spaced ==
  \A a \in Axes : \A u, v \in Coordinate(a) : u - v # 1 /\ u - v < W /\ 2 * (u - v) < IntRange

OnGrid == \A a \in Axes : planned[a] \in Coordinate(a)

LEMMA SpacedShort ==
  ASSUME Spaced, NEW a \in Axes, NEW u \in Coordinate(a), NEW v \in Coordinate(a)
  PROVE  /\ u \in Int /\ v \in Int
         /\ WithinInt(u - v)
         /\ abs(u - v) \in Nat /\ abs(u - v) < W /\ abs(u - v) # 1
<1>1. u \in Int /\ v \in Int /\ IntRange \in Nat
  BY HostAssumption, IntAssumption DEF Coordinate
<1>2. /\ u - v # 1 /\ u - v < W /\ 2 * (u - v) < IntRange
      /\ v - u # 1 /\ v - u < W /\ 2 * (v - u) < IntRange
  BY DEF Spaced
<1>3. WithinInt(u - v)
  BY <1>1, <1>2 DEF WithinInt
<1>4. abs(u - v) = IF u - v >= 0 THEN u - v ELSE -(u - v)
  BY <1>1, <1>3, AbsFits
<1>5. WithinInt(u - v) /\ abs(u - v) \in Nat /\ abs(u - v) < W /\ abs(u - v) # 1
  BY <1>1, <1>2, <1>3, <1>4, WidthAssumption
<1> QED
  BY <1>1, <1>5

LEMMA FilledProper ==
  ASSUME Spaced, OnGrid, NEW target, \A a \in Axes : target[a] \in Coordinate(a),
         NEW opts, NEW kind
  PROVE  Proper(Filled(kind, target, opts))
<1> DEFINE b == Filled(kind, target, opts)
<1>1. b.to = Apart(target)
  BY DEF Filled
<1>2. \A a \in Axes : Coordinate(a) \subseteq Int
  BY HostAssumption DEF Coordinate
<1>3. \A a \in Axes : planned[a] \in Int /\ target[a] \in Int
  BY <1>2 DEF OnGrid
<1>4. \A a \in Axes : b.to[a] \in Nat /\ b.to[a] < W /\ b.to[a] # 1
  BY <1>1, SpacedShort DEF Apart, OnGrid
<1>5. b.to \in [Axes -> Nat]
  BY <1>1, <1>4 DEF Apart
<1> HIDE DEF b
<1>6. PICK a \in Axes : b.to[a] = MaxStep(b.to)
  BY <1>4, <1>5, LongestAxis
<1>7. MaxStep(b.to) # 1
  BY <1>4, <1>6
<1> QED
  BY <1>4, <1>7 DEF Proper, b

LEMMA InitProper == Init /\ Spaced => OnGrid /\ ProperJobs
<1> SUFFICES ASSUME Init, Spaced PROVE OnGrid /\ ProperJobs
  OBVIOUS
<1>1. OnGrid /\ block.to = Zero
  BY DEF Init, OnGrid, Zero, Coordinate
<1>2. Zero \in [Axes -> Nat] /\ \A a \in Axes : Zero[a] = 0 /\ Zero[a] < W
  BY WidthAssumption DEF Zero
<1>3. PICK a \in Axes : Zero[a] = MaxStep(Zero)
  BY <1>2, LongestAxis
<1> QED
  BY <1>1, <1>2, <1>3 DEF ProperJobs, Proper

LEMMA GridShort == Spaced /\ OnGrid => ShortMove
<1> SUFFICES ASSUME Spaced, OnGrid, Move \/ Line, NEW a \in Axes
             PROVE  WithinInt(planned'[a] - planned[a])
  BY DEF ShortMove
<1>1. planned' \in Targets
  BY DEF Move, Line, QueueMove
<1>2. planned'[a] \in Coordinate(a) /\ planned[a] \in Coordinate(a)
  BY <1>1 DEF OnGrid, Coordinate
<1> QED
  BY <1>2, SpacedShort

LEMMA NextProper ==
  Spaced /\ HomeInv /\ OnGrid /\ ProperJobs /\ [Next]_vars => OnGrid' /\ ProperJobs'
<1> SUFFICES ASSUME Spaced, HomeInv, OnGrid, ProperJobs, [Next]_vars PROVE OnGrid' /\ ProperJobs'
  OBVIOUS
<1>1. \A t \in Targets : \A a \in Axes : t[a] \in Coordinate(a)
  BY DEF Coordinate
<1>m. ASSUME NEW target, \A a \in Axes : target[a] \in Coordinate(a), QueueMove(target)
      PROVE  OnGrid' /\ ProperJobs'
  <2>1. block' = Filled("MOVE_TO", target, NoLaser) /\ planned' = target
    BY <1>m DEF QueueMove
  <2>2. Proper(Filled("MOVE_TO", target, NoLaser))
    BY <1>m, FilledProper
  <2> QED
    BY <1>m, <2>1, <2>2 DEF OnGrid, ProperJobs
<1>2. CASE Command
  <2>1. CASE Move
    BY <1>1, <1>m, <2>1 DEF Move
  <2>2. CASE Spindle
    BY <1>m, <2>2 DEF Spindle, OnGrid
  <2>3. CASE Options \/ Wait \/ SinglePulse
    BY <2>3 DEF Options, Wait, SinglePulse, OnGrid, ProperJobs
  <2>4. CASE Line
    <3>1. PICK target \in Targets, opts \in host.options :
             block' = Filled("LINE", target, opts) /\ planned' = target
      BY <2>4 DEF Line
    <3>2. Proper(Filled("LINE", target, opts))
      BY <1>1, FilledProper
    <3> QED
      BY <1>1, <3>1, <3>2 DEF OnGrid, ProperJobs
  <2>5. ASSUME NEW kind \in {"HOME", "HOME_REF"}, NEW axes, NEW then, NEW target,
               \A a \in Axes : target[a] \in Coordinate(a), Reference(kind, axes, target, then)
        PROVE  OnGrid' /\ ProperJobs'
    <3>1. /\ block' = [block EXCEPT !.job = kind, !.to = target, !.axes = axes, !.line = sent']
          /\ planned' = target
      BY <2>5 DEF Reference
    <3>2. block'.job # "MOVE_TO" /\ block'.job # "LINE"
      BY <3>1 DEF HomeInv, MotionType, Block
    <3> QED
      BY <2>5, <3>1, <3>2 DEF OnGrid, ProperJobs, Proper
  <2>6. CASE Home
    <3>1. PICK axes \in HomeSets \ {{}}, at \in Targets :
            Reference("HOME", axes, [a \in Axes |-> IF a \in axes THEN at[a] ELSE planned[a]],
                      "drain")
      BY <2>6 DEF Home
    <3> DEFINE target == [a \in Axes |-> IF a \in axes THEN at[a] ELSE planned[a]]
    <3>2. \A a \in Axes : target[a] \in Coordinate(a)
      BY <1>1 DEF OnGrid
    <3> HIDE DEF target
    <3> QED
      BY <2>5, <3>1, <3>2 DEF target
  <2>7. CASE SetPosition
    BY <1>1, <2>5, <2>7 DEF SetPosition
  <2> QED
    BY <1>2, <2>1, <2>2, <2>3, <2>4, <2>6, <2>7 DEF Command
<1>3. CASE ~Command
  <2>1. UNCHANGED <<block, planned>>
    BY <1>3 DEF Next, Main, Put, PutDone, Push, QueueSeenEmpty, JobSeenDone, ResetRaster,
         PulseCounts, PulsePin, PulseTimer, PulseDone, PulseHangs, Interrupt, vars, main_vars
  <2> QED
    BY <2>1 DEF OnGrid, ProperJobs
<1> QED
  BY <1>2, <1>3

(* With such targets no command ever moves the machine by a single step or *)
(* too far: the hypotheses of the two theorems above hold of every         *)
(* behaviour.                                                              *)
THEOREM SpacedIsProper == Spaced => (Spec => []ProperJobs /\ [][ShortMove]_vars)
<1> SUFFICES ASSUME Spaced PROVE Spec => []ProperJobs /\ [][ShortMove]_vars
  OBVIOUS
<1>1. Init => OnGrid /\ ProperJobs
  BY InitProper
<1>2. HomeInv /\ OnGrid /\ ProperJobs /\ [Next]_vars => OnGrid' /\ ProperJobs'
  BY NextProper
<1>3. OnGrid => ShortMove
  BY GridShort
<1> QED
  BY <1>1, <1>2, <1>3, InitHome, NextHome, PTL DEF Spec
-----------------------------------------------------------------------------
(* Raster lines.  The bytes in LASER_RASTERDATA and those main still puts  *)
(* are first the ones the current line still takes, then those of each     *)
(* queued line, in order.                                                  *)

(* The bytes a job takes. *)
Owed(b) == IF b.job = "LINE" /\ "MODULATE" \in b.mode THEN b.pulses ELSE 0

Byte == [value : Pixels, line : Nat]

(* A division of the bytes: p for the line n, then those of each job. *)
Cuts(cut, p, n, jobs, data) ==
  /\ cut \in [0 .. Len(jobs) -> Nat]
  /\ cut[0] = p /\ cut[Len(jobs)] = Len(data)
  /\ \A i, j \in 0 .. Len(jobs) : i <= j => cut[i] <= cut[j]
  /\ \A i \in 1 .. Len(jobs) : Owed(jobs[i]) = cut[i] - cut[i - 1]
  /\ \A k \in 1 .. p : data[k].line = n
  /\ \A i \in 1 .. Len(jobs) :
       \A k \in cut[i - 1] + 1 .. cut[i] : data[k].line = jobs[i].line
Divided(p, n, jobs, data) == \E cut : Cuts(cut, p, n, jobs, data)

LEMMA DividedBounds ==
  ASSUME NEW p, NEW n, NEW S, NEW jobs \in Seq(S), NEW data \in Seq(Byte),
         NEW cut, Cuts(cut, p, n, jobs, data)
  PROVE  /\ p \in Nat /\ Len(jobs) \in Nat /\ Len(data) \in Nat
         /\ \A i \in 0 .. Len(jobs) : cut[i] \in Nat /\ p <= cut[i] /\ cut[i] <= Len(data)
<1>1. Len(jobs) \in Nat /\ Len(data) \in Nat
  BY LenProperties
<1>2. 0 \in 0 .. Len(jobs) /\ Len(jobs) \in 0 .. Len(jobs)
  BY <1>1
<1> QED
  BY <1>1, <1>2 DEF Cuts

(* The current line takes a byte: it is its own. *)
LEMMA NextPlace ==
  ASSUME NEW a \in Nat, NEW b \in Nat, NEW l \in Nat, a >= 1, b - 1 <= l,
         NEW k \in (a - 1) + 1 .. b - 1
  PROVE  k + 1 \in a + 1 .. b /\ k \in 1 .. l
OBVIOUS

LEMMA DividedTakes ==
  ASSUME NEW p, p > 0, NEW n, NEW S, NEW jobs \in Seq(S), NEW data \in Seq(Byte),
         Divided(p, n, jobs, data)
  PROVE  /\ data # <<>> /\ Head(data).line = n
         /\ Divided(p - 1, n, jobs, Tail(data))
<1> DEFINE L == Len(jobs)
           rest == Tail(data)
<1>1. PICK cut : Cuts(cut, p, n, jobs, data)
  BY DEF Divided
<1>2. /\ p \in Nat /\ L \in Nat /\ Len(data) \in Nat
      /\ \A i \in 0 .. L : cut[i] \in Nat /\ p <= cut[i] /\ cut[i] <= Len(data)
  BY <1>1, DividedBounds
<1>3. Len(data) >= 1
  BY <1>1, <1>2 DEF Cuts
<1>4. data # <<>>
  BY <1>3, EmptySeq
<1>5. /\ rest \in Seq(Byte) /\ Len(rest) = Len(data) - 1
      /\ \A k \in 1 .. Len(rest) : rest[k] = data[k + 1]
      /\ Head(data) = data[1]
  BY <1>4, HeadTailProperties
<1>6. Head(data).line = n
  BY <1>1, <1>2, <1>5 DEF Cuts
<1> DEFINE less == [i \in 0 .. L |-> cut[i] - 1]
<1>7. Cuts(less, p - 1, n, jobs, rest)
  <2> HIDE DEF rest
  <2>1. less \in [0 .. L -> Nat]
    BY <1>2
  <2>2. less[0] = p - 1 /\ less[L] = Len(rest)
    BY <1>1, <1>2, <1>5 DEF Cuts
  <2>3. \A i, j \in 0 .. L : i <= j => less[i] <= less[j]
    BY <1>1, <1>2 DEF Cuts
  <2>4. ASSUME NEW i \in 1 .. L PROVE Owed(jobs[i]) = less[i] - less[i - 1]
    <3>1. Owed(jobs[i]) = cut[i] - cut[i - 1] /\ i \in 0 .. L /\ i - 1 \in 0 .. L
      BY <1>1, <1>2 DEF Cuts
    <3>2. cut[i] \in Nat /\ cut[i - 1] \in Nat
      BY <1>2, <3>1
    <3>3. less[i] = cut[i] - 1 /\ less[i - 1] = cut[i - 1] - 1
      BY <3>1
    <3> QED
      BY <3>1, <3>2, <3>3
  <2>5. ASSUME NEW k \in 1 .. p - 1 PROVE rest[k].line = n
    <3>1. k \in 1 .. Len(rest) /\ k + 1 \in 1 .. p
      BY <1>1, <1>2, <1>5 DEF Cuts
    <3> QED
      BY <1>1, <1>5, <3>1 DEF Cuts
  <2>6. ASSUME NEW i \in 1 .. L, NEW k \in less[i - 1] + 1 .. less[i]
        PROVE  rest[k].line = jobs[i].line
    <3>1. i \in 0 .. L /\ i - 1 \in 0 .. L
      BY <1>2
    <3>2. less[i] = cut[i] - 1 /\ less[i - 1] = cut[i - 1] - 1
      BY <3>1
    <3> HIDE DEF less
    <3>3. /\ cut[i] \in Nat /\ cut[i - 1] \in Nat /\ cut[i - 1] >= 1
          /\ cut[i] - 1 <= Len(rest) /\ Len(rest) \in Nat
      BY <1>2, <1>3, <1>5, <3>1
    <3>a. k \in (cut[i - 1] - 1) + 1 .. cut[i] - 1
      BY <3>2
    <3>4. k + 1 \in cut[i - 1] + 1 .. cut[i] /\ k \in 1 .. Len(rest)
      BY <3>3, <3>a, NextPlace
    <3> QED
      BY <1>1, <1>5, <3>4 DEF Cuts
  <2> HIDE DEF less
  <2> QED
    BY <2>1, <2>2, <2>3, <2>4, <2>5, <2>6 DEF Cuts
<1> QED
  BY <1>4, <1>6, <1>7 DEF Divided

(* The current line has all its bytes: the next job's turn. *)
LEMMA DividedShifts ==
  ASSUME NEW n, NEW S, NEW jobs \in Seq(S), jobs # <<>>, NEW data \in Seq(Byte),
         Divided(0, n, jobs, data)
  PROVE  Divided(Owed(Head(jobs)), Head(jobs).line, Tail(jobs), data)
<1> DEFINE L == Len(jobs)
           V == Tail(jobs)
           b == Head(jobs)
<1>1. PICK cut : Cuts(cut, 0, n, jobs, data)
  BY DEF Divided
<1>2. /\ L \in Nat \ {0} /\ Len(data) \in Nat
      /\ \A i \in 0 .. L : cut[i] \in Nat
  BY <1>1, DividedBounds, EmptySeq
<1>3. V \in Seq(S) /\ Len(V) = L - 1 /\ b = jobs[1]
      /\ \A i \in 1 .. L - 1 : V[i] = jobs[i + 1]
  BY <1>2, HeadTailProperties
<1> HIDE DEF V, L, b
<1> DEFINE rest == [i \in 0 .. L - 1 |-> cut[i + 1]]
<1>c. /\ cut[0] = 0 /\ cut[L] = Len(data)
      /\ \A i, j \in 0 .. L : i <= j => cut[i] <= cut[j]
      /\ \A i \in 1 .. L : Owed(jobs[i]) = cut[i] - cut[i - 1]
      /\ \A i \in 1 .. L : \A k \in cut[i - 1] + 1 .. cut[i] : data[k].line = jobs[i].line
  BY <1>1 DEF Cuts, L
<1>4. ASSUME NEW i \in 0 .. L - 1
      PROVE  rest[i] = cut[i + 1] /\ i + 1 \in 0 .. L /\ rest[i] \in Nat
  BY <1>2
<1>5. rest \in [0 .. L - 1 -> Nat]
  BY <1>4
<1>6. Owed(b) = cut[1] /\ cut[1] \in Nat /\ rest[0] = cut[1] /\ rest[L - 1] = cut[L]
  <2>1. 1 \in 1 .. L /\ 1 - 1 = 0 /\ 1 \in 0 .. L /\ 0 \in 0 .. L - 1 /\ L - 1 \in 0 .. L - 1
        /\ (L - 1) + 1 = L /\ 0 + 1 = 1
    BY <1>2
  <2>2. Owed(jobs[1]) = cut[1] - cut[0]
    BY <1>c, <2>1
  <2>3. cut[1] \in Nat
    BY <1>2, <2>1
  <2> QED
    BY <1>3, <1>4, <1>c, <2>1, <2>2, <2>3
<1> HIDE DEF rest
<1>7. \A i, j \in 0 .. L - 1 : i <= j => rest[i] <= rest[j]
  BY <1>2, <1>4, <1>c
<1>8. ASSUME NEW i \in 1 .. L - 1
      PROVE  /\ rest[i] = cut[i + 1] /\ rest[i - 1] = cut[i] /\ V[i] = jobs[i + 1]
             /\ i + 1 \in 1 .. L /\ (i + 1) - 1 = i
  <2>1. i \in 0 .. L - 1 /\ i - 1 \in 0 .. L - 1 /\ (i - 1) + 1 = i /\ i + 1 \in 1 .. L
        /\ (i + 1) - 1 = i
    BY <1>2
  <2> QED
    BY <1>3, <1>4, <2>1
<1>9. ASSUME NEW i \in 1 .. L - 1
      PROVE  /\ Owed(V[i]) = rest[i] - rest[i - 1]
             /\ \A k \in rest[i - 1] + 1 .. rest[i] : data[k].line = V[i].line
  <2>1. /\ Owed(jobs[i + 1]) = cut[i + 1] - cut[(i + 1) - 1]
        /\ \A k \in cut[(i + 1) - 1] + 1 .. cut[i + 1] : data[k].line = jobs[i + 1].line
    BY <1>c, <1>8
  <2> QED
    BY <1>8, <2>1
<1>10. \A k \in 1 .. cut[1] : data[k].line = b.line
  <2>1. 1 \in 1 .. L /\ 1 - 1 = 0
    BY <1>2
  <2>2. \A k \in cut[1 - 1] + 1 .. cut[1] : data[k].line = jobs[1].line
    BY <1>c, <2>1
  <2> QED
    BY <1>3, <1>6, <1>c, <2>1, <2>2
<1>11. Len(V) = L - 1 /\ cut[L] = Len(data)
  BY <1>3, <1>c
<1>12. Cuts(rest, Owed(b), b.line, V, data)
  BY <1>5, <1>6, <1>7, <1>9, <1>10, <1>11 DEF Cuts
<1> QED
  BY <1>12 DEF Divided, V, b

(* A job is added, and the bytes it takes. *)
LEMMA DividedGrows ==
  ASSUME NEW p, NEW n, NEW S, NEW jobs \in Seq(S), NEW data \in Seq(Byte), NEW b \in S,
         NEW more \in Seq(Byte), Len(more) = Owed(b),
         \A k \in 1 .. Len(more) : more[k].line = b.line,
         Divided(p, n, jobs, data)
  PROVE  Divided(p, n, Append(jobs, b), data \o more)
<1> DEFINE L == Len(jobs)
           V == Append(jobs, b)
           N == Len(data)
           M == Len(more)
           all == data \o more
<1>1. PICK cut : Cuts(cut, p, n, jobs, data)
  BY DEF Divided
<1>2. /\ L \in Nat /\ N \in Nat /\ M \in Nat /\ p \in Nat
      /\ \A i \in 0 .. L : cut[i] \in Nat /\ p <= cut[i] /\ cut[i] <= N
  BY <1>1, DividedBounds, LenProperties
<1>3. Len(V) = L + 1 /\ V[L + 1] = b /\ \A i \in 1 .. L : V[i] = jobs[i]
  BY AppendProperties
<1>4. /\ Len(all) = N + M
      /\ \A k \in 1 .. N : all[k] = data[k]
      /\ \A k \in N + 1 .. N + M : all[k] = more[k - N]
  BY <1>2, ConcatProperties
<1>m. M = Owed(b) /\ \A k \in 1 .. M : more[k].line = b.line
  OBVIOUS
<1>c. /\ cut[0] = p /\ cut[L] = N
      /\ \A i, j \in 0 .. L : i <= j => cut[i] <= cut[j]
      /\ \A i \in 1 .. L : Owed(jobs[i]) = cut[i] - cut[i - 1]
      /\ \A k \in 1 .. p : data[k].line = n
      /\ \A i \in 1 .. L : \A k \in cut[i - 1] + 1 .. cut[i] : data[k].line = jobs[i].line
  BY <1>1 DEF Cuts
<1> HIDE DEF L, V, N, M, all
<1> DEFINE ext == [i \in 0 .. L + 1 |-> IF i <= L THEN cut[i] ELSE N + M]
<1>5. ext \in [0 .. L + 1 -> Nat]
  BY <1>2
<1>6. /\ \A i \in 0 .. L : ext[i] = cut[i]
      /\ ext[L + 1] = N + M
  BY <1>2
<1> HIDE DEF ext
<1>7. ext[0] = p /\ ext[L + 1] = Len(all)
  BY <1>2, <1>4, <1>6, <1>c
<1>8. \A i, j \in 0 .. L + 1 : i <= j => ext[i] <= ext[j]
  <2> SUFFICES ASSUME NEW i \in 0 .. L + 1, NEW j \in 0 .. L + 1, i <= j
               PROVE  ext[i] <= ext[j]
    OBVIOUS
  <2>1. CASE j <= L
    BY <1>2, <1>6, <1>c, <2>1
  <2>2. CASE j = L + 1 /\ i <= L
    <3>0. L \in Nat
      BY <1>2
    <3>1. i \in 0 .. L
      BY <2>2, <3>0
    <3>2. ext[i] = cut[i] /\ cut[i] \in Nat /\ cut[i] <= N
      BY <1>2, <1>6, <3>1
    <3> QED
      BY <1>2, <1>6, <2>2, <3>2
  <2>3. CASE j = L + 1 /\ i = L + 1
    BY <1>2, <1>6, <2>3
  <2> QED
    BY <1>2, <2>1, <2>2, <2>3
<1>9. ASSUME NEW i \in 1 .. L + 1
      PROVE  /\ Owed(V[i]) = ext[i] - ext[i - 1]
             /\ \A k \in ext[i - 1] + 1 .. ext[i] : all[k].line = V[i].line
  <2>1. CASE i \in 1 .. L
    <3>1. i \in 0 .. L /\ i - 1 \in 0 .. L
      BY <1>2, <2>1
    <3>2. ext[i] = cut[i] /\ ext[i - 1] = cut[i - 1] /\ V[i] = jobs[i]
      BY <1>3, <1>6, <2>1, <3>1
    <3>3. \A k \in cut[i - 1] + 1 .. cut[i] : k \in 1 .. N
      BY <1>2, <3>1
    <3>4. /\ Owed(jobs[i]) = cut[i] - cut[i - 1]
          /\ \A k \in cut[i - 1] + 1 .. cut[i] : data[k].line = jobs[i].line
      BY <1>c, <2>1
    <3>5. \A k \in cut[i - 1] + 1 .. cut[i] : all[k].line = jobs[i].line
      BY <1>4, <3>3, <3>4
    <3> QED
      BY <3>2, <3>4, <3>5
  <2>2. CASE i = L + 1
    <3>0. L \in Nat
      BY <1>2
    <3>1. i - 1 = L /\ L \in 0 .. L
      BY <2>2, <3>0
    <3>2. ext[i] = N + M /\ ext[i - 1] = N /\ V[i] = b
      BY <1>3, <1>6, <1>c, <2>2, <3>1
    <3>3. ASSUME NEW k \in N + 1 .. N + M PROVE all[k].line = b.line
      <4>1. k - N \in 1 .. M
        BY <1>2
      <4> QED
        BY <1>4, <1>m, <4>1
    <3>4. (N + M) - N = Owed(b)
      BY <1>2, <1>m
    <3> QED
      BY <3>2, <3>3, <3>4
  <2> QED
    BY <1>2, <2>1, <2>2
<1>10. \A k \in 1 .. p : all[k].line = n
  <2>1. 0 \in 0 .. L
    BY <1>2
  <2>2. p <= N
    BY <1>2, <2>1
  <2>3. \A k \in 1 .. p : k \in 1 .. N
    BY <1>2, <2>2
  <2> QED
    BY <1>4, <1>c, <2>3
<1>11. Cuts(ext, p, n, V, all)
  BY <1>3, <1>5, <1>7, <1>8, <1>9, <1>10 DEF Cuts
<1> QED
  BY <1>11 DEF Divided, V, all

(* A running line's bytes are before those of the last job. *)
LEMMA DividedFront ==
  ASSUME NEW p, NEW n, NEW S, NEW jobs \in Seq(S), NEW b \in S, NEW data \in Seq(Byte),
         Divided(p, n, Append(jobs, b), data)
  PROVE  Owed(b) \in Nat /\ p + Owed(b) <= Len(data)
<1> DEFINE L == Len(jobs)
           V == Append(jobs, b)
<1>1. PICK cut : Cuts(cut, p, n, V, data)
  BY DEF Divided
<1>2. V \in Seq(S) /\ Len(V) = L + 1 /\ V[L + 1] = b /\ L \in Nat
  BY AppendProperties, LenProperties
<1>3. /\ Len(data) \in Nat /\ p \in Nat
      /\ \A i \in 0 .. L + 1 : cut[i] \in Nat /\ p <= cut[i] /\ cut[i] <= Len(data)
  BY <1>1, <1>2, DividedBounds
<1> HIDE DEF V, L
<1>4. /\ L \in 0 .. L + 1 /\ L + 1 \in 0 .. L + 1 /\ L + 1 \in 1 .. L + 1 /\ (L + 1) - 1 = L
      /\ L <= L + 1
  BY <1>2
<1>5. Owed(b) = cut[L + 1] - cut[L] /\ cut[L + 1] = Len(data) /\ cut[L] <= cut[L + 1]
  BY <1>1, <1>2, <1>4 DEF Cuts
<1> QED
  BY <1>3, <1>4, <1>5

LEMMA DividedEmpty ==
  ASSUME NEW n, NEW data \in Seq(Byte), Divided(0, n, <<>>, data)
  PROVE  data = <<>>
<1>1. PICK cut : Cuts(cut, 0, n, <<>>, data)
  BY DEF Divided
<1>2. Len(data) = 0
  BY <1>1 DEF Cuts
<1> QED
  BY <1>2, EmptySeq

(* The bytes the current line still takes. *)
Pending ==
  IF Moving /\ "MODULATE" \in laser.mode /\ axis_mask # {}
  THEN Rest(laser.ctr, laser.steps, steps_to_go, steps_total) ELSE 0

(* The laser's own counter runs within its range, and pixels are due only  *)
(* in a line that asked for them.                                          *)
Rastering ==
  /\ job = "IDLE" => laser.mode = OFF
  /\ "MODULATE" \in laser.mode =>
       /\ job = "LINE" /\ laser_mask
       /\ axis_mask # {} => /\ laser.steps \in 0 .. steps_total
                            /\ laser.ctr \in W - steps_total .. W - 1
       /\ axis_mask = {} => laser.steps = 0 /\ laser.ctr \in 0 .. W - 1

Fitting(b) == b.job = "LINE" /\ "MODULATE" \in b.mode => b.pulses <= MaxStep(b.to)
FittingJobs == Fitting(block) /\ \A i \in 1 .. Len(queue) : Fitting(queue[i])

Filling ==
  /\ raster \in Seq(Byte) /\ bytes \in Seq(Byte)
  /\ pc = "put" => Len(bytes) <= Owed(block)
  /\ pc # "put" => bytes = <<>>

Sharing == Divided(Pending, line, Unfinished, raster \o bytes)

PixelInv == PlanInv /\ Rastering /\ FittingJobs /\ Filling /\ Sharing /\ OwnPixels

Gone == IF PixelDue THEN 1 ELSE 0

LEMMA RestNat ==
  ASSUME NEW t \in Nat, t < W, NEW s \in 0 .. t, NEW c \in W - t .. W - 1, NEW g \in Nat
  PROVE  Rest(c, s, g, t) \in Nat
<1> DEFINE m == g * s
           x == c - W + t + m
<1>1. W \in Nat /\ m \in Nat
  BY WidthAssumption
<1> HIDE DEF m
<1>2. x \in Nat /\ t \in Nat \ {0}
  BY <1>1
<1> HIDE DEF x
<1>3. x \div t \in Nat
  <2> DEFINE q == x \div t
  <2>1. q \in Int /\ q * t <= x /\ x < q * t + t
    BY <1>2
  <2> HIDE DEF q
  <2>2. q < 0 => q * t + t <= 0
    <3>1. q < 0 => (q + 1) * t <= 0
      BY <1>2, <2>1
    <3>2. (q + 1) * t = q * t + t
      BY <2>1
    <3> QED
      BY <3>1, <3>2
  <2> QED
    BY <1>2, <2>1, <2>2 DEF q
<1> QED
  BY <1>3 DEF Rest, x, m

(* The laser's counter of a line without pulses in between starts at -1. *)
LEMMA RestStartsLit ==
  ASSUME NEW t \in Nat, t < W, t >= 1, NEW s \in 0 .. t
  PROVE  W - 1 \in W - t .. W - 1 /\ Rest(W - 1, s, t, t) = s
<1> DEFINE m == t * s
           x == (W - 1) - W + t + m
<1>1. W \in Nat /\ m \in Nat /\ s * t = m
  BY WidthAssumption
<1> HIDE DEF m
<1>2. x \in Int /\ s * t <= x /\ x < s * t + t /\ t \in Nat \ {0}
  BY <1>1
<1> HIDE DEF x
<1>3. x \div t = s
  BY <1>2, DivUnique
<1> QED
  BY <1>1, <1>3 DEF Rest, x, m

LEMMA LaserFieldsKept ==
  ASSUME DOMAIN laser = LaserFields
  PROVE  /\ LaserAfter.steps = laser.steps
         /\ laser_mask => LaserAfter.ctr = Advance(laser.ctr, laser.steps, steps_total)
BY DEF LaserAfter, LaserFields

(* What an interrupt leaves to be taken. *)
LEMMA PendingFalls ==
  ASSUME Rastering, Counting, Moving, axis_mask # {}, "MODULATE" \in laser.mode
  PROVE  /\ Pending \in Nat /\ Pending - Gone \in Nat
         /\ Pending - Gone = Rest(Advance(laser.ctr, laser.steps, steps_total), laser.steps,
                                  steps_to_go - 1, steps_total)
         /\ Advance(laser.ctr, laser.steps, steps_total) \in W - steps_total .. W - 1
<1> DEFINE c == laser.ctr
           s == laser.steps
           t == steps_total
           g == steps_to_go
           e == Advance(c, s, t)
<1>1. /\ t \in Nat /\ t < W /\ g \in Nat /\ g >= 1 /\ s \in 0 .. t /\ c \in W - t .. W - 1
  BY DEF Counting, Rastering
<1>2. PixelDue <=> Carry(c, s)
  BY DEF PixelDue, LaserDue, Rastering
<1>3. Pending = Rest(c, s, g, t)
  BY DEF Pending
<1> HIDE DEF c, s, t, g
<1>4. e \in W - t .. W - 1
  BY <1>1, CounterSteps
<1>5. g - 1 \in Nat
  BY <1>1
<1>6. Rest(c, s, g, t) \in Nat /\ Rest(e, s, g - 1, t) \in Nat
  BY <1>1, <1>4, <1>5, RestNat
<1>7. Rest(c, s, g, t) = Rest(e, s, g - 1, t) + IF Carry(c, s) THEN 1 ELSE 0
  BY <1>1, RestSteps
<1>8. Pending - Gone = Rest(e, s, g - 1, t)
  BY <1>2, <1>3, <1>6, <1>7 DEF Gone
<1> QED
  BY <1>3, <1>4, <1>6, <1>8 DEF e, c, s, t, g

(* No pixel is due but in a line that asked for it. *)
LEMMA PendingNone ==
  ASSUME Rastering, ~(Moving /\ axis_mask # {} /\ "MODULATE" \in laser.mode)
  PROVE  Pending = 0 /\ Gone = 0
<1>1. Pending = 0
  BY DEF Pending
<1>2. ~PixelDue
  <2> SUFFICES ASSUME PixelDue PROVE FALSE
    OBVIOUS
  <2>1. "MODULATE" \in laser.mode /\ Carry(laser.ctr, laser.steps)
    BY DEF PixelDue, LaserDue
  <2>2. job = "LINE" /\ axis_mask = {}
    BY <2>1 DEF Rastering, Moving
  <2>3. laser.steps = 0 /\ laser.ctr \in 0 .. W - 1 /\ W \in Nat
    BY <2>1, <2>2, WidthAssumption DEF Rastering
  <2> QED
    BY <2>1, <2>3 DEF Carry
<1> QED
  BY <1>1, <1>2 DEF Gone

LEMMA ConcatTail ==
  ASSUME NEW S, NEW q \in Seq(S), q # <<>>, NEW r \in Seq(S)
  PROVE  Head(q \o r) = Head(q) /\ Tail(q \o r) = Tail(q) \o r
<1> DEFINE t == Tail(q)
           all == q \o r
           u == Tail(all)
           v == t \o r
           N == Len(q)
           M == Len(r)
<1>1. N \in Nat \ {0} /\ M \in Nat
  BY EmptySeq, LenProperties
<1>2. /\ t \in Seq(S) /\ Len(t) = N - 1 /\ \A i \in 1 .. N - 1 : t[i] = q[i + 1]
      /\ Head(q) = q[1]
  BY HeadTailProperties
<1>3. /\ all \in Seq(S) /\ Len(all) = N + M
      /\ \A i \in 1 .. N + M : all[i] = IF i <= N THEN q[i] ELSE r[i - N]
  BY ConcatProperties
<1>4. all # <<>>
  BY <1>1, <1>3, EmptySeq
<1>5. /\ u \in Seq(S) /\ Len(u) = (N + M) - 1
      /\ \A i \in 1 .. (N + M) - 1 : u[i] = all[i + 1]
      /\ Head(all) = all[1]
  BY <1>3, <1>4, HeadTailProperties
<1>6. /\ v \in Seq(S) /\ Len(v) = (N - 1) + M
      /\ \A i \in 1 .. (N - 1) + M : v[i] = IF i <= N - 1 THEN t[i] ELSE r[i - (N - 1)]
  BY <1>2, ConcatProperties
<1> HIDE DEF t, all, u, v, N, M
<1>7. Head(all) = Head(q)
  BY <1>1, <1>2, <1>3, <1>5
<1>8. ASSUME NEW i \in 1 .. (N + M) - 1 PROVE u[i] = v[i]
  <2>1. i \in 1 .. (N - 1) + M /\ i + 1 \in 1 .. N + M /\ i \in Int
    BY <1>1
  <2>2. u[i] = IF i + 1 <= N THEN q[i + 1] ELSE r[(i + 1) - N]
    BY <1>3, <1>5, <2>1
  <2>3. v[i] = IF i <= N - 1 THEN t[i] ELSE r[i - (N - 1)]
    BY <1>6, <2>1
  <2>4. CASE i <= N - 1
    BY <1>1, <1>2, <2>1, <2>2, <2>3, <2>4
  <2>5. CASE ~(i <= N - 1)
    <3>1. (i + 1) - N = i - (N - 1) /\ ~(i + 1 <= N)
      BY <1>1, <2>1, <2>5
    <3> QED
      BY <2>2, <2>3, <2>5, <3>1
  <2> QED
    BY <2>4, <2>5
<1>9. Len(u) = Len(v)
  BY <1>1, <1>5, <1>6
<1>10. u = v
  BY <1>5, <1>6, <1>8, <1>9, SeqEqual
<1> QED
  BY <1>7, <1>10 DEF u, v, all, t

(* An interrupt takes the byte that is due from its own line. *)
LEMMA PixelOwn ==
  ASSUME PixelInv, TakePixel
  PROVE  /\ OwnPixels' /\ raster' \in Seq(Byte)
         /\ Divided(Pending - Gone, line, Unfinished, raster' \o bytes)
<1>1. /\ raster \in Seq(Byte) /\ bytes \in Seq(Byte) /\ Rastering /\ Counting /\ Sharing
      /\ pixel \in {"none", "own"} /\ Unfinished \in Seq(Block)
      /\ queue \in Seq(Block) /\ block \in Block
  BY UnfinishedTyped DEF PixelInv, Filling, PlanInv, HomeInv, OwnPixels, MotionType
<1>2. CASE ~PixelDue
  <2>1. raster' = raster /\ pixel' = pixel /\ Gone = 0
    BY <1>2 DEF TakePixel, Gone
  <2>2. Pending \in Int
    <3>1. CASE Moving /\ axis_mask # {} /\ "MODULATE" \in laser.mode
      BY <1>1, <3>1, PendingFalls
    <3>2. CASE ~(Moving /\ axis_mask # {} /\ "MODULATE" \in laser.mode)
      BY <1>1, <3>2, PendingNone
    <3> QED
      BY <3>1, <3>2
  <2>3. Pending - Gone = Pending
    BY <2>1, <2>2
  <2> QED
    BY <1>1, <2>1, <2>3 DEF OwnPixels, Sharing
<1>3. CASE PixelDue
  <2>1. Moving /\ axis_mask # {} /\ "MODULATE" \in laser.mode
    BY <1>1, <1>3, PendingNone DEF Gone
  <2>2. Gone = 1 /\ Pending \in Nat /\ Pending > 0
    BY <1>1, <1>3, <2>1, PendingFalls DEF Gone
  <2> DEFINE data == raster \o bytes
  <2>3. data \in Seq(Byte) /\ Divided(Pending, line, Unfinished, data)
    BY <1>1, ConcatProperties DEF Sharing
  <2>4. /\ data # <<>> /\ Head(data).line = line
        /\ Divided(Pending - 1, line, Unfinished, Tail(data))
    BY <1>1, <2>2, <2>3, DividedTakes
  <2>5. raster # <<>>
    <3>1. CASE pc = "put"
      <4>1. Unfinished = Append(queue, block)
        BY <3>1 DEF Unfinished
      <4>2. Owed(block) \in Nat /\ Pending + Owed(block) <= Len(data)
        BY <1>1, <2>3, <4>1, DividedFront
      <4>3. Len(data) = Len(raster) + Len(bytes) /\ Len(raster) \in Nat /\ Len(bytes) \in Nat
        BY <1>1, ConcatProperties, LenProperties
      <4>4. Len(bytes) <= Owed(block)
        BY <3>1 DEF PixelInv, Filling
      <4>5. Len(raster) # 0
        BY <2>2, <4>2, <4>3, <4>4
      <4> QED
        BY <4>5
    <3>2. CASE pc # "put"
      <4>1. data = raster
        BY <1>1, <3>2, ConcatEmptySeq DEF PixelInv, Filling
      <4> QED
        BY <2>4, <4>1
    <3> QED
      BY <3>1, <3>2
  <2>6. Head(data) = Head(raster) /\ Tail(data) = Tail(raster) \o bytes
    BY <1>1, <2>5, ConcatTail
  <2>7. raster' = Tail(raster) /\ pixel' = "own"
    BY <1>3, <2>4, <2>5, <2>6 DEF TakePixel
  <2>8. raster' \in Seq(Byte)
    BY <1>1, <2>5, <2>7, HeadTailProperties
  <2> HIDE DEF data
  <2> QED
    BY <2>2, <2>4, <2>6, <2>7, <2>8 DEF OwnPixels
<1> QED
  BY <1>2, <1>3

LEMMA FetchUnfinished ==
  ASSUME MotionType, queue # <<>>, queue' = Tail(queue), UNCHANGED <<pc, block>>
  PROVE  /\ Unfinished # <<>> /\ Unfinished' = Tail(Unfinished)
         /\ Head(Unfinished) = Head(queue)
<1>1. queue \in Seq(Block) /\ block \in Block
  BY DEF MotionType
<1>2. CASE pc \in {"put", "push"}
  <2>1. Unfinished = Append(queue, block) /\ Unfinished' = Append(Tail(queue), block)
    BY <1>2 DEF Unfinished
  <2> QED
    BY <1>1, <2>1, TailOfUnfinished, AppendProperties
<1>3. CASE pc \notin {"put", "push"}
  BY <1>3 DEF Unfinished
<1> QED
  BY <1>2, <1>3

(* At the end of a job all its bytes are taken. *)
LEMMA AllTakenAtEnd ==
  ASSUME Rastering, Counting, JobEnds
  PROVE  Pending - Gone = 0
<1>1. CASE Moving /\ axis_mask # {} /\ "MODULATE" \in laser.mode
  <2>1. steps_to_go = 1 /\ steps_total \in Nat /\ steps_total < W /\ laser.steps \in 0 .. steps_total
    BY <1>1 DEF JobEnds, Moving, LastStep, Rastering, Counting
  <2> DEFINE e == Advance(laser.ctr, laser.steps, steps_total)
  <2>2. e \in W - steps_total .. W - 1
        /\ Pending - Gone = Rest(e, laser.steps, steps_to_go - 1, steps_total)
    BY <1>1, PendingFalls
  <2> HIDE DEF e
  <2>3. Rest(e, laser.steps, 0, steps_total) = 0
    BY <2>1, <2>2, RestEnds
  <2> QED
    BY <2>1, <2>2, <2>3
<1>2. CASE ~(Moving /\ axis_mask # {} /\ "MODULATE" \in laser.mode)
  BY <1>2, PendingNone
<1> QED
  BY <1>1, <1>2

(* The laser's counter of a job that is fetched. *)
LEMMA FetchedPixels ==
  ASSUME MotionType, SoundJobs, Counting, FittingJobs, IrqFetch
  PROVE  /\ Rastering' /\ Pending' = Owed(Head(queue)) /\ line' = Head(queue).line
         /\ FittingJobs' \/ ~(block' = block)
<1> DEFINE b == Head(queue)
           total == MaxStep(b.to)
           on == axis_mask'
<1>0. /\ queue \in Seq(Block) /\ queue # <<>> /\ Len(queue) \in Nat \ {0} /\ b = queue[1]
      /\ b \in Block /\ queue' = Tail(queue)
      /\ Len(Tail(queue)) = Len(queue) - 1
      /\ \A i \in 1 .. Len(Tail(queue)) : Tail(queue)[i] = queue[i + 1]
  BY EmptySeq, HeadTailProperties DEF MotionType, IrqFetch
<1>f. FittingJobs' \/ ~(block' = block)
  <2>1. ASSUME NEW i \in 1 .. Len(queue') PROVE Fitting(queue'[i])
    <3>1. i + 1 \in 1 .. Len(queue) /\ queue'[i] = queue[i + 1]
      BY <1>0
    <3> QED
      BY <3>1 DEF FittingJobs
  <2> QED
    BY <2>1 DEF FittingJobs
<1>1. Sound(b) /\ Fitting(b)
  <2>1. 1 \in 1 .. Len(queue)
    BY <1>0
  <2> QED
    BY <1>0, <2>1 DEF SoundJobs, FittingJobs
<1>2. /\ job' = b.job /\ line' = b.line
      /\ laser_mask' = (b.job = "LINE" /\ b.mode # OFF)
      /\ laser' = LaserOf(b, total)
      /\ b.job \in {"MOVE_TO", "LINE"} => LoadMove(b)
  BY DEF IrqFetch
<1>3. b.job \in Kinds /\ b.pulses \in Nat
  BY <1>0 DEF Block
<1>4. CASE ~(b.job = "LINE" /\ "MODULATE" \in b.mode)
  <2>1. Owed(b) = 0
    BY <1>4 DEF Owed
  <2>2. laser'.mode = IF b.job = "LINE" /\ b.mode # OFF THEN b.mode ELSE OFF
    BY <1>2 DEF LaserOf
  <2>3. "MODULATE" \notin laser'.mode
    BY <1>4, <2>2 DEF OFF
  <2>4. job' # "IDLE"
    BY <1>2, <1>3 DEF Kinds
  <2>5. Rastering'
    BY <2>3, <2>4 DEF Rastering
  <2>6. Pending' = 0
    BY <2>3 DEF Pending
  <2> QED
    BY <1>2, <1>f, <2>1, <2>5, <2>6 DEF b
<1>5. CASE b.job = "LINE" /\ "MODULATE" \in b.mode
  <2>1. /\ b.to \in [Axes -> Nat] /\ \A a \in Axes : b.to[a] < W
        /\ total # 1 /\ Owed(b) = b.pulses /\ b.pulses <= total
    BY <1>1, <1>5 DEF Sound, Proper, Fitting, Owed
  <2>2. /\ total \in Nat /\ total < W /\ \A a \in Axes : b.to[a] <= total
        /\ \E a \in Axes : b.to[a] = total
    BY <2>1, LongestAxis
  <2>3. /\ on = {a \in Axes : b.to[a] # 0} /\ steps_total' = total /\ steps_to_go' = total
    BY <1>2, <1>5 DEF LoadMove
  <2>4. b.mode # OFF
    BY <1>5 DEF OFF
  <2>5. /\ laser'.mode = b.mode /\ laser'.steps = b.pulses
        /\ laser'.ctr = IF "PULSE" \in b.mode THEN Wrap(-(total \div 2)) ELSE W - 1
        /\ laser_mask'
    BY <1>2, <1>5, <2>4 DEF LaserOf
  <2>6. Moving' /\ job' = "LINE"
    BY <1>2, <1>5 DEF Moving
  <2> HIDE DEF b, total, on
  <2>7. CASE on # {}
    <3>1. total >= 2 /\ b.pulses \in 0 .. total
      BY <1>3, <2>1, <2>2, <2>3, <2>7
    <3>2. /\ laser'.ctr \in W - total .. W - 1
          /\ Rest(laser'.ctr, b.pulses, total, total) = b.pulses
      <4>1. CASE "PULSE" \in b.mode
        BY <2>2, <2>5, <3>1, <4>1, RestStarts
      <4>2. CASE "PULSE" \notin b.mode
        <5>1. total >= 1
          BY <2>2, <3>1
        <5> QED
          BY <2>2, <2>5, <3>1, <4>2, <5>1, RestStartsLit
      <4> QED
        BY <4>1, <4>2
    <3>3. Rastering'
      BY <2>3, <2>5, <2>6, <2>7, <3>1, <3>2 DEF Rastering, on
    <3>4. Pending' = b.pulses
      BY <1>5, <2>3, <2>5, <2>6, <2>7, <3>2 DEF Pending, on
    <3> QED
      BY <1>2, <1>f, <2>1, <3>3, <3>4 DEF b
  <2>8. CASE on = {}
    <3>1. total = 0 /\ b.pulses = 0
      <4>1. \A a \in Axes : b.to[a] = 0
        BY <2>3, <2>8
      <4> QED
        BY <1>3, <2>1, <2>2, <4>1
    <3>2. laser'.ctr \in 0 .. W - 1
      <4>1. W \in Nat /\ W > 0
        BY WidthAssumption
      <4> DEFINE n == -(0 \div 2)
      <4>2. n \in Int /\ n >= 0 /\ n <= 0
        OBVIOUS
      <4>3. laser'.ctr \in {Wrap(n), W - 1}
        BY <2>5, <3>1
      <4> HIDE DEF n
      <4> QED
        BY <4>1, <4>2, <4>3 DEF Wrap
    <3>3. Rastering'
      BY <2>5, <2>6, <2>8, <3>1, <3>2 DEF Rastering, on
    <3>4. Pending' = 0
      BY <2>8 DEF Pending, on
    <3> QED
      BY <1>2, <1>f, <2>1, <3>1, <3>3, <3>4 DEF b
  <2> QED
    BY <2>7, <2>8
<1> QED
  BY <1>4, <1>5

LEMMA IrqPixels ==
  ASSUME PixelInv, Irq, UNCHANGED main_vars
  PROVE  Rastering' /\ FittingJobs' /\ Filling' /\ Sharing' /\ OwnPixels'
<1>t. /\ MotionType /\ SoundJobs /\ Counting /\ Rastering /\ FittingJobs /\ Filling /\ Sharing
      /\ DOMAIN laser = LaserFields
  BY DEF PixelInv, PlanInv, HomeInv, DarkInv, Quiet
<1>m. UNCHANGED <<pc, block, planned, bytes>>
  BY DEF main_vars
<1>p. /\ OwnPixels' /\ raster' \in Seq(Byte)
      /\ Divided(Pending - Gone, line, Unfinished, raster' \o bytes)
  <2>1. TakePixel
    BY DEF Irq, IrqStep, IrqSeek, IrqTurn, IrqLeave, IrqRest, IrqFetch, GoesOn
  <2> QED
    BY <2>1, PixelOwn
<1>f. Filling'
  BY <1>m, <1>p, <1>t DEF Filling
<1>k. LaserAfter.mode = laser.mode
  BY <1>t, ModeKept
<1>1. CASE IrqStep \/ IrqSeek \/ IrqTurn \/ IrqLeave \/ IrqRest
  <2>1. queue' = queue /\ Unfinished' = Unfinished /\ line' = line
    BY <1>m, <1>1 DEF IrqStep, IrqSeek, IrqTurn, IrqLeave, IrqRest, GoesOn, Unfinished
  <2>2. FittingJobs'
    BY <1>m, <1>t, <2>1 DEF FittingJobs
  <2>3. Pending' = Pending - Gone /\ Rastering'
    <3>1. CASE IrqRest
      <4>1. JobEnds /\ job' = "IDLE" /\ laser' = LaserAtRest
        BY <3>1 DEF IrqRest
      <4>2. laser'.mode = OFF
        BY <1>t, <4>1, ModeKept DEF LaserAtRest, LaserFields
      <4>3. Pending - Gone = 0
        BY <1>t, <4>1, AllTakenAtEnd
      <4>4. Pending' = 0
        BY <4>1 DEF Pending, Moving
      <4>5. Rastering'
        BY <4>2 DEF Rastering, OFF
      <4> QED
        BY <4>3, <4>4, <4>5
    <3>2. CASE IrqSeek \/ IrqTurn \/ IrqLeave
      <4>1. job \in {"HOME", "HOME_REF"} /\ job' \in {"HOME", "HOME_REF"} /\ laser' = LaserAfter
        BY <3>2 DEF IrqSeek, IrqTurn, IrqLeave, GoesOn
      <4>2. "MODULATE" \notin laser.mode
        BY <1>t, <4>1 DEF Rastering
      <4>3. "MODULATE" \notin laser'.mode
        BY <1>k, <4>1, <4>2
      <4>4. Pending' = 0 /\ Rastering'
        BY <4>1, <4>3 DEF Pending, Rastering
      <4> QED
        BY <1>t, <4>2, <4>4, PendingNone
    <3>3. CASE IrqStep
      <4>1. /\ Moving /\ axis_mask # {} /\ laser' = LaserAfter /\ steps_to_go' = steps_to_go - 1
            /\ UNCHANGED <<job, axis_mask, laser_mask, steps_total>>
        BY <3>3 DEF IrqStep, Moving, LastStep, GoesOn
      <4>2. /\ laser'.mode = laser.mode /\ laser'.steps = laser.steps
            /\ laser_mask => laser'.ctr = Advance(laser.ctr, laser.steps, steps_total)
        BY <1>k, <1>t, <4>1, LaserFieldsKept
      <4>3. CASE "MODULATE" \in laser.mode
        <5>1. laser_mask /\ job = "LINE" /\ laser.steps \in 0 .. steps_total
          BY <1>t, <4>1, <4>3 DEF Rastering
        <5>2. /\ laser'.ctr \in W - steps_total .. W - 1
              /\ Pending - Gone = Rest(laser'.ctr, laser.steps, steps_to_go - 1, steps_total)
          BY <1>t, <4>1, <4>2, <4>3, <5>1, PendingFalls
        <5>3. Pending' = Rest(laser'.ctr, laser.steps, steps_to_go - 1, steps_total)
          BY <4>1, <4>2, <4>3 DEF Pending, Moving
        <5>4. Rastering'
          BY <4>1, <4>2, <5>1, <5>2 DEF Rastering
        <5> QED
          BY <5>2, <5>3, <5>4
      <4>4. CASE "MODULATE" \notin laser.mode
        <5>1. job # "IDLE"
          BY <4>1 DEF Moving
        <5>2. Pending' = 0 /\ Rastering'
          BY <4>1, <4>2, <4>4, <5>1 DEF Pending, Rastering
        <5> QED
          BY <1>t, <4>4, <5>2, PendingNone
      <4> QED
        BY <4>3, <4>4
    <3> QED
      BY <1>1, <3>1, <3>2, <3>3
  <2>4. Sharing'
    BY <1>m, <1>p, <2>1, <2>3 DEF Sharing
  <2> QED
    BY <1>f, <1>p, <2>2, <2>3, <2>4
<1>2. CASE IrqFetch
  <2>1. /\ Rastering' /\ Pending' = Owed(Head(queue)) /\ line' = Head(queue).line /\ FittingJobs'
    BY <1>m, <1>t, <1>2, FetchedPixels
  <2>2. Pending - Gone = 0
    BY <1>t, <1>2, AllTakenAtEnd DEF IrqFetch
  <2>3. /\ Unfinished # <<>> /\ Unfinished' = Tail(Unfinished) /\ Head(Unfinished) = Head(queue)
    BY <1>m, <1>t, <1>2, FetchUnfinished DEF IrqFetch
  <2>4. Unfinished \in Seq(Block) /\ raster' \o bytes \in Seq(Byte)
    BY <1>p, <1>t, UnfinishedTyped, ConcatProperties DEF Filling
  <2>5. Divided(0, line, Unfinished, raster' \o bytes)
    BY <1>p, <2>2
  <2>6. Divided(Owed(Head(Unfinished)), Head(Unfinished).line, Tail(Unfinished), raster' \o bytes)
    BY <2>3, <2>4, <2>5, DividedShifts
  <2>7. Sharing'
    BY <1>m, <2>1, <2>3, <2>6 DEF Sharing
  <2> QED
    BY <1>f, <1>p, <2>1, <2>7
<1> QED
  BY <1>1, <1>2 DEF Irq

(* A filled job brings its own bytes. *)
LEMMA FilledShares ==
  ASSUME MotionType, Filling, Sharing, pc = "ready", pc' \in {"put", "push"},
         UNCHANGED <<queue, raster, line>>, Pending' = Pending,
         block' \in Block, bytes' \in Seq(Byte), Len(bytes') = Owed(block'),
         \A k \in 1 .. Len(bytes') : bytes'[k].line = block'.line
  PROVE  Sharing'
<1>1. bytes = <<>> /\ raster \in Seq(Byte) /\ queue \in Seq(Block)
  BY DEF Filling, MotionType
<1>2. raster \o bytes = raster
  BY <1>1, ConcatEmptySeq
<1>3. Unfinished = queue /\ Unfinished' = Append(queue, block')
  BY DEF Unfinished
<1>4. Divided(Pending, line, queue, raster)
  BY <1>2, <1>3 DEF Sharing
<1>5. Divided(Pending, line, Append(queue, block'), raster \o bytes')
  BY <1>1, <1>4, DividedGrows
<1> QED
  BY <1>3, <1>5 DEF Sharing

LEMMA EmptyBytes == <<>> \in Seq(Byte) /\ Len(<<>>) = 0
  BY EmptySeq

(* The bytes of a line. *)
LEMMA LineBytes ==
  ASSUME MotionType, Line
  PROVE  /\ bytes' \in Seq(Byte) /\ Len(bytes') = Owed(block') /\ Fitting(block')
         /\ \A k \in 1 .. Len(bytes') : bytes'[k].line = block'.line
<1>1. PICK target \in Targets, opts \in host.options :
        /\ Regular(target, opts)
        /\ block' = Filled("LINE", target, opts)
        /\ IF "MODULATE" \in opts.mode
           THEN \E values \in [1 .. opts.pulses -> Pixels] :
                  bytes' = [i \in 1 .. opts.pulses |-> [value |-> values[i], line |-> sent']]
           ELSE bytes' = <<>>
  BY DEF Line
<1>2. sent' \in Nat /\ opts.pulses \in Nat
  BY HostAssumption DEF MotionType, Line, Begin
<1>3. /\ block'.job = "LINE" /\ block'.to = Apart(target) /\ block'.mode = opts.mode
      /\ block'.pulses = opts.pulses /\ block'.line = sent'
  BY <1>1 DEF Filled
<1>4. CASE "MODULATE" \in opts.mode
  <2>1. PICK values \in [1 .. opts.pulses -> Pixels] :
          bytes' = [i \in 1 .. opts.pulses |-> [value |-> values[i], line |-> sent']]
    BY <1>1, <1>4
  <2>2. Owed(block') = opts.pulses
    BY <1>3, <1>4 DEF Owed
  <2>3. \A i \in 1 .. opts.pulses : [value |-> values[i], line |-> sent'] \in Byte
    BY <1>2 DEF Byte
  <2>4. bytes' \in Seq(Byte) /\ Len(bytes') = opts.pulses
    <3> DEFINE n == opts.pulses
               f == [i \in 1 .. n |-> [value |-> values[i], line |-> sent']]
    <3>1. f \in [1 .. n -> Byte] /\ n \in Nat
      BY <1>2, <2>3
    <3>2. bytes' = f
      BY <2>1
    <3> HIDE DEF f, n
    <3>3. f \in Seq(Byte) /\ DOMAIN f = 1 .. n
      BY <3>1, SeqDef
    <3>4. Len(f) = n
      BY <3>1, <3>3, LenProperties
    <3> QED
      BY <3>2, <3>3, <3>4 DEF n
  <2>5. \A k \in 1 .. opts.pulses : bytes'[k].line = sent'
    BY <2>1
  <2>6. Fitting(block')
    BY <1>1, <1>3, <1>4, <2>2 DEF Regular, Fitting
  <2> QED
    BY <1>3, <2>2, <2>4, <2>5, <2>6
<1>5. CASE "MODULATE" \notin opts.mode
  <2>1. bytes' = <<>> /\ Owed(block') = 0
    BY <1>1, <1>3, <1>5 DEF Owed
  <2>2. Fitting(block')
    BY <1>3, <1>5 DEF Fitting
  <2> QED
    BY <2>1, <2>2, EmptyBytes
<1> QED
  BY <1>4, <1>5

LEMMA CommandPixels ==
  ASSUME PixelInv, Command
  PROVE  Rastering' /\ FittingJobs' /\ Filling' /\ Sharing' /\ OwnPixels'
<1>t. /\ MotionType /\ MotionType' /\ Rastering /\ FittingJobs /\ Filling /\ Sharing /\ OwnPixels
  BY CommandTyped DEF PixelInv, PlanInv, HomeInv
<1>s. pc = "ready" /\ UNCHANGED stepper_vars
  BY DEF Command, Move, Spindle, Options, Line, Home, SetPosition, Wait, SinglePulse, Begin
<1>u. /\ UNCHANGED <<queue, raster, line, job, axis_mask, laser_mask, laser, steps_to_go,
                     steps_total, pixel>>
  BY <1>s DEF stepper_vars, motion
<1>r. Rastering' /\ OwnPixels' /\ Pending' = Pending
  BY <1>t, <1>u DEF Rastering, OwnPixels, Pending, Moving
<1>b. /\ bytes = <<>> /\ raster \in Seq(Byte) /\ block' \in Block
  BY <1>s, <1>t DEF Filling, MotionType
<1>f. Fitting(block') => FittingJobs'
  BY <1>t, <1>u DEF FittingJobs
<1>1. CASE Options \/ Wait \/ SinglePulse
  <2>1. UNCHANGED <<block, bytes>> /\ pc' \in {"ready", "drain"}
    BY <1>1, <1>s DEF Options, Wait, SinglePulse
  <2>2. Unfinished' = Unfinished
    BY <1>s, <1>u, <2>1 DEF Unfinished
  <2>3. Filling' /\ Sharing' /\ FittingJobs'
    BY <1>b, <1>r, <1>t, <1>u, <2>1, <2>2 DEF Filling, Sharing, FittingJobs
  <2> QED
    BY <1>r, <2>3
<1>2. CASE Move \/ Spindle \/ Home \/ SetPosition
  <2>1. bytes' = bytes /\ pc' = "push" /\ block'.job # "LINE"
    <3>1. CASE Move \/ Spindle
      BY <3>1 DEF Move, Spindle, QueueMove, Filled
    <3>2. CASE Home
      BY <1>t, <3>2 DEF Home, Reference, MotionType, Block
    <3>3. CASE SetPosition
      BY <1>t, <3>3 DEF SetPosition, Reference, MotionType, Block
    <3> QED
      BY <1>2, <3>1, <3>2, <3>3
  <2>2. Owed(block') = 0 /\ Fitting(block')
    BY <2>1 DEF Owed, Fitting
  <2>3. bytes' = <<>> /\ bytes' \in Seq(Byte) /\ Len(bytes') = 0 /\ 1 .. Len(bytes') = {}
    BY <1>b, <2>1, EmptyBytes
  <2>4. Sharing'
    BY <1>b, <1>r, <1>s, <1>t, <1>u, <2>1, <2>2, <2>3, FilledShares
  <2>5. Filling'
    BY <1>b, <1>u, <2>1, <2>3 DEF Filling
  <2> QED
    BY <1>f, <1>r, <2>2, <2>4, <2>5
<1>3. CASE Line
  <2>1. /\ bytes' \in Seq(Byte) /\ Len(bytes') = Owed(block') /\ Fitting(block')
        /\ \A k \in 1 .. Len(bytes') : bytes'[k].line = block'.line
    BY <1>3, <1>t, LineBytes
  <2>2. pc' = "put"
    BY <1>3 DEF Line
  <2>3. Sharing'
    BY <1>b, <1>r, <1>s, <1>t, <1>u, <2>1, <2>2, FilledShares
  <2>4. Filling'
    <3>1. Len(bytes') \in Nat
      BY <2>1, LenProperties
    <3> QED
      BY <1>b, <1>u, <2>1, <2>2, <3>1 DEF Filling
  <2> QED
    BY <1>f, <1>r, <2>1, <2>3, <2>4
<1> QED
  BY <1>1, <1>2, <1>3 DEF Command

(* A byte that is put stays in its place. *)
LEMMA PutMoves ==
  ASSUME NEW S, NEW r \in Seq(S), NEW q \in Seq(S), q # <<>>
  PROVE  Append(r, Head(q)) \o Tail(q) = r \o q
<1> DEFINE t == Tail(q)
           v == Append(r, Head(q))
           all == r \o q
           u == v \o t
           N == Len(r)
           M == Len(q)
<1>1. N \in Nat /\ M \in Nat \ {0}
  BY EmptySeq, LenProperties
<1>2. /\ t \in Seq(S) /\ Len(t) = M - 1 /\ \A i \in 1 .. M - 1 : t[i] = q[i + 1]
      /\ Head(q) = q[1] /\ Head(q) \in S
  BY HeadTailProperties
<1>3. /\ v \in Seq(S) /\ Len(v) = N + 1
      /\ \A i \in 1 .. N : v[i] = r[i]
      /\ v[N + 1] = q[1]
  BY <1>2, AppendProperties
<1>4. /\ all \in Seq(S) /\ Len(all) = N + M
      /\ \A i \in 1 .. N + M : all[i] = IF i <= N THEN r[i] ELSE q[i - N]
  BY ConcatProperties
<1>5. /\ u \in Seq(S) /\ Len(u) = (N + 1) + (M - 1)
      /\ \A i \in 1 .. (N + 1) + (M - 1) : u[i] = IF i <= N + 1 THEN v[i] ELSE t[i - (N + 1)]
  BY <1>2, <1>3, ConcatProperties
<1> HIDE DEF t, v, all, u, N, M
<1>6. Len(u) = Len(all) /\ Len(all) = N + M
  BY <1>1, <1>4, <1>5
<1>7. ASSUME NEW i \in 1 .. N + M PROVE u[i] = all[i]
  <2>1. i \in 1 .. (N + 1) + (M - 1) /\ i \in Int
    BY <1>1
  <2>2. u[i] = IF i <= N + 1 THEN v[i] ELSE t[i - (N + 1)]
    BY <1>5, <2>1
  <2>3. all[i] = IF i <= N THEN r[i] ELSE q[i - N]
    BY <1>4
  <2>4. CASE i <= N
    BY <1>1, <1>3, <2>1, <2>2, <2>3, <2>4
  <2>5. CASE i = N + 1
    <3>1. i - N = 1 /\ ~(i <= N) /\ i <= N + 1
      BY <1>1, <2>5
    <3> QED
      BY <1>3, <2>2, <2>3, <2>5, <3>1
  <2>6. CASE i > N + 1
    <3>1. i - (N + 1) \in 1 .. M - 1 /\ (i - (N + 1)) + 1 = i - N /\ ~(i <= N) /\ ~(i <= N + 1)
      BY <1>1, <2>1, <2>6
    <3> QED
      BY <1>2, <2>2, <2>3, <3>1
  <2> QED
    BY <1>1, <2>1, <2>4, <2>5, <2>6
<1>8. u = all
  BY <1>4, <1>5, <1>6, <1>7, SeqEqual
<1> QED
  BY <1>8 DEF u, v, t, all

LEMMA MainPixels ==
  ASSUME PixelInv, Main
  PROVE  Rastering' /\ FittingJobs' /\ Filling' /\ Sharing' /\ OwnPixels'
<1>t. /\ MotionType /\ Still /\ Rastering /\ FittingJobs /\ Filling /\ Sharing /\ OwnPixels
  BY DEF PixelInv, PlanInv, HomeInv, DarkInv
<1>m. UNCHANGED <<motion, laser, pixel, block>>
  BY DEF Main, Put, PutDone, Push, QueueSeenEmpty, JobSeenDone, ResetRaster, PulseCounts,
         PulsePin, PulseTimer, PulseDone, PulseHangs, stepper_vars
<1>r. Rastering' /\ OwnPixels' /\ Pending' = Pending /\ line' = line
  BY <1>m, <1>t DEF Rastering, OwnPixels, Pending, Moving, motion
<1>b. /\ raster \in Seq(Byte) /\ bytes \in Seq(Byte) /\ queue \in Seq(Block) /\ block \in Block
  BY <1>t DEF Filling, MotionType
<1>1. CASE Put
  <2>1. /\ pc = "put" /\ bytes # <<>> /\ raster' = Append(raster, Head(bytes))
        /\ bytes' = Tail(bytes) /\ UNCHANGED <<queue, pc>>
    BY <1>1 DEF Put
  <2>2. raster' \o bytes' = raster \o bytes
    BY <1>b, <2>1, PutMoves
  <2>3. Unfinished' = Unfinished /\ FittingJobs'
    BY <1>m, <1>t, <2>1 DEF Unfinished, FittingJobs
  <2>4. Sharing'
    BY <1>r, <1>t, <2>2, <2>3 DEF Sharing
  <2>5. Head(bytes) \in Byte /\ bytes' \in Seq(Byte) /\ Len(bytes') = Len(bytes) - 1
    BY <1>b, <2>1, HeadTailProperties
  <2>6. raster' \in Seq(Byte)
    BY <1>b, <2>1, <2>5, AppendProperties
  <2>7. Len(bytes) <= Owed(block) /\ Owed(block') = Owed(block)
    BY <1>m, <1>t, <2>1 DEF Filling
  <2>8. Len(bytes) \in Nat /\ Owed(block) \in Nat
    BY <1>b, LenProperties DEF Owed, Block
  <2>9. Filling'
    BY <2>1, <2>5, <2>6, <2>7, <2>8 DEF Filling
  <2> QED
    BY <1>r, <2>3, <2>4, <2>9
<1>2. CASE PutDone
  <2>1. pc = "put" /\ pc' = "push" /\ bytes = <<>> /\ UNCHANGED <<queue, raster, bytes>>
    BY <1>2 DEF PutDone, stepper_vars
  <2>2. Unfinished' = Unfinished /\ FittingJobs'
    BY <1>m, <1>t, <2>1 DEF Unfinished, FittingJobs
  <2>3. Sharing' /\ Filling'
    BY <1>b, <1>r, <1>t, <2>1, <2>2 DEF Sharing, Filling
  <2> QED
    BY <1>r, <2>2, <2>3
<1>3. CASE Push
  <2>1. /\ pc = "push" /\ pc' \in {"ready", "drain"} /\ queue' = Append(queue, block)
        /\ UNCHANGED <<raster, bytes>>
    BY <1>3, <1>t DEF Push, Still
  <2>2. Unfinished' = Unfinished
    BY <2>1 DEF Unfinished
  <2>3. ASSUME NEW i \in 1 .. Len(queue') PROVE Fitting(queue'[i])
    <3>1. /\ Len(queue') = Len(queue) + 1 /\ Len(queue) \in Nat
          /\ queue'[Len(queue) + 1] = block
          /\ \A k \in 1 .. Len(queue) : queue'[k] = queue[k]
      BY <1>b, <2>1, AppendProperties, LenProperties
    <3>2. i \in 1 .. Len(queue) \/ i = Len(queue) + 1
      BY <3>1
    <3> QED
      BY <1>t, <3>1, <3>2 DEF FittingJobs
  <2>4. FittingJobs'
    BY <1>m, <1>t, <2>3 DEF FittingJobs
  <2>5. Sharing' /\ Filling'
    BY <1>b, <1>r, <1>t, <2>1, <2>2 DEF Sharing, Filling
  <2> QED
    BY <1>r, <2>4, <2>5
<1>4. CASE ResetRaster
  <2>1. /\ pc = "reset" /\ pc' \notin {"put", "push"} /\ raster' = <<>>
        /\ UNCHANGED <<queue, bytes>>
    BY <1>4 DEF ResetRaster
  <2>2. queue = <<>> /\ job = "IDLE" /\ bytes = <<>>
    BY <1>t, <2>1 DEF Still, PastQueue, PastJob, Filling
  <2>3. Unfinished = <<>> /\ Unfinished' = <<>> /\ Pending = 0
    BY <2>1, <2>2 DEF Unfinished, Pending, Moving
  <2>4. raster \o bytes = raster
    BY <1>b, <2>2, ConcatEmptySeq
  <2>5. Divided(0, line, <<>>, raster)
    BY <1>t, <2>3, <2>4 DEF Sharing
  <2>6. raster' = raster
    BY <1>b, <2>1, <2>5, DividedEmpty
  <2>7. Sharing' /\ Filling' /\ FittingJobs'
    BY <1>b, <1>m, <1>r, <1>t, <2>1, <2>2, <2>3, <2>6 DEF Sharing, Filling, FittingJobs
  <2> QED
    BY <1>r, <2>7
<1>5. CASE \/ QueueSeenEmpty \/ JobSeenDone \/ PulseCounts \/ PulsePin \/ PulseTimer
           \/ PulseDone \/ PulseHangs
  <2>1. /\ pc \notin {"put", "push"} /\ pc' \notin {"put", "push"}
        /\ UNCHANGED <<queue, raster, bytes>>
    BY <1>5 DEF QueueSeenEmpty, JobSeenDone, PulseCounts, PulsePin, PulseTimer, PulseDone,
         PulseHangs, stepper_vars
  <2>2. Unfinished' = Unfinished
    BY <2>1 DEF Unfinished
  <2>3. Sharing' /\ Filling' /\ FittingJobs'
    BY <1>b, <1>m, <1>r, <1>t, <2>1, <2>2 DEF Sharing, Filling, FittingJobs
  <2> QED
    BY <1>r, <2>3
<1> QED
  BY <1>1, <1>2, <1>3, <1>4, <1>5 DEF Main

LEMMA InitPixels == Init /\ ProperJobs => PixelInv
<1> SUFFICES ASSUME Init, ProperJobs PROVE PixelInv
  OBVIOUS
<1>1. PlanInv
  BY InitPlan
<1>2. /\ queue = <<>> /\ raster = <<>> /\ bytes = <<>> /\ job = "IDLE" /\ laser.mode = OFF
      /\ pixel = "none" /\ pc = "ready" /\ block.job = "MOVE_TO" /\ line = 0
  BY DEF Init, StepperInit
<1>3. Rastering /\ OwnPixels /\ Pending = 0 /\ Unfinished = <<>>
  BY <1>2 DEF Rastering, OwnPixels, Pending, Moving, Unfinished, OFF
<1>4. FittingJobs
  BY <1>2, EmptyBytes DEF FittingJobs, Fitting
<1>5. Filling
  BY <1>2, EmptyBytes DEF Filling
<1>6. Sharing
  <2>1. <<>> \o <<>> = <<>>
    BY EmptyBytes, ConcatEmptySeq
  <2> DEFINE cut == [i \in 0 .. 0 |-> 0]
  <2>2. Cuts(cut, 0, line, <<>>, <<>>)
    <3>1. Len(<<>>) = 0 /\ 1 .. 0 = {} /\ 0 .. 0 = {0}
      BY EmptyBytes
    <3> QED
      BY <3>1 DEF Cuts
  <2> HIDE DEF cut
  <2>3. Divided(0, line, <<>>, <<>>)
    BY <2>2 DEF Divided
  <2> QED
    BY <1>2, <1>3, <2>1, <2>3 DEF Sharing
<1> QED
  BY <1>1, <1>3, <1>4, <1>5, <1>6 DEF PixelInv

LEMMA NextPixels ==
  PixelInv /\ ProperJobs' /\ [Next]_vars /\ [ShortMove]_vars => PixelInv'
<1> SUFFICES ASSUME PixelInv, ProperJobs', [Next]_vars, [ShortMove]_vars PROVE PixelInv'
  OBVIOUS
<1>p. PlanInv'
  BY NextPlan DEF PixelInv
<1>1. CASE Command
  BY <1>p, <1>1, CommandPixels DEF PixelInv
<1>2. CASE Main
  BY <1>p, <1>2, MainPixels DEF PixelInv
<1>3. CASE Irq /\ UNCHANGED main_vars
  BY <1>p, <1>3, IrqPixels DEF PixelInv
<1>4. CASE \/ Timer3 /\ UNCHANGED main_vars
           \/ UNCHANGED vars
  <2>1. UNCHANGED <<queue, raster, motion, laser, pixel, pc, block, bytes>>
    BY <1>4 DEF Timer3, vars, stepper_vars, main_vars
  <2>2. Unfinished' = Unfinished /\ Pending' = Pending /\ line' = line
    BY <2>1 DEF motion, Unfinished, Pending, Moving
  <2>3. Rastering' /\ FittingJobs' /\ Filling' /\ Sharing' /\ OwnPixels'
    BY <2>1, <2>2 DEF PixelInv, motion, Rastering, FittingJobs, Filling, Sharing, OwnPixels
  <2> QED
    BY <1>p, <2>3 DEF PixelInv
<1> QED
  BY <1>1, <1>2, <1>3, <1>4 DEF Next, Interrupt

(* A raster line takes its own bytes, all of them and in order, although   *)
(* the bytes of the lines behind it are put while it runs and come from    *)
(* the same buffer (stepper.c:775-798, parser.c:245-252).  No job is a     *)
(* single step long, and no distance more than abs can take.               *)
THEOREM LinesOwnPixels == Spec /\ []ProperJobs /\ [][ShortMove]_vars => []OwnPixels
<1>1. PixelInv => OwnPixels
  BY DEF PixelInv
<1> QED
  BY InitPixels, NextPixels, <1>1, PTL DEF Spec
-----------------------------------------------------------------------------
(* The timer that ends a pulse, for every duration.                        *)
Compare16 == {k \in Nat : k < 16 * 4096}
Prescalers == {1, 8, 64, 256, 1024}

(* laser_start_pulse_timer computes the compare value in 32 bits and       *)
(* stores 16: for every duration that lights the laser the value fits, is  *)
(* not zero, and its ticks of prescale / 16 microseconds end less than one *)
(* tick before the duration that was asked for.                            *)
THEOREM TimerFits ==
  ASSUME NEW d \in Nat, Lasts(d)
  PROVE  /\ Timer(d).prescale \in Prescalers
         /\ Timer(d).OCR3A \in Compare16 \ {0}
         /\ 16 * d - Timer(d).OCR3A * Timer(d).prescale \in 0 .. Timer(d).prescale - 1
<1>1. CASE d < 4096
  BY SMT, <1>1 DEF Lasts, Timer, Prescalers, Compare16
<1>2. CASE d >= 4096 /\ d < 8 * 4096
  BY SMT, <1>2 DEF Lasts, Timer, Prescalers, Compare16
<1>3. CASE d >= 8 * 4096 /\ d < 64 * 4096
  BY SMT, <1>3 DEF Lasts, Timer, Prescalers, Compare16
<1>4. CASE d >= 64 * 4096 /\ d < 256 * 4096
  BY SMT, <1>4 DEF Lasts, Timer, Prescalers, Compare16
<1>5. CASE d >= 256 * 4096 /\ d < 1024 * 4096
  BY SMT, <1>5 DEF Lasts, Timer, Prescalers, Compare16
<1>6. CASE d >= 1024 * 4096
  BY SMT, <1>6 DEF Lasts, Timer
<1> QED BY SMT, <1>1, <1>2, <1>3, <1>4, <1>5, <1>6

(* A pulse that is not lit is longer than the 4.194304 s of the comment,   *)
(* or of no length at all.                                                 *)
THEOREM RefusedOnly ==
  ASSUME NEW d \in Nat
  PROVE  Lasts(d) <=> d > 0 /\ d < 1024 * 4096
<1>1. CASE d < 4096
  BY SMT, <1>1 DEF Lasts, Timer
<1>2. CASE d >= 4096 /\ d < 8 * 4096
  BY SMT, <1>2 DEF Lasts, Timer
<1>3. CASE d >= 8 * 4096 /\ d < 64 * 4096
  BY SMT, <1>3 DEF Lasts, Timer
<1>4. CASE d >= 64 * 4096 /\ d < 256 * 4096
  BY SMT, <1>4 DEF Lasts, Timer
<1>5. CASE d >= 256 * 4096 /\ d < 1024 * 4096
  BY SMT, <1>5 DEF Lasts, Timer
<1>6. CASE d >= 1024 * 4096
  BY SMT, <1>6 DEF Lasts, Timer
<1> QED BY SMT, <1>1, <1>2, <1>3, <1>4, <1>5, <1>6
==============================================================================
