-------------------------------- MODULE Beam --------------------------------
(***************************************************************************)
(* The output stage of laser.c: the firing pin, the flag laser_is_on and   *)
(* the timer that ends a pulse.  Operators map a beam to a beam; the       *)
(* intensity only matters as zero or not.  Times are in microseconds.  A   *)
(* beam does not count them: its timer expires at any moment.              *)
(***************************************************************************)
EXTENDS Integers

(* pin: LASER_FIRING_PIN; on: laser.laser_is_on; timer: does timer 3 run?  *)
Dark == [pin |-> FALSE, on |-> FALSE, timer |-> FALSE]

(* laser_fire(0): the timer is stopped only if the laser counted as on. *)
Extinguish(beam) ==
  [pin |-> FALSE, on |-> FALSE, timer |-> beam.timer /\ ~beam.on]

(* laser_fire(intensity) in an interrupt handler. *)
Fire(beam, intensity) ==
  IF intensity = 0 THEN Extinguish(beam) ELSE [beam EXCEPT !.pin = TRUE, !.on = TRUE]

(* Prescaler and compare value for a pulse of d microseconds. *)
Timer(d) ==
  IF d < 4096 THEN [prescale |-> 1, OCR3A |-> 16 * d]
  ELSE IF d < 8 * 4096 THEN [prescale |-> 8, OCR3A |-> 2 * d]
  ELSE IF d < 64 * 4096 THEN [prescale |-> 64, OCR3A |-> d \div 4]
  ELSE IF d < 256 * 4096 THEN [prescale |-> 256, OCR3A |-> d \div 16]
  ELSE IF d < 1024 * 4096 THEN [prescale |-> 1024, OCR3A |-> d \div 64]
  ELSE [prescale |-> 0, OCR3A |-> 0]

Lasts(d) == d > 0 /\ Timer(d).prescale > 0

(* laser_start_pulse_timer.  Zero stops the timer and leaves the laser as  *)
(* it is; what the timer cannot count extinguishes the laser.              *)
StartTimer(beam, us) ==
  LET stopped == [beam EXCEPT !.timer = FALSE]
  IN  IF us = 0 THEN stopped
      ELSE IF Lasts(us) THEN [beam EXCEPT !.timer = TRUE]
      ELSE Extinguish(stopped)

(* Mutant of Expire: only the timer stopped. *)
ExpireTimerOnly(beam) == [beam EXCEPT !.timer = FALSE]

(* TIMER3_COMPA_vect. *)
Expire(beam) == Extinguish([beam EXCEPT !.timer = FALSE])
=============================================================================
