-------------------------------- MODULE Clock --------------------------------
(***************************************************************************)
(* The clock of time.c: a timer that counts to Period and restarts, the    *)
(* interrupt that counts its rounds, and micros(), which adds the timer to *)
(* the rounds.  The timer may restart while the interrupt has to wait, so  *)
(* the two halves of micros() need not belong together.                    *)
(*                                                                         *)
(* The chain of counters below the interrupt (1 ms, 10 ms, ... 1 h) is a   *)
(* sequence of Levels, each with the number of steps of the level before   *)
(* that make one of its own.                                               *)
(***************************************************************************)
EXTENDS Integers, Sequences

CONSTANTS Period,      \* OCR0A + 1 counts of half a microsecond
          PerMilli,    \* interrupts to a millisecond
          Levels,      \* flags after TIME_FLAG_1MS, fastest first
          Radix,       \* what the counters of Levels start from
          W,           \* values of an uint32_t
          MaxNow       \* bound: counts of the timer

ASSUME ClockAssumption ==
  /\ Period \in Nat /\ Period > 1 /\ Period % 2 = 0
  /\ PerMilli \in Nat \ {0} /\ W \in Nat \ {0} /\ MaxNow \in Nat
  /\ Levels \in Seq(STRING) /\ Radix \in [1 .. Len(Levels) -> Nat \ {0}]

VARIABLES now,          \* counts of the timer since time_init
          matched,      \* OCF0A: the timer has restarted, the interrupt waits
          _micros, _micros_ctr, _millis,
          mscounter,    \* mscounter1ms, mscounter10ms, ...
          time_flags

clock_vars == <<now, matched, _micros, _micros_ctr, _millis, mscounter, time_flags>>

TCNT0 == now % Period

ClockInit ==
  /\ now = 0 /\ matched = FALSE
  /\ _micros = 0 /\ _micros_ctr = 0 /\ _millis = 0
  /\ mscounter = Radix /\ time_flags = {}

(* Assumed: the timer never runs through twice before it is served, so no  *)
(* handler and no critical section takes 125 us.  Two may: laser_add_time, *)
(* which counts a long pulse's milliseconds one by one in the interrupt    *)
(* that ends it (laser.c:226-229), and USB_COM_vect, which waits for the   *)
(* host (usb_serial.c:763-774).  Then the clock loses rounds.              *)
Count ==
  /\ now < MaxNow
  /\ ~(matched /\ (now + 1) % Period = 0)
  /\ now' = now + 1
  /\ matched' = (matched \/ (now + 1) % Period = 0)
  /\ UNCHANGED <<_micros, _micros_ctr, _millis, mscounter, time_flags>>


Reload(k) == Radix[k]

(* Levels that a new millisecond reaches: those before have run out. *)
Reached == {k \in 1 .. Len(Levels) : \A j \in 1 .. k - 1 : mscounter[j] = 1}
RunOut == {k \in Reached : mscounter[k] = 1}

Milli ==
  /\ _millis' = _millis + 1
  /\ mscounter' = [k \in 1 .. Len(Levels) |->
                     IF k \in RunOut THEN Reload(k) ELSE IF k \in Reached THEN mscounter[k] - 1
                     ELSE mscounter[k]]
  /\ time_flags' = time_flags \cup {"1MS"} \cup {Levels[k] : k \in RunOut}

TIMER0_COMPA_vect ==
  /\ matched
  /\ matched' = FALSE
  /\ _micros' = (_micros + Period \div 2) % W
  /\ _micros_ctr' = (_micros_ctr + 1) % PerMilli
  /\ IF _micros_ctr + 1 >= PerMilli THEN Milli ELSE UNCHANGED <<_millis, mscounter, time_flags>>
  /\ UNCHANGED now

(* The first half of micros(), and the value it returns. *)
TimerMicros == TCNT0 \div 2
micros(m) == (m + _micros) % W
-----------------------------------------------------------------------------
=============================================================================
