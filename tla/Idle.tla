-------------------------------- MODULE Idle ---------------------------------
(***************************************************************************)
(* What the firmware does between commands: idle() of main.c looks at the  *)
(* flags of the clock and redraws the display; G4 waits with idle() until  *)
(* enough milliseconds have passed; a single pulse lights the laser, and   *)
(* interrupts measure how long it is on (laser.c).  Main clears flags that *)
(* the clock's interrupt sets, and reads a counter of several bytes that   *)
(* the interrupt changes.                                                  *)
(***************************************************************************)
EXTENDS Clock, Display, Beam

CONSTANTS Waits,          \* milliseconds of G4
          Durations,      \* microseconds of a pulse
          Tour,           \* what lcd_update finds to show, one after the other
          ByteW,          \* values of the low part of millis()
          MilliW, MinuteW,\* microseconds and milliseconds laser_add_time carries at
          MinW,           \* values of laser_time_min
          MaxLag,         \* bound: counts between two rounds of idle()
          MaxHold,        \* bound: counts while laser_fire runs
          MaxStart,       \* bound: G4 comes by then
          MaxPulse        \* bound: time with pulses

ASSUME IdleAssumption ==
  /\ Waits \subseteq Nat /\ Durations \subseteq Nat
  /\ {ByteW, MilliW, MinuteW, MinW} \subseteq Nat \ {0}
  /\ MaxLag \in Nat /\ MaxHold \in Nat /\ Len(Tour) \in Nat \ {0}

(* From the time laser_fire takes to the pin, interrupts within it         *)
(* included, no round of the timer passes; what counts the time of the     *)
(* laser goes further than what measures a pulse.                          *)
ASSUME TimesAssumption ==
  MaxHold < Period /\ W <= MilliW * (MinuteW * MinW)

VARIABLES pc,             \* main: "boot", "loop", in idle(), in G4 or in P
          job,            \* what main is told: "show", "wait" or "pulse"
          lag,            \* counts since main came to idle()
          reg,            \* main's copy of time_flags
          half,           \* the half of _millis main has read
          lowFirst,       \* the order the compiler reads _millis in
          delay, tmp,     \* G4
          laser,          \* the state laser_fire keeps
          timer3,         \* timer 3 runs
          fire,           \* laser_fire in the middle of micros()
          seen            \* what really happened

main_vars == <<pc, job, lag, reg, half, lowFirst, delay, tmp>>
laser_vars == <<laser, timer3, fire>>
vars == <<clock_vars, display_vars, main_vars, laser_vars, seen>>

Free == [what |-> "none", m |-> 0, held |-> 0]

(* laser_time_ms starts shortly before a minute. *)
InitialMillis == MinuteW - 1

(* Three jobs: the display alone, from lcd_init on, one screen after the   *)
(* other; the clock with a wait; the clock with pulses.  In the last two   *)
(* the display is left as it is.                                           *)
IdleInit ==
  /\ ClockInit
  /\ \/ job = "show" /\ pc = "boot" /\ Init /\ lowFirst = TRUE
     \/ job = "wait" /\ pc = "loop" /\ DisplayReady /\ lowFirst \in BOOLEAN
     \/ job = "pulse" /\ pc = "loop" /\ DisplayReady /\ lowFirst = TRUE
  /\ lag = 0 /\ reg = {} /\ half = 0 /\ delay = 0 /\ tmp = 0
  /\ laser = [is_on |-> FALSE, last_firing |-> 0, us |-> 0, ms |-> InitialMillis, min |-> 0]
  /\ timer3 = FALSE /\ fire = Free
  /\ seen = [seconds |-> 0, drawn |-> 0, lit |-> 0, start |-> 0, waited |-> 0]

Shown(n) == Tour[(n % Len(Tour)) + 1]

Boot ==
  /\ pc = "boot" /\ BootStep
  /\ pc' = IF Len(booting) = 1 THEN "lcd" ELSE "boot"
  /\ UNCHANGED <<clock_vars, job, lag, reg, half, lowFirst, delay, tmp, laser_vars, seen>>

(* Interrupts are served unless one, or a critical section, is running.    *)
(* When laser_fire has the time in main, they are on again.                *)
Firing == fire.what # "none"
InterruptsOn == ~Firing \/ fire.what = "on_value"

(* Main comes to idle() within MaxLag, unless it waits for a pulse. *)
Tick ==
  /\ job # "show" /\ (job = "pulse" => now < MaxPulse)
  /\ fire.held < MaxHold
  /\ Count
  /\ IF pc = "pulse" THEN UNCHANGED lag ELSE lag < MaxLag /\ lag' = lag + 1
  /\ fire' = IF Firing THEN [fire EXCEPT !.held = @ + 1] ELSE fire
  /\ UNCHANGED <<display_vars, pc, job, reg, half, lowFirst, delay, tmp, laser, timer3, seen>>

Interrupt ==
  /\ InterruptsOn /\ TIMER0_COMPA_vect
  /\ UNCHANGED <<display_vars, main_vars, laser_vars, seen>>
-----------------------------------------------------------------------------
(* idle(): each flag is tested, then cleared by reading and writing the    *)
(* whole byte.                                                             *)
Goto(l) == pc' = l /\ UNCHANGED <<job, lowFirst>>
Reading(flag)  == IF flag = "1S" THEN "read1S" ELSE "read100MS"
Clearing(flag) == IF flag = "1S" THEN "clear1S" ELSE "clear100MS"

(* Where idle() returns to. *)
Caller == IF delay > 0 THEN "compare" ELSE IF job = "show" THEN "lcd" ELSE "loop"

StartIdle ==
  /\ pc \in {"loop", "dwell"} /\ job # "pulse"
  /\ Goto("1S") /\ lag' = 0
  /\ UNCHANGED <<clock_vars, display_vars, reg, half, delay, tmp, laser_vars, seen>>

Test(flag, otherwise) ==
  /\ pc = flag
  /\ Goto(IF flag \in time_flags THEN Reading(flag) ELSE otherwise)
  /\ UNCHANGED <<clock_vars, display_vars, lag, reg, half, delay, tmp, laser_vars, seen>>

Read(flag) ==
  /\ pc = Reading(flag)
  /\ reg' = time_flags
  /\ Goto(Clearing(flag))
  /\ UNCHANGED <<clock_vars, display_vars, lag, half, delay, tmp, laser_vars, seen>>

(* Mutant of Without: the byte cleared as a whole. *)
WithoutAny(flag) == {}

Without(flag) == reg \ {flag}

Clear(flag, next) ==
  /\ pc = Clearing(flag)
  /\ time_flags' = Without(flag)
  /\ reg' = {}
  /\ Goto(next)
  /\ seen' = IF flag = "1S" THEN [seen EXCEPT !.seconds = @ + 1] ELSE seen
  /\ UNCHANGED <<now, matched, _micros, _micros_ctr, _millis, mscounter, display_vars, lag,
                 half, delay, tmp, laser_vars>>

Redraw ==
  /\ pc = "lcd"
  /\ IF job = "show" THEN Draw(Shown(seen.drawn)) ELSE UNCHANGED display_vars
  /\ seen' = [seen EXCEPT !.drawn = IF job = "show" THEN (@ + 1) % Len(Tour) ELSE @ + 1]
  /\ Goto(Caller)
  /\ UNCHANGED <<clock_vars, lag, reg, half, delay, tmp, laser_vars>>

idle ==
  \/ StartIdle
  \/ Test("1S", "100MS") \/ Read("1S") \/ Clear("1S", "100MS")
  \/ Test("100MS", Caller) \/ Read("100MS") \/ Clear("100MS", "lcd")
  \/ Redraw
-----------------------------------------------------------------------------
(* G4.  millis() is read in two parts, the interrupt may come in between.  *)
FirstHalf == IF lowFirst THEN _millis % ByteW ELSE _millis \div ByteW
HalfRead(l) ==
  CASE l = "start" -> "start_half" [] l = "compare" -> "compare_half" [] l = "again" -> "again_half"
Joined == IF lowFirst THEN half + ByteW * (_millis \div ByteW) ELSE ByteW * half + (_millis % ByteW)

StartWait ==
  /\ pc = "loop" /\ job = "wait" /\ now <= MaxStart
  /\ delay' \in Waits
  /\ job' = "none" /\ pc' = "start"
  /\ seen' = [seen EXCEPT !.start = _millis, !.waited = delay']
  /\ UNCHANGED <<clock_vars, display_vars, lag, reg, half, lowFirst, tmp, laser_vars>>

BeginMillis(l) ==
  /\ pc = l
  /\ half' = FirstHalf
  /\ Goto(HalfRead(l))
  /\ UNCHANGED <<clock_vars, display_vars, lag, reg, delay, tmp, laser_vars, seen>>

StartTmp ==
  /\ pc = "start_half"
  /\ tmp' = Joined /\ half' = 0
  /\ Goto("dwell")
  /\ UNCHANGED <<clock_vars, display_vars, lag, reg, delay, laser_vars, seen>>

(* Mutant of Compare: the time taken anew before it is compared. *)
CompareAfresh ==
  /\ pc = "compare_half"
  /\ tmp' = Joined /\ half' = 0
  /\ Goto("dwell")
  /\ UNCHANGED <<clock_vars, display_vars, lag, reg, delay, laser_vars, seen>>

Compare ==
  /\ pc = "compare_half"
  /\ half' = 0
  /\ Goto(IF tmp # Joined THEN "again" ELSE "dwell")
  /\ UNCHANGED <<clock_vars, display_vars, lag, reg, delay, tmp, laser_vars, seen>>

(* Mutant of Passed: all the milliseconds since the last look counted. *)
PassedSince ==
  CASE Joined <= tmp -> 1
    [] Joined > tmp -> IF Joined - tmp < delay THEN Joined - tmp ELSE delay

(* What one change of millis() takes off the wait. *)
Passed == 1

Again ==
  /\ pc = "again_half"
  /\ half' = 0 /\ delay' = delay - Passed
  /\ IF delay' > 0 THEN Goto("dwell") /\ tmp' = Joined /\ UNCHANGED seen
     ELSE Goto("loop") /\ tmp' = 0 /\ seen' = [seen EXCEPT !.start = 0, !.waited = 0]
  /\ UNCHANGED <<clock_vars, display_vars, lag, reg, laser_vars>>

G4 ==
  \/ StartWait \/ StartTmp \/ Compare \/ Again
  \/ \E l \in {"start", "compare", "again"} : BeginMillis(l)
-----------------------------------------------------------------------------
(* A single pulse (P): main lights the laser, starts timer 3 and waits.    *)
(* laser_fire takes the time with interrupts off, in main's critical       *)
(* section or within the interrupt that calls it.  In main interrupts are  *)
(* on again before the flag and the pin are set, which is one step: the    *)
(* clock's interrupt looks at neither.                                     *)
BeginFire(what) == fire' = [what |-> what, m |-> 0, held |-> 0]

P ==
  /\ pc = "loop" /\ job = "pulse" /\ ~Firing
  /\ pc' = "pulse" /\ lag' = 0 /\ BeginFire("on")
  /\ UNCHANGED <<clock_vars, display_vars, job, reg, half, lowFirst, delay, tmp,
                 laser, timer3, seen>>

ReadTimer ==
  /\ fire.what \in {"on", "off"}
  /\ fire' = [fire EXCEPT !.what = IF @ = "on" THEN "on_half" ELSE "off_half", !.m = TimerMicros]
  /\ UNCHANGED <<clock_vars, display_vars, main_vars, laser, timer3, seen>>

TakeTime ==
  /\ fire.what = "on_half"
  /\ fire' = [fire EXCEPT !.what = "on_value", !.m = micros(@)]
  /\ UNCHANGED <<clock_vars, display_vars, main_vars, laser, timer3, seen>>

LightUp ==
  /\ fire.what = "on_value"
  /\ laser' = [laser EXCEPT !.last_firing = fire.m, !.is_on = TRUE]
  /\ fire' = Free
  /\ seen' = [seen EXCEPT !.lit = now]
  /\ UNCHANGED <<clock_vars, display_vars, main_vars, timer3>>

GoDark ==
  /\ BeginFire("off")
  /\ laser' = [laser EXCEPT !.is_on = FALSE]
  /\ seen' = [seen EXCEPT !.lit = now - @]

(* A pulse that is too long is not lit; one of no length never ends, and is *)
(* left out of Durations.                                                  *)
laser_start_pulse_timer ==
  /\ pc = "pulse" /\ laser.is_on /\ ~timer3 /\ ~Firing
  /\ \E d \in Durations :
       /\ timer3' = Lasts(d)
       /\ IF Timer(d).prescale > 0 THEN UNCHANGED <<fire, laser, seen>> ELSE GoDark
  /\ UNCHANGED <<clock_vars, display_vars, main_vars>>

TIMER3_COMPA_vect ==
  /\ InterruptsOn /\ timer3
  /\ timer3' = FALSE
  /\ GoDark
  /\ UNCHANGED <<clock_vars, display_vars, main_vars>>

laser_add_time(l, us) ==
  LET sum == (l.us + us) % W
      ms == l.ms + sum \div MilliW
  IN [l EXCEPT !.us = sum % MilliW, !.ms = ms % MinuteW,
               !.min = (@ + ms \div MinuteW) % MinW]

(* Mutant of Lasted: nothing counted when micros() has wrapped. *)
LastedUnwrapped ==
  IF micros(fire.m) < laser.last_firing THEN 0 ELSE micros(fire.m) - laser.last_firing

Lasted == (micros(fire.m) - laser.last_firing) % W

Measure ==
  /\ fire.what = "off_half"
  /\ laser' = laser_add_time(laser, Lasted)
  /\ fire' = Free
  /\ seen' = [seen EXCEPT !.lit = 0]
  /\ UNCHANGED <<clock_vars, display_vars, main_vars, timer3>>

(* P may return when the laser is off (gcode.c:715): nobody says it does,  *)
(* since a build may read the flag only once, before the loop.             *)
PulseOver ==
  /\ pc = "pulse" /\ ~Firing /\ ~laser.is_on
  /\ pc' = "loop"
  /\ UNCHANGED <<clock_vars, display_vars, job, lag, reg, half, lowFirst, delay, tmp, laser_vars, seen>>

Pulses ==
  \/ P \/ ReadTimer \/ TakeTime \/ LightUp \/ laser_start_pulse_timer
  \/ TIMER3_COMPA_vect \/ Measure \/ PulseOver
-----------------------------------------------------------------------------
Main == Boot \/ idle \/ G4
Next == Main \/ Pulses \/ Tick \/ Interrupt

Spec == IdleInit /\ [][Next]_vars

(* Main runs, time passes and interrupts are served.  Nothing is promised  *)
(* of the display alone.                                                   *)
FairSpec ==
  Spec /\ WF_vars(job # "show" /\ Main) /\ WF_vars(Tick) /\ WF_vars(Interrupt)
-----------------------------------------------------------------------------
(* The time the laser was on grows only by what is measured, and a pulse   *)
(* that lasts a round of the timer or more is measured within one round,   *)
(* over any wrap of micros(), which may be a round behind when its         *)
(* interrupt waits (time.c:12-19).  A shorter pulse may seem to end before *)
(* it began: laser_add_time then adds 71 minutes.  A pulse so long that    *)
(* its microseconds and the rest of the last millisecond do not fit W      *)
(* wraps there (laser.c:222-225) and is left out.                          *)
Total(l) == (l.min * MinuteW + l.ms) * MilliW + l.us
Grown == (Total(laser') - Total(laser)) % (MinW * MinuteW * MilliW)
LasingMeasured ==
  [][IF fire.what = "off_half" /\ fire'.what = "none"
     THEN seen.lit \in Period .. 2 * W - 3 * Period - 2 * MilliW =>
            2 * Grown - seen.lit \in -(Period + 1) .. Period + 1 + 2 * MaxHold
     ELSE Grown = 0]_vars

(* A flag set and not yet served; how many milliseconds a level takes.     *)
InFlight(flag, at) == IF flag \in time_flags \/ pc \in at THEN 1 ELSE 0
Every[k \in 0 .. Len(Levels)] == IF k = 0 THEN 1 ELSE Radix[k] * Every[k - 1]
LevelOf(flag) == CHOOSE k \in 1 .. Len(Levels) : Levels[k] = flag

(* The real clock: a flag of its own for each level (time.h:19-26), the    *)
(* tenths of a second before the seconds.  Main comes to idle() often      *)
(* enough to pass it twice while a tenth of a second lasts.                *)
ASSUME FlagsAssumption ==
  /\ \E j, k \in 1 .. Len(Levels) : j < k /\ Levels[j] = "100MS" /\ Levels[k] = "1S"
  /\ \A j, k \in 1 .. Len(Levels) : Levels[j] = Levels[k] => j = k
  /\ 2 * MaxLag + Period <= Period * (PerMilli * Every[LevelOf("100MS")])

(* Every second and every tenth of a second is served once: no flag is     *)
(* lost between the handler that sets it and idle(), which clears another  *)
(* one in the same byte, as long as main comes round in time.              *)
FlagsServed ==
  job \notin {"show", "pulse"} =>
    /\ seen.seconds + InFlight("1S", {}) = _millis \div Every[LevelOf("1S")]
    /\ seen.drawn + InFlight("100MS", {"lcd"}) = _millis \div Every[LevelOf("100MS")]

(* When G4 is over, as many milliseconds have begun as it was to wait,     *)
(* whatever the interrupt does to _millis between the reads of its parts:  *)
(* a torn value may be counted as a change, but each change counted is one *)
(* that came after the last (gcode.c:323-329).                             *)
WaitsLongEnough ==
  [][delay > 0 /\ delay' = 0 => _millis - seen.start >= seen.waited]_vars

(* The screen tells what it was drawn from, as long as the numbers of Y    *)
(* and Z have at most six characters: longer lines run over the start of   *)
(* the lines of X and of the time.                                         *)
NumberAt(screen, a) ==
  LET sign == IF screen[a] = 45 THEN 1 ELSE 0
      from == a + sign
      size == CHOOSE n \in 1 .. 20 : /\ screen[from + n] = Blank
                                     /\ \A k \in 1 .. n - 1 : screen[from + k] # Blank
      read[n \in 0 .. size] ==
        IF n = 0 THEN 0
        ELSE IF screen[from + n - 1] = 46 THEN read[n - 1]
        ELSE 10 * read[n - 1] + screen[from + n - 1] - 48
  IN IF sign = 1 THEN -read[size] ELSE read[size]
Starts(screen, a, text) == \A i \in 1 .. Len(text) : screen[a + i - 1] = text[i]
Tells(screen, v) ==
  /\ Starts(screen, 0, <<v.mark>> \o Queue) /\ NumberAt(screen, 8) = v.queue
  /\ Starts(screen, 64, <<88, 58>>) /\ NumberAt(screen, 66) = v.x
  /\ Starts(screen, 20, <<89, 58>>) /\ NumberAt(screen, 22) = v.y
  /\ Starts(screen, 84, <<90, 58>>) /\ NumberAt(screen, 86) = v.z
  /\ Starts(screen, 74, IF v.mode = 0 THEN LaserOff ELSE LaserOn)
Narrow(v) == Len(_N(v.y)) <= 6 /\ Len(_N(v.z)) <= 6
ScreenTells ==
  [][pc = "lcd" /\ job = "show" /\ Narrow(Shown(seen.drawn)) =>
       Tells(chip'.text, Shown(seen.drawn))]_vars

(* A wait ends: each pass through idle() is shorter than a millisecond or  *)
(* not, a change of millis() is seen (gcode.c:324-329).                    *)
WaitEnds == pc = "start" ~> delay = 0
=============================================================================
