----------------------------- MODULE IdleProofs ------------------------------
(***************************************************************************)
(* Proofs about the clock and those who read it while its interrupt        *)
(* changes it: G4, which reads the milliseconds in two parts; the laser,   *)
(* which reads the microseconds while the timer may already have wrapped;  *)
(* idle(), which clears flags in the byte where the interrupt sets others. *)
(***************************************************************************)
EXTENDS Idle, WellFoundedInduction, TLAPS

(* What the two parts of millis() are, read at n, and at a and then b. *)
First(low, n) == IF low THEN n % ByteW ELSE n \div ByteW
Torn(low, a, b) ==
  IF low THEN (a % ByteW) + ByteW * (b \div ByteW) ELSE ByteW * (a \div ByteW) + (b % ByteW)

Happened == [seconds : Nat, drawn : Nat, lit : Int, start : Nat, waited : Nat]

WaitTypes ==
  /\ now \in Int /\ _millis \in Nat /\ delay \in Nat /\ lowFirst \in BOOLEAN
  /\ seen \in Happened

(* Main has looked at n or before, and counted no more than it has seen    *)
(* begin by then.                                                          *)
Counted(low, n, s, w, d, t) ==
  \E a, b \in Nat : /\ s <= a /\ a <= b /\ b <= n
                    /\ t = Torn(low, a, b) /\ w - d <= a - s

(* It is about to look again. *)
Looking(low, n, s, w, d, t, h) ==
  \E a, b, c \in Nat : /\ s <= a /\ a <= b /\ b <= c /\ c <= n
                       /\ t = Torn(low, a, b) /\ w - d <= a - s /\ h = First(low, c)

(* It has seen a change, and another one had begun by then. *)
Changed(n, s, w, d) == s <= n /\ w - d + 1 <= n - s
Storing(low, n, s, w, d, h) ==
  \E e \in Nat : s <= e /\ e <= n /\ h = First(low, e) /\ w - d + 1 <= e - s

Starting(low, n, s, h) == \E a \in Nat : s <= a /\ a <= n /\ h = First(low, a)

Reads == {"start", "start_half", "compare_half", "again", "again_half"}

WaitInv ==
  /\ WaitTypes
  /\ pc = "start" => delay = seen.waited /\ seen.start <= _millis
  /\ pc = "start_half" => delay = seen.waited /\ Starting(lowFirst, _millis, seen.start, half)
  /\ pc = "compare" => delay > 0
  /\ pc \in {"loop", "pulse"} => delay = 0
  /\ delay > 0 /\ pc \notin Reads =>
       Counted(lowFirst, _millis, seen.start, seen.waited, delay, tmp)
  /\ pc = "compare_half" =>
       delay > 0 /\ Looking(lowFirst, _millis, seen.start, seen.waited, delay, tmp, half)
  /\ pc = "again" => delay > 0 /\ Changed(_millis, seen.start, seen.waited, delay)
  /\ pc = "again_half" =>
       delay > 0 /\ Storing(lowFirst, _millis, seen.start, seen.waited, delay, half)
-----------------------------------------------------------------------------
(* All of it stays true while milliseconds begin. *)
LEMMA Later ==
  ASSUME NEW low, NEW n \in Nat, NEW o \in Nat, n <= o, NEW s \in Nat, NEW w \in Nat,
         NEW d \in Nat, NEW t, NEW h
  PROVE  /\ Counted(low, n, s, w, d, t) => Counted(low, o, s, w, d, t)
         /\ Looking(low, n, s, w, d, t, h) => Looking(low, o, s, w, d, t, h)
         /\ Changed(n, s, w, d) => Changed(o, s, w, d)
         /\ Storing(low, n, s, w, d, h) => Storing(low, o, s, w, d, h)
         /\ Starting(low, n, s, h) => Starting(low, o, s, h)
<1>1. \A a \in Nat : a <= n => a <= o
  OBVIOUS
<1>2. Counted(low, n, s, w, d, t) => Counted(low, o, s, w, d, t)
  BY <1>1 DEF Counted
<1>3. Looking(low, n, s, w, d, t, h) => Looking(low, o, s, w, d, t, h)
  BY <1>1 DEF Looking
<1>4. Changed(n, s, w, d) => Changed(o, s, w, d)
  BY DEF Changed
<1>5. Storing(low, n, s, w, d, h) => Storing(low, o, s, w, d, h)
  BY <1>1 DEF Storing
<1>6. Starting(low, n, s, h) => Starting(low, o, s, h)
  BY <1>1 DEF Starting
<1> QED BY <1>2, <1>3, <1>4, <1>5, <1>6

(* A step of anything but G4. *)
Elsewhere ==
  /\ now' \in Int
  /\ UNCHANGED <<delay, tmp, half, lowFirst>>
  /\ _millis' \in {_millis, _millis + 1}
  /\ seen' \in Happened /\ seen'.start = seen.start /\ seen'.waited = seen.waited
  /\ \/ pc' = pc
     \/ /\ pc \notin Reads \cup {"compare"} /\ pc' \notin Reads
        /\ pc' = "compare" => delay > 0
        /\ pc' \in {"loop", "pulse"} => delay = 0

LEMMA ElsewhereStep == WaitInv /\ Elsewhere => WaitInv'
<1> SUFFICES ASSUME WaitInv, Elsewhere PROVE WaitInv'
  OBVIOUS
<1> USE DEF WaitInv, WaitTypes
<1>1. WaitTypes'
  BY DEF Elsewhere
<1>2. /\ _millis \in Nat /\ _millis' \in Nat /\ _millis <= _millis'
      /\ seen.start \in Nat /\ seen.waited \in Nat /\ delay \in Nat
      /\ delay' = delay /\ tmp' = tmp /\ half' = half /\ lowFirst' = lowFirst
      /\ seen'.start = seen.start /\ seen'.waited = seen.waited
  BY DEF Elsewhere, Happened
<1> DEFINE low == lowFirst  n == _millis  o == _millis'  s == seen.start  w == seen.waited
<1>3. /\ Counted(low, n, s, w, delay, tmp) => Counted(low, o, s, w, delay, tmp)
      /\ Looking(low, n, s, w, delay, tmp, half) => Looking(low, o, s, w, delay, tmp, half)
      /\ Changed(n, s, w, delay) => Changed(o, s, w, delay)
      /\ Storing(low, n, s, w, delay, half) => Storing(low, o, s, w, delay, half)
      /\ Starting(low, n, s, half) => Starting(low, o, s, half)
  BY <1>2, Later
<1>4. CASE pc' = pc
  BY <1>1, <1>2, <1>3, <1>4
<1>5. CASE /\ pc \notin Reads \cup {"compare"} /\ pc' \notin Reads
           /\ pc' = "compare" => delay > 0
           /\ pc' \in {"loop", "pulse"} => delay = 0
  BY <1>1, <1>2, <1>3, <1>5 DEF Reads
<1> QED BY <1>4, <1>5 DEF Elsewhere

(* What main stores is put together of what it reads. *)
LEMMA Joining ==
  ASSUME lowFirst \in BOOLEAN, NEW a, half = First(lowFirst, a)
  PROVE  Joined = Torn(lowFirst, a, _millis) /\ FirstHalf = First(lowFirst, _millis)
  BY DEF Joined, First, Torn, FirstHalf

LEMMA FirstHalfNow ==
  ASSUME lowFirst \in BOOLEAN PROVE FirstHalf = First(lowFirst, _millis)
  BY DEF First, FirstHalf

LEMMA SeenUpdates ==
  ASSUME NEW r \in Happened, NEW n \in Nat, NEW i \in Int
  PROVE  /\ [r EXCEPT !.seconds = n] \in Happened /\ [r EXCEPT !.drawn = n] \in Happened
         /\ [r EXCEPT !.lit = i] \in Happened
         /\ [r EXCEPT !.seconds = n].start = r.start /\ [r EXCEPT !.seconds = n].waited = r.waited
         /\ [r EXCEPT !.drawn = n].start = r.start /\ [r EXCEPT !.drawn = n].waited = r.waited
         /\ [r EXCEPT !.lit = i].start = r.start /\ [r EXCEPT !.lit = i].waited = r.waited
  BY DEF Happened

LEMMA ReadingLabels ==
  ASSUME NEW flag
  PROVE  Reading(flag) \notin Reads \cup {"compare"} /\ Clearing(flag) \notin Reads \cup {"compare"}
         /\ Reading(flag) \notin {"loop", "pulse"} /\ Clearing(flag) \notin {"loop", "pulse"}
  BY DEF Reading, Clearing, Reads

LEMMA idleElsewhere == WaitInv /\ idle => Elsewhere
<1> SUFFICES ASSUME WaitInv, idle PROVE Elsewhere
  OBVIOUS
<1>t. seen \in Happened /\ now \in Int
  BY DEF WaitInv, WaitTypes
<1>d. delay \in Nat
  BY DEF WaitInv, WaitTypes
<1>c. /\ Caller \notin Reads /\ (Caller = "compare" => delay > 0)
      /\ Caller # "pulse" /\ (Caller = "loop" => delay = 0)
  BY <1>d DEF Caller, Reads
<1> USE <1>t, <1>c DEF Elsewhere, Goto, clock_vars, laser_vars
<1>1. CASE StartIdle
  BY <1>1 DEF StartIdle, Reads
<1>2. CASE Test("1S", "100MS")
  BY <1>2, ReadingLabels DEF Test, Reads
<1>3. CASE Test("100MS", Caller)
  BY <1>3, ReadingLabels DEF Test, Reads
<1>4. CASE Read("1S") \/ Read("100MS")
  BY <1>4, ReadingLabels DEF Read
<1>5. CASE Clear("1S", "100MS")
  <2>1. /\ pc = Clearing("1S") /\ pc' = "100MS" /\ seen' = [seen EXCEPT !.seconds = @ + 1]
        /\ UNCHANGED <<delay, tmp, half, lowFirst, _millis, now>>
    BY <1>5 DEF Clear, Goto
  <2>2. seen' \in Happened /\ seen'.start = seen.start /\ seen'.waited = seen.waited
    <3>1. seen.seconds + 1 \in Nat
      BY DEF Happened
    <3>2. seen' = [seen EXCEPT !.seconds = seen.seconds + 1]
      BY <2>1
    <3> QED BY <3>1, <3>2, SeenUpdates
  <2>3. pc \notin Reads \cup {"compare"}
    BY <2>1, ReadingLabels
  <2>4. pc' \notin Reads /\ pc' \notin {"compare", "loop", "pulse"} /\ _millis' = _millis
    BY <2>1 DEF Reads
  <2> QED BY <2>1, <2>2, <2>3, <2>4
<1>6. CASE Clear("100MS", "lcd")
  BY <1>6, ReadingLabels DEF Clear, Reads
<1>7. CASE Redraw
  <2> DEFINE n == IF job = "show" THEN (seen.drawn + 1) % Len(Tour) ELSE seen.drawn + 1
  <2>1. /\ pc = "lcd" /\ pc' = Caller /\ seen' = [seen EXCEPT !.drawn = n]
        /\ UNCHANGED <<delay, tmp, half, lowFirst, _millis, now>>
    BY <1>7 DEF Redraw, Goto, clock_vars
  <2>2. n \in Nat
    BY IdleAssumption DEF IdleAssumption, Happened
  <2> HIDE DEF n
  <2>3. seen' \in Happened /\ seen'.start = seen.start /\ seen'.waited = seen.waited
    BY <2>1, <2>2, SeenUpdates
  <2>4. pc \notin Reads \cup {"compare"} /\ _millis' = _millis
    BY <2>1 DEF Reads
  <2> QED BY <2>1, <2>3, <2>4
<1> QED BY <1>1, <1>2, <1>3, <1>4, <1>5, <1>6, <1>7 DEF idle

LEMMA PulsesElsewhere == WaitInv /\ Pulses => Elsewhere
<1> SUFFICES ASSUME WaitInv, Pulses PROVE Elsewhere
  OBVIOUS
<1>t. seen \in Happened /\ now \in Int /\ seen.lit \in Int
  BY DEF WaitInv, WaitTypes, Happened
<1>d. GoDark => seen' \in Happened /\ seen'.start = seen.start /\ seen'.waited = seen.waited
  <2> SUFFICES ASSUME GoDark
               PROVE  seen' \in Happened /\ seen'.start = seen.start /\ seen'.waited = seen.waited
    OBVIOUS
  <2>1. seen' = [seen EXCEPT !.lit = now - seen.lit]
    BY DEF GoDark
  <2>2. now - seen.lit \in Int
    BY <1>t
  <2> QED BY <1>t, <2>1, <2>2, SeenUpdates
<1> USE <1>t DEF Elsewhere, main_vars, clock_vars
<1>1. CASE P
  BY <1>1 DEF P, Reads, WaitInv
<1>2. CASE ReadTimer \/ TakeTime
  BY <1>2 DEF ReadTimer, TakeTime
<1>3. CASE LightUp
  BY <1>3, SeenUpdates DEF LightUp
<1>4. CASE laser_start_pulse_timer
  BY <1>4, <1>d DEF laser_start_pulse_timer
<1>5. CASE TIMER3_COMPA_vect
  BY <1>5, <1>d DEF TIMER3_COMPA_vect
<1>6. CASE Measure
  <2>1. /\ seen' = [seen EXCEPT !.lit = 0] /\ pc' = pc
        /\ UNCHANGED <<now, _millis, delay, tmp, half, lowFirst>>
    BY <1>6 DEF Measure
  <2>2. seen' \in Happened /\ seen'.start = seen.start /\ seen'.waited = seen.waited
    BY <1>t, <2>1 DEF Happened
  <2> QED BY <2>1, <2>2
<1>7. CASE PulseOver
  BY <1>7 DEF PulseOver, Reads, WaitInv
<1> QED BY <1>1, <1>2, <1>3, <1>4, <1>5, <1>6, <1>7 DEF Pulses

LEMMA ClockElsewhere == WaitInv /\ (Boot \/ Tick \/ Interrupt) => Elsewhere
<1> SUFFICES ASSUME WaitInv, Boot \/ Tick \/ Interrupt PROVE Elsewhere
  OBVIOUS
<1>t. seen \in Happened /\ now \in Int
  BY DEF WaitInv, WaitTypes
<1> USE <1>t DEF Elsewhere, main_vars, clock_vars, laser_vars
<1>1. CASE Boot
  BY <1>1 DEF Boot, Reads
<1>2. CASE Tick
  BY <1>2 DEF Tick, Count
<1>3. CASE Interrupt
  BY <1>3 DEF Interrupt, TIMER0_COMPA_vect, Milli
<1> QED BY <1>1, <1>2, <1>3

LEMMA G4Waits == WaitInv /\ G4 => WaitInv'
<1> SUFFICES ASSUME WaitInv, G4 PROVE WaitInv'
  OBVIOUS
<1>t. /\ seen \in Happened /\ now \in Int /\ _millis \in Nat /\ lowFirst \in BOOLEAN
      /\ seen.start \in Nat /\ seen.waited \in Nat /\ delay \in Nat
  BY DEF WaitInv, WaitTypes, Happened
<1> DEFINE low == lowFirst  n == _millis  s == seen.start  w == seen.waited
<1>1. CASE StartWait
  <2>1. /\ pc' = "start" /\ delay' \in Nat /\ seen' = [seen EXCEPT !.start = _millis, !.waited = delay']
        /\ UNCHANGED <<now, _millis, lowFirst, tmp, half>>
    BY <1>1, IdleAssumption DEF StartWait, clock_vars, IdleAssumption
  <2>2. seen' \in Happened /\ seen'.start = _millis /\ seen'.waited = delay'
    BY <1>t, <2>1 DEF Happened
  <2> QED BY <1>t, <2>1, <2>2 DEF WaitInv, WaitTypes, Reads
<1>2. CASE BeginMillis("start")
  <2>1. /\ pc = "start" /\ pc' = "start_half" /\ half' = FirstHalf
        /\ UNCHANGED <<now, _millis, lowFirst, tmp, delay, seen>>
    BY <1>2 DEF BeginMillis, Goto, HalfRead, clock_vars
  <2>2. delay = w /\ s <= n
    BY <2>1 DEF WaitInv
  <2>3. Starting(low, n, s, half')
    BY <1>t, <2>1, <2>2, FirstHalfNow DEF Starting
  <2> QED BY <1>t, <2>1, <2>2, <2>3 DEF WaitInv, WaitTypes, Reads
<1>3. CASE StartTmp
  <2>1. /\ pc = "start_half" /\ pc' = "dwell" /\ tmp' = Joined
        /\ UNCHANGED <<now, _millis, lowFirst, delay, seen>>
    BY <1>3 DEF StartTmp, Goto, clock_vars
  <2>2. PICK a \in Nat : s <= a /\ a <= n /\ half = First(low, a)
    BY <2>1 DEF WaitInv, Starting
  <2>3. delay = w /\ tmp' = Torn(low, a, n)
    BY <1>t, <2>1, <2>2, Joining DEF WaitInv
  <2>4. Counted(low, n, s, w, delay, tmp')
    BY <1>t, <2>2, <2>3 DEF Counted
  <2> QED BY <1>t, <2>1, <2>4 DEF WaitInv, WaitTypes, Reads
<1>4. CASE BeginMillis("compare")
  <2>1. /\ pc = "compare" /\ pc' = "compare_half" /\ half' = FirstHalf
        /\ UNCHANGED <<now, _millis, lowFirst, tmp, delay, seen>>
    BY <1>4 DEF BeginMillis, Goto, HalfRead, clock_vars
  <2>2. delay > 0 /\ Counted(low, n, s, w, delay, tmp)
    BY <2>1 DEF WaitInv, Reads
  <2>3. Looking(low, n, s, w, delay, tmp, half')
    BY <1>t, <2>1, <2>2, FirstHalfNow DEF Counted, Looking
  <2> QED BY <1>t, <2>1, <2>2, <2>3 DEF WaitInv, WaitTypes, Reads
<1>5. CASE Compare
  <2>1. /\ pc = "compare_half" /\ pc' = IF tmp # Joined THEN "again" ELSE "dwell"
        /\ UNCHANGED <<now, _millis, lowFirst, tmp, delay, seen>>
    BY <1>5 DEF Compare, Goto, clock_vars
  <2>2. PICK a, b, c \in Nat : /\ s <= a /\ a <= b /\ b <= c /\ c <= n
                               /\ tmp = Torn(low, a, b) /\ w - delay <= a - s
                               /\ half = First(low, c)
    BY <2>1 DEF WaitInv, Looking
  <2>3. delay > 0 /\ Joined = Torn(low, c, n)
    BY <1>t, <2>1, <2>2, Joining DEF WaitInv
  <2>4. Counted(low, n, s, w, delay, tmp)
    BY <1>t, <2>2 DEF Counted
  <2>5. tmp # Joined => Changed(n, s, w, delay)
    <3>1. tmp # Joined => a # n
      <4> SUFFICES ASSUME a = n PROVE tmp = Joined
        OBVIOUS
      <4>1. b = n /\ c = n
        BY <1>t, <2>2
      <4> QED BY <2>2, <2>3, <4>1
    <3>2. a # n => s <= n /\ w - delay + 1 <= n - s
      BY <1>t, <2>2
    <3> QED BY <3>1, <3>2 DEF Changed
  <2> QED BY <1>t, <2>1, <2>3, <2>4, <2>5 DEF WaitInv, WaitTypes, Reads
<1>6. CASE BeginMillis("again")
  <2>1. /\ pc = "again" /\ pc' = "again_half" /\ half' = FirstHalf
        /\ UNCHANGED <<now, _millis, lowFirst, tmp, delay, seen>>
    BY <1>6 DEF BeginMillis, Goto, HalfRead, clock_vars
  <2>2. delay > 0 /\ Changed(n, s, w, delay)
    BY <2>1 DEF WaitInv
  <2>3. Storing(low, n, s, w, delay, half')
    BY <1>t, <2>1, <2>2, FirstHalfNow DEF Storing, Changed
  <2> QED BY <1>t, <2>1, <2>2, <2>3 DEF WaitInv, WaitTypes, Reads
<1>7. CASE Again
  <2>1. /\ pc = "again_half" /\ delay' = delay - 1
        /\ UNCHANGED <<now, _millis, lowFirst>>
        /\ IF delay' > 0 THEN pc' = "dwell" /\ tmp' = Joined /\ seen' = seen
           ELSE pc' = "loop" /\ seen' = [seen EXCEPT !.start = 0, !.waited = 0]
    BY <1>7 DEF Again, Goto, Passed, clock_vars
  <2>2. PICK e \in Nat : s <= e /\ e <= n /\ half = First(low, e) /\ w - delay + 1 <= e - s
    BY <2>1 DEF WaitInv, Storing
  <2>3. delay > 0 /\ Joined = Torn(low, e, n) /\ delay' \in Nat
    <3>1. delay > 0
      BY <2>1 DEF WaitInv
    <3>2. delay' \in Nat
      BY <1>t, <2>1, <3>1
    <3> QED BY <1>t, <2>2, <3>1, <3>2, Joining
  <2>4. CASE delay' > 0
    <3>0. delay' = delay - 1 /\ tmp' = Torn(low, e, n) /\ seen' = seen /\ pc' = "dwell"
      BY <2>1, <2>3, <2>4
    <3>2. Counted(low, n, s, w, delay', tmp')
      BY <1>t, <2>2, <3>0 DEF Counted
    <3> QED BY <1>t, <2>1, <2>3, <2>4, <3>2 DEF WaitInv, WaitTypes, Reads
  <2>5. CASE ~(delay' > 0)
    <3>0. seen' = [seen EXCEPT !.start = 0, !.waited = 0] /\ pc' = "loop"
      BY <2>1, <2>5
    <3>2. delay' = 0
      BY <2>3, <2>5
    <3>1. seen' \in Happened
      BY <1>t, <3>0 DEF Happened
    <3> QED BY <1>t, <2>1, <2>3, <2>5, <3>0, <3>1, <3>2 DEF WaitInv, WaitTypes, Reads
  <2> QED BY <2>4, <2>5
<1> QED BY <1>1, <1>2, <1>3, <1>4, <1>5, <1>6, <1>7 DEF G4

LEMMA InitWaits == IdleInit => WaitInv
<1> SUFFICES ASSUME IdleInit PROVE WaitInv
  OBVIOUS
<1>1. /\ now = 0 /\ _millis = 0 /\ delay = 0 /\ lowFirst \in BOOLEAN
      /\ pc \in {"boot", "loop"}
  BY DEF IdleInit, ClockInit
<1>2. seen \in Happened
  BY DEF IdleInit, Happened
<1> QED BY <1>1, <1>2 DEF WaitInv, WaitTypes, Reads

LEMMA NextWaits == WaitInv /\ [Next]_vars => WaitInv'
<1> SUFFICES ASSUME WaitInv, [Next]_vars PROVE WaitInv'
  OBVIOUS
<1>1. CASE Boot \/ Tick \/ Interrupt
  BY <1>1, ClockElsewhere, ElsewhereStep
<1>2. CASE idle
  BY <1>2, idleElsewhere, ElsewhereStep
<1>3. CASE Pulses
  BY <1>3, PulsesElsewhere, ElsewhereStep
<1>4. CASE G4
  BY <1>4, G4Waits
<1>5. CASE UNCHANGED vars
  BY <1>5 DEF vars, clock_vars, main_vars, laser_vars, WaitInv, WaitTypes
<1> QED BY <1>1, <1>2, <1>3, <1>4, <1>5 DEF Next, Main

LEMMA WaitOver ==
  WaitInv /\ [Next]_vars => (delay > 0 /\ delay' = 0 => _millis - seen.start >= seen.waited)
<1> SUFFICES ASSUME WaitInv, [Next]_vars, delay > 0, delay' = 0
             PROVE  _millis - seen.start >= seen.waited
  OBVIOUS
<1>t. _millis \in Nat /\ seen.start \in Nat /\ seen.waited \in Nat /\ delay \in Nat
  BY DEF WaitInv, WaitTypes, Happened
<1>1. ~Elsewhere /\ ~UNCHANGED vars
  BY <1>t DEF Elsewhere, vars, main_vars
<1>2. G4
  BY <1>1, ClockElsewhere, idleElsewhere, PulsesElsewhere DEF Next, Main
<1>3. StartWait \/ Again
  BY <1>t, <1>2 DEF G4, StartTmp, Compare, BeginMillis
<1>4. CASE StartWait
  BY <1>4 DEF StartWait, WaitInv
<1>5. CASE Again
  <2>1. pc = "again_half" /\ delay' = delay - 1
    BY <1>5 DEF Again, Passed
  <2>2. PICK e \in Nat : e <= _millis /\ seen.waited - delay + 1 <= e - seen.start
    BY <2>1 DEF WaitInv, Storing
  <2> QED BY <1>t, <2>1, <2>2
<1> QED BY <1>3, <1>4, <1>5

(* G4 waits as long as it was told, however the interrupt that counts the  *)
(* milliseconds comes between the reads of their parts.                    *)
THEOREM WaitsInFull == Spec => WaitsLongEnough
<1>1. Spec => []WaitInv
  BY InitWaits, NextWaits, PTL DEF Spec
<1>2. WaitInv /\ [Next]_vars =>
        [delay > 0 /\ delay' = 0 => _millis - seen.start >= seen.waited]_vars
  BY WaitOver
<1> QED BY <1>1, <1>2, PTL DEF Spec, WaitsLongEnough
-----------------------------------------------------------------------------
LEMMA Divided == ASSUME NEW k \in Nat \ {0}, NEW n \in Int
  PROVE n \div k \in Int /\ n % k \in 0 .. k - 1 /\ n = k * (n \div k) + (n % k)
OBVIOUS

LEMMA NoMultiple == ASSUME NEW k \in Nat \ {0}, NEW q \in Int, q * k < k, q * k > -k PROVE q = 0
<1>1. q >= 1 => q * k >= k
  OBVIOUS
<1>2. q <= -1 => q * k <= -k
  OBVIOUS
<1> QED BY <1>1, <1>2

LEMMA Remainder ==
  ASSUME NEW k \in Nat \ {0}, NEW n \in Int, NEW q \in Int, NEW r \in 0 .. k - 1, n = q * k + r
  PROVE  n % k = r
<1>1. n \div k \in Int /\ n % k \in 0 .. k - 1 /\ n = k * (n \div k) + (n % k)
  BY Divided
<1> DEFINE p == n \div k  s == n % k
<1> HIDE DEF p, s
<1>2. p \in Int /\ s \in 0 .. k - 1 /\ n = k * p + s
  BY <1>1 DEF p, s
<1>3. (q - p) * k = s - r
  <2>1. (q - p) * k = q * k - p * k /\ p * k = k * p
    BY <1>2
  <2> QED BY <2>1, <1>2
<1>4. q - p = 0
  BY <1>2, <1>3, NoMultiple
<1>5. s = r
  BY <1>2, <1>3, <1>4
<1> QED BY <1>5 DEF s

LEMMA RemainderOfSum ==
  ASSUME NEW k \in Nat \ {0}, NEW a \in Int, NEW b \in Int
  PROVE  ((a % k) + b) % k = (a + b) % k
<1> DEFINE p == a \div k  s == a % k  q == (s + b) \div k  r == (s + b) % k
<1>1. p \in Int /\ s \in 0 .. k - 1 /\ a = k * p + s
  BY Divided
<1> HIDE DEF p, s
<1>2. q \in Int /\ r \in 0 .. k - 1 /\ s + b = k * q + r
  BY <1>1, Divided
<1> HIDE DEF q, r
<1>3. (p + q) * k = k * p + k * q
  BY <1>1, <1>2
<1>4. a + b = (p + q) * k + r /\ p + q \in Int /\ a + b \in Int
  BY <1>1, <1>2, <1>3
<1>5. (a + b) % k = r
  BY <1>2, <1>4, Remainder
<1> QED BY <1>5 DEF r, s

LEMMA RemainderOfDifference ==
  ASSUME NEW k \in Nat \ {0}, NEW a \in Int, NEW b \in Int
  PROVE  ((a % k) - (b % k)) % k = (a - b) % k
<1> DEFINE p == b \div k  s == b % k
<1>1. p \in Int /\ s \in 0 .. k - 1 /\ b = k * p + s
  BY Divided
<1> HIDE DEF p, s
<1>2. ((a % k) - s) % k = (a - s) % k
  <2>1. ((a % k) + (-s)) % k = (a + (-s)) % k
    <3>1. -s \in Int
      BY <1>1
    <3> QED BY <3>1, RemainderOfSum
  <2>2. a % k \in Int
    BY Divided
  <2> QED BY <1>1, <2>1, <2>2
<1> DEFINE q == (a - b) \div k  r == (a - b) % k
<1>3. q \in Int /\ r \in 0 .. k - 1 /\ a - b = k * q + r
  <2>1. a - b \in Int
    OBVIOUS
  <2> HIDE DEF p, s
  <2> QED BY <2>1, Divided
<1> HIDE DEF q, r
<1>4. a - s = (q + p) * k + r
  <2>1. (q + p) * k = k * q + k * p
    BY <1>1, <1>3
  <2> QED BY <1>1, <1>3, <2>1
<1>5. (a - s) % k = r
  BY <1>1, <1>3, <1>4, Remainder
<1> QED BY <1>2, <1>5 DEF r, s
-----------------------------------------------------------------------------
(* The rounds of the timer that its interrupt has counted. *)
HalfRound == Period \div 2
Behind == IF matched THEN 1 ELSE 0

ClockInv ==
  /\ now \in Nat /\ matched \in BOOLEAN
  /\ _micros = ((now \div Period - Behind) * HalfRound) % W

(* v is what micros() makes of a look at the timer at n or at most h       *)
(* before; it may be a round behind.                                       *)
Sampled(v, n, h) ==
  \E t \in Nat, d \in {0, 1} : n - h <= t /\ t <= n /\ v = (t \div 2 - d * HalfRound) % W

(* The laser, dark since n, was lit for l, and v is when. *)
WasLit(n, l, v) == \E o \in Nat : o <= n /\ l = n - o /\ Sampled(v, o, MaxHold)

Lasers == [is_on : BOOLEAN, last_firing : Int, us : 0 .. MilliW - 1, ms : Nat, min : Nat]
Fires == [what : {"none", "on", "on_half", "on_value", "off", "off_half"}, m : Int, held : Nat]

LaserTypes ==
  /\ laser \in Lasers /\ timer3 \in BOOLEAN /\ fire \in Fires
  /\ fire.held <= MaxHold

Lighting ==
  /\ fire.what # "none" \/ laser.is_on => pc = "pulse"
  /\ timer3 => laser.is_on /\ fire.what = "none"
  /\ fire.what = "none" /\ laser.is_on =>
       seen.lit \in Nat /\ seen.lit <= now /\ Sampled(laser.last_firing, seen.lit, MaxHold)
  /\ fire.what \in {"on_half", "off_half"} => Sampled(micros(fire.m), now, fire.held)
  /\ fire.what = "on_value" => Sampled(fire.m, now, fire.held)
  /\ fire.what \in {"off", "off_half"} =>
       ~laser.is_on /\ WasLit(now - fire.held, seen.lit, laser.last_firing)

LasingInv == ClockInv /\ LaserTypes /\ Lighting

LEMMA Rounds ==
  /\ Period \in Nat \ {0} /\ Period > 1 /\ HalfRound \in Nat /\ Period = 2 * HalfRound /\ HalfRound >= 1
  /\ W \in Nat \ {0} /\ MaxHold \in Nat /\ MaxHold < Period
<1>1. Period \in Nat /\ Period > 1 /\ Period % 2 = 0 /\ W \in Nat \ {0}
  BY ClockAssumption DEF ClockAssumption
<1>2. Period = 2 * (Period \div 2) /\ Period \div 2 \in Nat
  BY <1>1
<1> QED BY <1>1, <1>2, IdleAssumption, TimesAssumption DEF IdleAssumption, TimesAssumption, HalfRound

(* Half a count is lost, and no more, however the timer and its rounds are *)
(* put together.                                                           *)
LEMMA Together ==
  ASSUME NEW n \in Nat
  PROVE  /\ n \div Period \in Nat /\ n % Period \in 0 .. Period - 1
         /\ (n \div Period) * HalfRound + (n % Period) \div 2 = n \div 2
<1> DEFINE q == n \div Period  r == n % Period
<1>1. q \in Int /\ r \in 0 .. Period - 1 /\ n = Period * q + r
  <2>1. Period \in Nat \ {0} /\ n \in Int
    BY Rounds
  <2> QED BY <2>1, Divided
<1>2. q \in Nat
  <2> HIDE DEF q, r
  <2>1. q <= -1 => Period * q <= -Period
    BY <1>1, Rounds
  <2> QED BY <1>1, <2>1, Rounds
<1> HIDE DEF q, r
<1>3. Period * q = 2 * (q * HalfRound) /\ q * HalfRound \in Int
  BY <1>1, Rounds
<1> DEFINE p == q * HalfRound
<1> HIDE DEF p
<1>4. n = 2 * p + r /\ p \in Int /\ r \in Nat
  BY <1>1, <1>3, Rounds DEF p
<1>5. p + r \div 2 = n \div 2
  BY <1>4
<1> QED BY <1>1, <1>2, <1>5 DEF p, q, r

LEMMA SampleNow ==
  ASSUME ClockInv, NEW h \in Nat
  PROVE  TimerMicros \in Nat /\ Sampled(micros(TimerMicros), now, h)
<1> DEFINE q == now \div Period  m == TimerMicros  d == Behind
<1>1. now \in Nat /\ d \in {0, 1} /\ _micros = ((q - d) * HalfRound) % W
  BY DEF ClockInv, Behind
<1>2. q \in Nat /\ m \in Nat /\ q * HalfRound + m = now \div 2
  BY <1>1, Together, Rounds DEF TimerMicros, TCNT0
<1> HIDE DEF q, m, d
<1>3. (q - d) * HalfRound = q * HalfRound - d * HalfRound
  BY <1>1, <1>2, Rounds
<1>4. q * HalfRound \in Int /\ d * HalfRound \in Int
  BY <1>1, <1>2, Rounds
<1>5. (q - d) * HalfRound + m = now \div 2 - d * HalfRound /\ (q - d) * HalfRound \in Int
  BY <1>1, <1>2, <1>3, <1>4
<1>6. ((((q - d) * HalfRound) % W) + m) % W = ((q - d) * HalfRound + m) % W
  <2> DEFINE x == (q - d) * HalfRound
  <2>1. W \in Nat \ {0} /\ x \in Int /\ m \in Int
    BY <1>2, <1>5, Rounds
  <2> HIDE DEF x
  <2>2. ((x % W) + m) % W = (x + m) % W
    BY <2>1, RemainderOfSum
  <2> QED BY <2>2 DEF x
<1>7. _micros \in Int
  BY <1>1, <1>5, Rounds, Divided
<1>8. micros(m) = (_micros + m) % W
  BY <1>2, <1>7 DEF micros
<1>9. micros(m) = (now \div 2 - d * HalfRound) % W
  BY <1>1, <1>5, <1>6, <1>8
<1>10. Sampled(micros(m), now, h)
  BY <1>1, <1>9 DEF Sampled
<1> QED BY <1>2, <1>10 DEF m

LEMMA OneMore ==
  ASSUME NEW k \in Nat \ {0}, NEW n \in Nat
  PROVE  (n + 1) \div k = (n \div k) + (IF (n + 1) % k = 0 THEN 1 ELSE 0)
<1> DEFINE q == n \div k  r == n % k  u == (n + 1) \div k  v == (n + 1) % k
<1>1. q \in Int /\ r \in 0 .. k - 1 /\ n = k * q + r
  BY Divided
<1>2. u \in Int /\ v \in 0 .. k - 1 /\ n + 1 = k * u + v
  <2>1. n + 1 \in Int
    OBVIOUS
  <2> HIDE DEF q, r
  <2> QED BY <2>1, Divided
<1> HIDE DEF q, r, u, v
<1> DEFINE e == u - q
<1>e. e \in Int /\ u = q + e
  BY <1>1, <1>2
<1> HIDE DEF e
<1>3. k * (q + e) = k * q + e * k
  BY <1>1, <1>e
<1>4. e * k = r + 1 - v
  <2>1. k * q \in Int /\ e * k \in Int
    BY <1>1, <1>e
  <2> QED BY <1>1, <1>2, <1>3, <1>e, <2>1
<1>5. CASE v = 0
  <2>1. (e - 1) * k = e * k - k
    BY <1>e
  <2>2. e - 1 \in Int /\ (e - 1) * k < k /\ (e - 1) * k > -k
    BY <1>1, <1>4, <1>5, <1>e, <2>1
  <2>3. e - 1 = 0
    BY <2>2, NoMultiple
  <2> QED BY <1>1, <1>2, <1>5, <1>e, <2>3 DEF u, v, q
<1>6. CASE v # 0
  <2>1. e = 0
    BY <1>1, <1>2, <1>4, <1>6, <1>e, NoMultiple
  <2> QED BY <1>1, <1>2, <1>6, <1>e, <2>1 DEF u, v, q
<1> QED BY <1>5, <1>6

LEMMA CountClock == ASSUME ClockInv, Count PROVE ClockInv' /\ now' = now + 1 /\ _micros' = _micros
<1> DEFINE q == now \div Period
<1>1. /\ now \in Nat /\ matched \in BOOLEAN /\ _micros = ((q - Behind) * HalfRound) % W
      /\ now' = now + 1 /\ _micros' = _micros
      /\ ~(matched /\ (now + 1) % Period = 0)
      /\ matched' = (matched \/ (now + 1) % Period = 0)
  BY DEF ClockInv, Count
<1>2. q \in Nat /\ now' \div Period = q + (IF (now + 1) % Period = 0 THEN 1 ELSE 0)
  BY <1>1, Together, Rounds, OneMore
<1>3. matched' \in BOOLEAN
  BY <1>1
<1> HIDE DEF q
<1>4. now' \div Period - Behind' = q - Behind
  <2>1. Behind' = IF matched' THEN 1 ELSE 0
    BY DEF Behind
  <2>2. CASE (now + 1) % Period = 0
    <3>1. now' \div Period = q + 1 /\ Behind = 0 /\ Behind' = 1
      BY <1>1, <1>2, <2>1, <2>2 DEF Behind
    <3> QED BY <1>2, <3>1
  <2>3. CASE (now + 1) % Period # 0
    <3>1. now' \div Period = q + 0 /\ Behind' = Behind /\ Behind \in Int
      BY <1>1, <1>2, <2>1, <2>3 DEF Behind
    <3> QED BY <1>2, <3>1
  <2> QED BY <2>2, <2>3
<1> QED BY <1>1, <1>3, <1>4 DEF ClockInv

LEMMA ServedClock ==
  ASSUME ClockInv, TIMER0_COMPA_vect
  PROVE  ClockInv' /\ now' = now
<1> DEFINE q == now \div Period  x == (q - 1) * HalfRound
<1>1. /\ now \in Nat /\ now' = now /\ Behind = 1 /\ Behind' = 0 /\ matched' = FALSE
      /\ _micros = ((q - Behind) * HalfRound) % W
      /\ _micros' = (_micros + HalfRound) % W
  BY DEF ClockInv, TIMER0_COMPA_vect, Behind, HalfRound
<1>2. q \in Nat
  BY <1>1, Together
<1> HIDE DEF q
<1>3. x \in Int /\ x + HalfRound = q * HalfRound
  BY <1>2, Rounds
<1> HIDE DEF x
<1>4. _micros = x % W
  BY <1>1 DEF x
<1>5. ((x % W) + HalfRound) % W = (x + HalfRound) % W
  <2>1. W \in Nat \ {0} /\ HalfRound \in Int
    BY Rounds
  <2> QED BY <1>3, <2>1, RemainderOfSum
<1>6. (q - 0) * HalfRound = q * HalfRound
  BY <1>2
<1>7. _micros' = (q * HalfRound) % W
  BY <1>1, <1>3, <1>4, <1>5
<1> QED BY <1>1, <1>6, <1>7 DEF ClockInv, q

LEMMA InitClock == ClockInit => ClockInv
<1> SUFFICES ASSUME ClockInit PROVE ClockInv
  OBVIOUS
<1>1. now = 0 /\ matched = FALSE /\ _micros = 0 /\ Behind = 0
  BY DEF ClockInit, Behind
<1>2. 0 \div Period = 0
  <2>1. 0 \div Period \in Nat /\ (0 \div Period) * HalfRound + (0 % Period) \div 2 = 0
    BY Together
  <2> DEFINE q == 0 \div Period  r == 0 % Period
  <2>2. Period \in Nat \ {0} /\ 0 \in Int
    BY Rounds
  <2>3. q \in Int /\ r \in 0 .. Period - 1 /\ 0 = Period * q + r
    BY <2>2, Divided
  <2> HIDE DEF q, r
  <2>4. q * Period = Period * q /\ q * Period < Period /\ q * Period > -Period
    BY <2>2, <2>3
  <2>5. q = 0
    BY <2>2, <2>3, <2>4, NoMultiple
  <2> QED BY <2>5 DEF q
<1>3. (0 - 0) * HalfRound = 0 /\ 0 % W = 0
  <2>1. W \in Nat \ {0} /\ 0 = 0 * W + 0 /\ 0 \in 0 .. W - 1
    BY Rounds
  <2>2. 0 % W = 0
    BY <2>1, Remainder
  <2> QED BY <2>2, Rounds
<1> QED BY <1>1, <1>2, <1>3 DEF ClockInv

LEMMA LaterSample ==
  ASSUME NEW v, NEW n \in Int, NEW h \in Int, NEW o \in Int, NEW g \in Int,
         n <= o, n - h >= o - g, Sampled(v, n, h)
  PROVE  Sampled(v, o, g)
  BY DEF Sampled

(* Main elsewhere than in P. *)
LEMMA NotInPulse ==
  ASSUME LasingInv, pc # "pulse", UNCHANGED <<now, matched, _micros, laser_vars>>
  PROVE  LasingInv'
<1>1. /\ fire.what = "none" /\ ~laser.is_on /\ ~timer3
      /\ laser' = laser /\ fire' = fire /\ timer3' = timer3
  BY DEF LasingInv, Lighting, LaserTypes, laser_vars
<1>2. ClockInv'
  BY DEF LasingInv, ClockInv, Behind
<1>3. LaserTypes'
  BY <1>1 DEF LasingInv, LaserTypes
<1> QED BY <1>1, <1>2, <1>3 DEF LasingInv, Lighting

LEMMA MainNotInPulse ==
  ASSUME LasingInv, Main PROVE LasingInv'
<1>1. ASSUME idle PROVE pc # "pulse" /\ UNCHANGED <<now, matched, _micros, laser_vars>>
  <2> USE DEF clock_vars
  <2>1. CASE StartIdle                                  BY <2>1 DEF StartIdle
  <2>2. CASE Test("1S", "100MS") \/ Test("100MS", Caller)  BY <2>2 DEF Test, laser_vars
  <2>3. CASE Read("1S") \/ Read("100MS")                BY <2>3 DEF Read, Reading
  <2>4. CASE Clear("1S", "100MS") \/ Clear("100MS", "lcd")  BY <2>4 DEF Clear, Clearing
  <2>5. CASE Redraw                                     BY <2>5 DEF Redraw
  <2> QED BY <1>1, <2>1, <2>2, <2>3, <2>4, <2>5 DEF idle
<1>2. ASSUME G4 PROVE pc # "pulse" /\ UNCHANGED <<now, matched, _micros, laser_vars>>
  BY <1>2 DEF G4, StartWait, StartTmp, Compare, Again, BeginMillis, clock_vars
<1>3. ASSUME Boot PROVE pc # "pulse" /\ UNCHANGED <<now, matched, _micros, laser_vars>>
  BY <1>3 DEF Boot, clock_vars
<1> QED BY <1>1, <1>2, <1>3, NotInPulse DEF Main

LEMMA TickLasing == ASSUME LasingInv, Tick PROVE LasingInv'
<1>1. /\ Count /\ fire.held < MaxHold /\ UNCHANGED <<pc, laser, timer3, seen>>
      /\ fire' = IF fire.what = "none" THEN fire ELSE [fire EXCEPT !.held = @ + 1]
  BY DEF Tick, Firing
<1>2. ClockInv' /\ now' = now + 1 /\ _micros' = _micros /\ now \in Nat
  BY <1>1, CountClock DEF LasingInv, ClockInv
<1>t. fire \in Fires
  BY DEF LasingInv, LaserTypes
<1>3. /\ fire'.what = fire.what /\ fire'.m = fire.m /\ micros(fire.m)' = micros(fire.m)
      /\ fire.what = "none" => fire' = fire
      /\ fire.what # "none" => fire'.held = fire.held + 1
  BY <1>1, <1>2, <1>t DEF micros, Fires
<1>4. LaserTypes'
  BY <1>1, <1>3, Rounds DEF LasingInv, LaserTypes, Fires
<1>5. fire.what \in {"on_half", "off_half"} => Sampled(micros(fire.m)', now', fire'.held)
  <2> SUFFICES ASSUME fire.what \in {"on_half", "off_half"}
               PROVE  Sampled(micros(fire.m)', now', fire'.held)
    OBVIOUS
  <2>1. Sampled(micros(fire.m), now, fire.held)
    BY DEF LasingInv, Lighting
  <2>2. fire'.held = fire.held + 1 /\ micros(fire.m)' = micros(fire.m) /\ fire.held \in Nat
    BY <1>2, <1>3, <1>t DEF micros, Fires
  <2> QED BY <1>2, <2>1, <2>2, LaterSample
<1>8. fire.what = "on_value" => Sampled(fire.m, now', fire'.held)
  <2> SUFFICES ASSUME fire.what = "on_value" PROVE Sampled(fire.m, now', fire'.held)
    OBVIOUS
  <2>1. Sampled(fire.m, now, fire.held)
    BY DEF LasingInv, Lighting
  <2>2. fire'.held = fire.held + 1 /\ fire.held \in Nat
    BY <1>3, <1>t DEF Fires
  <2> QED BY <1>2, <2>1, <2>2, LaterSample
<1>6. fire.what \in {"off", "off_half"} => now' - fire'.held = now - fire.held
  BY <1>2, <1>3, <1>t DEF Fires
<1>7. Lighting'
  <2>1. fire.what = "none" /\ laser.is_on =>
          seen.lit \in Nat /\ seen.lit <= now' /\ Sampled(laser.last_firing, seen.lit, MaxHold)
    BY <1>2 DEF LasingInv, Lighting
  <2>2. fire.what \in {"off", "off_half"} =>
          ~laser.is_on /\ WasLit(now' - fire'.held, seen.lit, laser.last_firing)
    BY <1>6 DEF LasingInv, Lighting
  <2>3. /\ fire.what # "none" \/ laser.is_on => pc = "pulse"
        /\ timer3 => laser.is_on /\ fire.what = "none"
    BY DEF LasingInv, Lighting
  <2> QED BY <1>1, <1>3, <1>5, <1>8, <2>1, <2>2, <2>3 DEF Lighting
<1> QED BY <1>2, <1>4, <1>7 DEF LasingInv

LEMMA InterruptLasing == ASSUME LasingInv, Interrupt PROVE LasingInv'
<1>1. fire.what \in {"none", "on_value"} /\ UNCHANGED <<pc, laser, fire, timer3, seen>>
  BY DEF Interrupt, InterruptsOn, Firing, main_vars, laser_vars
<1>2. ClockInv' /\ now' = now
  BY ServedClock DEF Interrupt, LasingInv
<1>3. LaserTypes'
  BY <1>1 DEF LasingInv, LaserTypes
<1> QED BY <1>1, <1>2, <1>3 DEF LasingInv, Lighting

LEMMA Darkened ==
  ASSUME NEW l \in Lasers
  PROVE  /\ [l EXCEPT !.is_on = FALSE] \in Lasers
         /\ [l EXCEPT !.is_on = FALSE].is_on = FALSE
         /\ [l EXCEPT !.is_on = FALSE].last_firing = l.last_firing
  BY DEF Lasers

LEMMA LitUp ==
  ASSUME NEW l \in Lasers, NEW v \in Int
  PROVE  /\ [l EXCEPT !.last_firing = v, !.is_on = TRUE] \in Lasers
         /\ [l EXCEPT !.last_firing = v, !.is_on = TRUE].is_on = TRUE
         /\ [l EXCEPT !.last_firing = v, !.is_on = TRUE].last_firing = v
  BY DEF Lasers

LEMMA AddedType ==
  ASSUME NEW l \in Lasers, NEW us \in Nat
  PROVE  laser_add_time(l, us) \in Lasers /\ laser_add_time(l, us).is_on = l.is_on
<1> DEFINE s == (l.us + us) % W
           m == l.ms + s \div MilliW
           n == l.min + m \div MinuteW
<1>1. MilliW \in Nat \ {0} /\ MinuteW \in Nat \ {0} /\ MinW \in Nat \ {0}
  BY IdleAssumption DEF IdleAssumption
<1>2. s \in Nat
  <2>1. l.us + us \in Nat
    BY <1>1 DEF Lasers
  <2> QED BY <2>1, Rounds
<1>3. s % MilliW \in 0 .. MilliW - 1 /\ m \in Nat
  <2>1. l.ms \in Nat
    BY DEF Lasers
  <2> HIDE DEF s
  <2>2. s \div MilliW \in Nat
    BY <1>1, <1>2
  <2> QED BY <1>1, <1>2, <2>1, <2>2
<1> HIDE DEF s, m, n
<1>4. m % MinuteW \in Nat /\ n \in Nat
  BY <1>1, <1>3 DEF Lasers, n
<1>5. n % MinW \in Nat
  BY <1>1, <1>4
<1>6. laser_add_time(l, us) =
        [l EXCEPT !.us = s % MilliW, !.ms = m % MinuteW, !.min = n % MinW]
  BY DEF laser_add_time, s, m, n
<1> QED BY <1>3, <1>4, <1>5, <1>6 DEF Lasers

LEMMA FireStep ==
  ASSUME LasingInv, seen \in Happened, GoDark, fire.what = "none", laser.is_on, timer3' = FALSE,
         UNCHANGED <<pc, now, matched, _micros>>
  PROVE  LasingInv'
<1>1. /\ fire' = [what |-> "off", m |-> 0, held |-> 0]
      /\ laser' = [laser EXCEPT !.is_on = FALSE]
      /\ seen' = [seen EXCEPT !.lit = now - @]
  BY DEF GoDark, BeginFire
<1>2. laser \in Lasers /\ now \in Nat
  BY DEF LasingInv, LaserTypes, ClockInv
<1>3. /\ pc = "pulse" /\ seen.lit \in Nat /\ seen.lit <= now
      /\ Sampled(laser.last_firing, seen.lit, MaxHold)
  BY DEF LasingInv, Lighting
<1>4. laser'.last_firing = laser.last_firing /\ laser'.is_on = FALSE /\ seen'.lit = now - seen.lit
  BY <1>1, <1>2, Darkened DEF Happened
<1>5. LaserTypes'
  <2>1. laser' \in Lasers
    BY <1>1, <1>2, Darkened
  <2>2. fire' \in Fires /\ fire'.held <= MaxHold
    BY <1>1, Rounds DEF Fires
  <2> QED BY <2>1, <2>2 DEF LaserTypes
<1>6. ClockInv'
  BY DEF LasingInv, ClockInv, Behind
<1>7. WasLit(now' - 0, seen'.lit, laser'.last_firing)
  BY <1>2, <1>3, <1>4 DEF WasLit
<1>8. Lighting'
  BY <1>1, <1>3, <1>4, <1>7 DEF Lighting
<1> QED BY <1>5, <1>6, <1>8 DEF LasingInv

LEMMA PulsesLasing == ASSUME LasingInv, seen \in Happened, Pulses PROVE LasingInv'
<1>t. /\ laser \in Lasers /\ fire \in Fires
      /\ fire.held \in Nat /\ fire.held <= MaxHold /\ timer3 \in BOOLEAN /\ now \in Nat
  BY DEF LasingInv, LaserTypes, ClockInv, Fires
<1>c. UNCHANGED clock_vars => ClockInv'
  BY DEF LasingInv, ClockInv, Behind, clock_vars
<1>1. CASE P
  <2>1. /\ fire.what = "none" /\ ~laser.is_on /\ ~timer3 /\ pc' = "pulse"
        /\ fire' = [what |-> "on", m |-> 0, held |-> 0]
        /\ UNCHANGED <<laser, timer3, seen>> /\ UNCHANGED clock_vars
    BY <1>1 DEF P, Firing, BeginFire, LasingInv, Lighting
  <2>2. LaserTypes'
    BY <1>t, <2>1, Rounds DEF LaserTypes, Fires
  <2>3. Lighting'
    BY <2>1 DEF Lighting
  <2> QED BY <1>c, <2>1, <2>2, <2>3 DEF LasingInv
<1>2. CASE ReadTimer
  <2>1. /\ fire.what \in {"on", "off"}
        /\ fire' = [fire EXCEPT !.what = IF @ = "on" THEN "on_half" ELSE "off_half",
                                !.m = TimerMicros]
        /\ UNCHANGED <<pc, laser, timer3, seen>> /\ UNCHANGED clock_vars
    BY <1>2 DEF ReadTimer, main_vars
  <2>2. TimerMicros \in Nat /\ Sampled(micros(TimerMicros), now, fire.held)
    BY <1>t, SampleNow DEF LasingInv
  <2>3. /\ fire'.m = TimerMicros /\ fire'.held = fire.held
        /\ fire'.what = IF fire.what = "on" THEN "on_half" ELSE "off_half"
    BY <1>t, <2>1 DEF Fires
  <2>4. LaserTypes'
    <3>1. fire' \in Fires
      <4> DEFINE w == IF fire.what = "on" THEN "on_half" ELSE "off_half"
      <4>1. w \in {"on_half", "off_half"}
        OBVIOUS
      <4>2. fire' = [fire EXCEPT !.what = w, !.m = TimerMicros]
        BY <2>1
      <4> HIDE DEF w
      <4>3. TimerMicros \in Int
        BY <2>2
      <4> DEFINE m == TimerMicros
      <4> HIDE DEF m
      <4> QED BY <1>t, <4>1, <4>2, <4>3 DEF Fires, m
    <3> QED BY <1>t, <2>1, <2>3, <3>1 DEF LaserTypes
  <2>5. Sampled(micros(fire.m)', now', fire'.held)
    <3>1. micros(fire.m)' = micros(TimerMicros)
      BY <2>1, <2>3 DEF micros, clock_vars
    <3> QED BY <2>1, <2>2, <2>3, <3>1 DEF clock_vars
  <2>6. Lighting'
    <3>1. now' - fire'.held = now - fire.held
      BY <2>1, <2>3 DEF clock_vars
    <3> QED BY <2>1, <2>3, <2>5, <3>1 DEF Lighting, LasingInv
  <2> QED BY <1>c, <2>1, <2>4, <2>6 DEF LasingInv
<1>8. CASE TakeTime
  <2>1. /\ fire.what = "on_half" /\ UNCHANGED <<pc, laser, timer3, seen>> /\ UNCHANGED clock_vars
        /\ fire' = [fire EXCEPT !.what = "on_value", !.m = micros(fire.m)]
    BY <1>8 DEF TakeTime, main_vars
  <2>2. Sampled(micros(fire.m), now, fire.held) /\ pc = "pulse" /\ ~timer3
    BY <2>1 DEF LasingInv, Lighting
  <2>3. micros(fire.m) \in Int
    BY <2>2, Rounds, Divided DEF Sampled
  <2>4. fire'.what = "on_value" /\ fire'.m = micros(fire.m) /\ fire'.held = fire.held
    BY <1>t, <2>1 DEF Fires
  <2>5. fire' \in Fires
    <3> DEFINE m == micros(fire.m)
    <3>1. fire' = [fire EXCEPT !.what = "on_value", !.m = m] /\ m \in Int
      BY <2>1, <2>3
    <3> HIDE DEF m
    <3> QED BY <1>t, <3>1 DEF Fires
  <2>6. LaserTypes'
    BY <1>t, <2>1, <2>4, <2>5 DEF LaserTypes
  <2>7. Sampled(fire'.m, now', fire'.held)
    BY <2>1, <2>2, <2>4 DEF clock_vars
  <2>8. Lighting'
    BY <2>1, <2>2, <2>4, <2>7 DEF Lighting
  <2> QED BY <1>c, <2>1, <2>6, <2>8 DEF LasingInv
<1>3. CASE LightUp
  <2>1. /\ fire.what = "on_value" /\ pc' = pc /\ timer3' = timer3 /\ UNCHANGED clock_vars
        /\ fire' = Free /\ seen' = [seen EXCEPT !.lit = now]
        /\ laser' = [laser EXCEPT !.last_firing = fire.m, !.is_on = TRUE]
    BY <1>3 DEF LightUp, main_vars
  <2>2. Sampled(fire.m, now, fire.held) /\ pc = "pulse" /\ ~timer3
    BY <2>1 DEF LasingInv, Lighting
  <2>3. Sampled(fire.m, now, MaxHold)
    BY <1>t, <2>2, Rounds, LaterSample
  <2>4. fire.m \in Int
    BY <1>t DEF Fires
  <2>5. laser'.last_firing = fire.m /\ laser'.is_on = TRUE /\ seen'.lit = now
    BY <1>t, <2>1, <2>4, LitUp DEF Happened
  <2>6. LaserTypes'
    <3>1. laser' \in Lasers
      BY <1>t, <2>1, <2>4, LitUp
    <3>2. fire' \in Fires /\ fire'.held <= MaxHold
      BY <2>1, Rounds DEF Fires, Free
    <3> QED BY <1>t, <2>1, <3>1, <3>2 DEF LaserTypes
  <2>7. Lighting'
    BY <1>t, <2>1, <2>2, <2>3, <2>5 DEF Lighting, Free, clock_vars
  <2> QED BY <1>c, <2>1, <2>6, <2>7 DEF LasingInv
<1>4. CASE laser_start_pulse_timer
  <2>1. PICK d \in Durations :
          /\ timer3' = Lasts(d)
          /\ IF Timer(d).prescale > 0 THEN UNCHANGED <<fire, laser, seen>> ELSE GoDark
    BY <1>4 DEF laser_start_pulse_timer
  <2>2. laser.is_on /\ fire.what = "none" /\ pc' = pc /\ UNCHANGED clock_vars /\ Lasts(d) \in BOOLEAN
    BY <1>4 DEF laser_start_pulse_timer, Firing, main_vars, Lasts
  <2>3. CASE Timer(d).prescale > 0
    <3>1. LaserTypes'
      BY <1>t, <2>1, <2>2, <2>3 DEF LaserTypes
    <3>2. Lighting'
      BY <2>1, <2>2, <2>3 DEF Lighting, LasingInv, clock_vars
    <3> QED BY <1>c, <2>2, <3>1, <3>2 DEF LasingInv
  <2>4. CASE ~(Timer(d).prescale > 0)
    <3>1. timer3' = FALSE /\ GoDark
      BY <2>1, <2>4 DEF Lasts
    <3> QED BY <2>2, <3>1, FireStep DEF clock_vars
  <2> QED BY <2>3, <2>4
<1>5. CASE TIMER3_COMPA_vect
  <2>1. /\ laser.is_on /\ fire.what = "none" /\ GoDark /\ timer3' = FALSE
        /\ UNCHANGED <<pc, now, matched, _micros>>
    BY <1>5 DEF TIMER3_COMPA_vect, LasingInv, Lighting, clock_vars, main_vars
  <2> QED BY <2>1, FireStep
<1>6. CASE Measure
  <2>1. /\ fire.what = "off_half" /\ fire' = Free /\ pc' = pc /\ timer3' = timer3
        /\ laser' = laser_add_time(laser, Lasted) /\ UNCHANGED clock_vars
    BY <1>6 DEF Measure, main_vars
  <2>2. ~laser.is_on /\ ~timer3 /\ Lasted \in Nat
    <3>1. ~laser.is_on /\ ~timer3 /\ Sampled(micros(fire.m), now, fire.held)
      BY <2>1 DEF LasingInv, Lighting
    <3>2. micros(fire.m) \in Int
      BY <3>1, Rounds, Divided DEF Sampled
    <3>3. micros(fire.m) - laser.last_firing \in Int
      BY <1>t, <3>2 DEF Lasers
    <3> QED BY <3>1, <3>3, Rounds, Divided DEF Lasted
  <2>3. laser' \in Lasers /\ laser'.is_on = FALSE
    BY <1>t, <2>1, <2>2, AddedType
  <2>4. fire' \in Fires /\ fire'.held <= MaxHold /\ fire'.what = "none"
    BY <2>1, Rounds DEF Fires, Free
  <2>5. LaserTypes'
    BY <1>t, <2>1, <2>3, <2>4 DEF LaserTypes
  <2>6. Lighting'
    BY <2>1, <2>2, <2>3, <2>4 DEF Lighting
  <2> QED BY <1>c, <2>1, <2>5, <2>6 DEF LasingInv
<1>7. CASE PulseOver
  <2>1. /\ fire.what = "none" /\ ~laser.is_on /\ UNCHANGED <<laser, fire, timer3, seen>>
        /\ UNCHANGED clock_vars
    BY <1>7 DEF PulseOver, Firing, laser_vars
  <2>2. LaserTypes'
    BY <1>t, <2>1 DEF LaserTypes
  <2>3. Lighting'
    BY <2>1 DEF Lighting, LasingInv
  <2> QED BY <1>c, <2>1, <2>2, <2>3 DEF LasingInv
<1> QED BY <1>1, <1>2, <1>3, <1>4, <1>5, <1>6, <1>7, <1>8 DEF Pulses

LEMMA Halved ==
  ASSUME NEW c \in Int, NEW w \in Nat, NEW m \in Nat, 2 * c <= 2 * w - 2 * m - 1, 2 * c >= -1
  PROVE  c \in 0 .. w - 1 - m /\ c \in 0 .. w - 1
OBVIOUS

(* The two looks at the timer, and the difference of what they gave.       *)
LEMMA DifferenceNear ==
  ASSUME NEW n \in Int, NEW h \in Nat, h <= MaxHold, NEW v, Sampled(v, n + h, h),
         NEW lit \in Int, NEW u, WasLit(n, lit, u),
         lit >= Period, lit <= 2 * W - 3 * Period - 2 * MilliW
  PROVE  /\ (v - u) % W \in 0 .. W - 1 - MilliW
         /\ 2 * ((v - u) % W) - lit >= -(Period + 1)
         /\ 2 * ((v - u) % W) - lit <= Period + 1 + 2 * MaxHold
<1>1. PICK o \in Nat : o <= n /\ lit = n - o /\ Sampled(u, o, MaxHold)
  BY DEF WasLit
<1>2. PICK s \in Nat, d \in {0, 1} :
        o - MaxHold <= s /\ s <= o /\ u = (s \div 2 - d * HalfRound) % W
  BY <1>1 DEF Sampled
<1>3. PICK t \in Nat, e \in {0, 1} :
        n <= t /\ t <= n + h /\ v = (t \div 2 - e * HalfRound) % W
  BY DEF Sampled
<1> DEFINE a == t \div 2 - e * HalfRound
           b == s \div 2 - d * HalfRound
<1>4. /\ a \in Int /\ b \in Int
      /\ 2 * a <= t /\ 2 * a >= t - 1 - e * Period
      /\ 2 * b <= s /\ 2 * b >= s - 1 - d * Period
  BY Rounds
<1>5. v = a % W /\ u = b % W
  BY <1>2, <1>3
<1> HIDE DEF a, b
<1>6. (v - u) % W = (a - b) % W
  BY <1>4, <1>5, Rounds, RemainderOfDifference
<1>7. /\ e * Period <= Period /\ d * Period <= Period
      /\ Period \in Nat /\ W \in Nat /\ MaxHold \in Nat /\ MaxHold < Period
  BY Rounds
<1>8. /\ 2 * (a - b) - lit >= -(Period + 1)
      /\ 2 * (a - b) - lit <= Period + 1 + 2 * MaxHold
  BY <1>1, <1>2, <1>3, <1>4, <1>7
<1>9. a - b \in 0 .. W - 1 - MilliW /\ a - b \in 0 .. W - 1
  <2>1. MilliW \in Nat
    BY IdleAssumption DEF IdleAssumption
  <2> DEFINE c == a - b
  <2>2. c \in Int /\ 2 * c - lit >= -(Period + 1) /\ 2 * c - lit <= Period + 1 + 2 * MaxHold
    BY <1>4, <1>8
  <2> HIDE DEF c
  <2>3. 2 * c <= 2 * W - 2 * MilliW - 1 /\ 2 * c >= -1
    BY <1>7, <2>1, <2>2
  <2>4. c \in 0 .. W - 1 - MilliW /\ c \in 0 .. W - 1
    BY <2>1, <2>2, <2>3, Rounds, Halved
  <2> QED BY <2>4 DEF c
<1>10. (a - b) % W = a - b
  <2>1. a - b = 0 * W + (a - b) /\ a - b \in Int /\ 0 \in Int
    BY <1>4, Rounds
  <2> QED BY <1>9, <2>1, Rounds, Remainder
<1> QED BY <1>6, <1>8, <1>9, <1>10

(* What laser_add_time leaves out is a whole number of wraps of the total. *)
LEMMA Added ==
  ASSUME NEW l \in Lasers, NEW us \in Nat, l.us + us < W
  PROVE  \E c \in Int : Total(laser_add_time(l, us)) - Total(l) = us - c * (MinW * MinuteW * MilliW)
<1> DEFINE s == l.us + us
           m == l.ms + s \div MilliW
           n == l.min + m \div MinuteW
           c == n \div MinW
<1>1. MilliW \in Nat \ {0} /\ MinuteW \in Nat \ {0} /\ MinW \in Nat \ {0}
  BY IdleAssumption DEF IdleAssumption
<1>t. l.us \in Nat /\ l.ms \in Nat /\ l.min \in Nat
  BY <1>1 DEF Lasers
<1>2. laser_add_time(l, us) =
        [l EXCEPT !.us = s % MilliW, !.ms = m % MinuteW, !.min = n % MinW]
  <2>1. W \in Nat \ {0} /\ s \in Int /\ s \in 0 .. W - 1 /\ s = 0 * W + s /\ 0 \in Int
    BY <1>t, Rounds
  <2>2. s % W = s
    <3> HIDE DEF s
    <3> QED BY <2>1, Remainder
  <2> QED BY <2>2 DEF laser_add_time
<1> DEFINE s1 == s % MilliW  s2 == s \div MilliW
           m1 == m % MinuteW m2 == m \div MinuteW
           n1 == n % MinW
<1>3. s \in Int /\ s1 \in Int /\ s2 \in Int /\ s = MilliW * s2 + s1
  <2>1. s \in Int
    BY <1>t
  <2> HIDE DEF s
  <2> QED BY <1>1, <2>1, Divided
<1>4. m \in Int /\ m1 \in Int /\ m2 \in Int /\ m = MinuteW * m2 + m1
  <2>1. m \in Int
    BY <1>t, <1>3
  <2> HIDE DEF m
  <2> QED BY <1>1, <2>1, Divided
<1>5. n \in Int /\ n1 \in Int /\ c \in Int /\ n = MinW * c + n1
  <2>1. n \in Int
    BY <1>t, <1>4
  <2> HIDE DEF n
  <2> QED BY <1>1, <2>1, Divided
<1>6. s = l.us + us /\ m = l.ms + s2 /\ n = l.min + m2
  OBVIOUS
<1>7. Total(laser_add_time(l, us)) = (n1 * MinuteW + m1) * MilliW + s1
  BY <1>2 DEF Total, Lasers
<1> DEFINE T == Total(laser_add_time(l, us)) - Total(l)
<1>8. Total(l) = (l.min * MinuteW + l.ms) * MilliW + l.us
  BY DEF Total
<1> HIDE DEF s, m, n, c, s1, s2, m1, m2, n1
<1>9. n1 * MinuteW + m1 = l.min * MinuteW + l.ms + s2 - c * (MinW * MinuteW)
  <2>1. n1 = l.min + m2 - MinW * c
    <3>1. n = l.min + m2
      BY <1>6
    <3>2. n = MinW * c + n1 /\ MinW * c \in Int
      BY <1>1, <1>5
    <3> QED BY <3>1, <3>2, <1>t, <1>4, <1>5
  <2>2. m1 = l.ms + s2 - MinuteW * m2
    <3>1. m = l.ms + s2
      BY <1>6
    <3>2. m = MinuteW * m2 + m1 /\ MinuteW * m2 \in Int
      BY <1>1, <1>4
    <3> QED BY <3>1, <3>2, <1>t, <1>3, <1>4
  <2>3. n1 * MinuteW = l.min * MinuteW + MinuteW * m2 - c * (MinW * MinuteW)
    BY <2>1, <1>t, <1>1, <1>4, <1>5
  <2>4. /\ l.min * MinuteW \in Int /\ MinuteW * m2 \in Int /\ c * (MinW * MinuteW) \in Int
    BY <1>t, <1>1, <1>4, <1>5
  <2> QED BY <2>2, <2>3, <2>4, <1>t, <1>3
<1> DEFINE p == l.min * MinuteW + l.ms  k == MinW * MinuteW
<1>10. p \in Int /\ k \in Int
  BY <1>t, <1>1
<1> HIDE DEF p, k
<1>11. (p + s2 - c * k) * MilliW = p * MilliW + MilliW * s2 - c * (k * MilliW)
  BY <1>1, <1>3, <1>5, <1>10
<1>12. s1 = l.us + us - MilliW * s2
  <2>1. s = l.us + us
    BY <1>6
  <2>2. s = MilliW * s2 + s1 /\ MilliW * s2 \in Int
    BY <1>1, <1>3
  <2> DEFINE x == MilliW * s2
  <2>3. s = l.us + us /\ s = x + s1 /\ x \in Int /\ s1 \in Int /\ l.us \in Nat
    BY <2>1, <2>2, <1>t, <1>3
  <2> HIDE DEF x
  <2>4. s1 = l.us + us - x
    BY <2>3
  <2> QED BY <2>4 DEF x
<1>13. /\ p * MilliW \in Int /\ MilliW * s2 \in Int /\ c * (k * MilliW) \in Int
  BY <1>1, <1>3, <1>5, <1>10
<1>14. Total(laser_add_time(l, us)) = p * MilliW + l.us + us - c * (k * MilliW)
  <2>1. Total(laser_add_time(l, us)) = (p + s2 - c * k) * MilliW + s1
    BY <1>7, <1>9 DEF p, k
  <2> QED BY <2>1, <1>11, <1>12, <1>13, <1>t
<1>15. Total(l) = p * MilliW + l.us
  BY <1>8 DEF p
<1>16. Total(laser_add_time(l, us)) - Total(l) = us - c * (k * MilliW)
  BY <1>13, <1>14, <1>15, <1>t
<1> QED BY <1>5, <1>16 DEF k

(* The total, as far as it counts. *)
Wraps == MinW * MinuteW * MilliW

LEMMA WrapsType == Wraps \in Nat \ {0} /\ W <= Wraps
<1>1. MilliW \in Nat \ {0} /\ MinuteW \in Nat \ {0} /\ MinW \in Nat \ {0}
  BY IdleAssumption DEF IdleAssumption
<1>2. MinuteW * MinW \in Nat \ {0} /\ MinuteW * MinW = MinW * MinuteW
  BY <1>1
<1> DEFINE k == MinW * MinuteW
<1>3. k \in Nat \ {0} /\ k * MilliW = MilliW * (MinuteW * MinW)
  BY <1>1, <1>2
<1> HIDE DEF k
<1>4. k * MilliW \in Nat \ {0}
  BY <1>1, <1>3
<1> QED BY <1>3, <1>4, TimesAssumption DEF TimesAssumption, Wraps, k

LEMMA GrownBy ==
  ASSUME laser \in Lasers, NEW us \in Nat, us + MilliW <= W, laser' = laser_add_time(laser, us)
  PROVE  Grown = us
<1>0. us < W /\ laser.us + us < W
  <2>1. MilliW \in Nat \ {0}
    BY IdleAssumption DEF IdleAssumption
  <2> QED BY <2>1, Rounds DEF Lasers
<1>1. PICK c \in Int : Total(laser') - Total(laser) = us - c * Wraps
  BY <1>0, Added DEF Wraps
<1>2. us - c * Wraps = (-c) * Wraps + us /\ -c \in Int /\ us \in 0 .. Wraps - 1
      /\ us - c * Wraps \in Int /\ Wraps \in Nat \ {0}
  BY <1>0, WrapsType, Rounds
<1>3. (us - c * Wraps) % Wraps = us
  <2> DEFINE x == us - c * Wraps  e == -c
  <2>1. x \in Int /\ e \in Int /\ x = e * Wraps + us
    BY <1>2
  <2> HIDE DEF x, e
  <2>2. x % Wraps = us
    BY <1>2, <2>1, Remainder
  <2> QED BY <2>2 DEF x
<1> QED BY <1>1, <1>3 DEF Grown, Wraps

LEMMA NotGrown ==
  ASSUME laser \in Lasers, Total(laser') = Total(laser)
  PROVE  Grown = 0
<1>1. MilliW \in Nat \ {0} /\ MinuteW \in Nat \ {0} /\ MinW \in Nat \ {0}
  BY IdleAssumption DEF IdleAssumption
<1>2. Total(laser) \in Int
  BY <1>1 DEF Total, Lasers
<1>3. Wraps \in Nat \ {0} /\ 0 = 0 * Wraps + 0 /\ 0 \in 0 .. Wraps - 1
  BY WrapsType
<1>4. 0 % Wraps = 0
  BY <1>3, Remainder
<1> QED BY <1>2, <1>4 DEF Grown, Wraps
-----------------------------------------------------------------------------
LEMMA InitLasing == IdleInit => LasingInv
<1> SUFFICES ASSUME IdleInit PROVE LasingInv
  OBVIOUS
<1>1. ClockInv
  BY InitClock DEF IdleInit
<1>2. /\ laser = [is_on |-> FALSE, last_firing |-> 0, us |-> 0, ms |-> MinuteW - 1, min |-> 0]
      /\ timer3 = FALSE /\ fire = [what |-> "none", m |-> 0, held |-> 0]
  BY DEF IdleInit, InitialMillis, Free
<1>3. MinuteW - 1 \in Nat /\ MaxHold \in Nat /\ 0 \in 0 .. MilliW - 1
  BY IdleAssumption DEF IdleAssumption
<1>4. LaserTypes
  <2>1. laser \in Lasers
    BY <1>2, <1>3 DEF Lasers
  <2>2. fire \in Fires
    BY <1>2 DEF Fires
  <2>3. timer3 \in BOOLEAN
    BY <1>2
  <2>4. fire.held = 0
    BY <1>2
  <2> QED BY <1>3, <2>1, <2>2, <2>3, <2>4 DEF LaserTypes
<1>5. Lighting
  BY <1>2 DEF Lighting
<1> QED BY <1>1, <1>4, <1>5 DEF LasingInv

LEMMA NextLasing == WaitInv /\ LasingInv /\ [Next]_vars => LasingInv'
<1> SUFFICES ASSUME WaitInv, LasingInv, [Next]_vars PROVE LasingInv'
  OBVIOUS
<1>1. CASE Main
  BY <1>1, MainNotInPulse
<1>2. CASE Pulses
  BY <1>2, PulsesLasing DEF WaitInv, WaitTypes
<1>3. CASE Tick
  BY <1>3, TickLasing
<1>4. CASE Interrupt
  BY <1>4, InterruptLasing
<1>5. CASE UNCHANGED vars
  BY <1>5 DEF vars, clock_vars, main_vars, laser_vars, LasingInv, ClockInv, Behind,
              LaserTypes, Lighting, micros
<1> QED BY <1>1, <1>2, <1>3, <1>4, <1>5 DEF Next

(* Switching the laser counts nothing. *)
LEMMA SameTotal ==
  ASSUME NEW l \in Lasers, NEW v
  PROVE  /\ Total([l EXCEPT !.is_on = FALSE]) = Total(l)
         /\ Total([l EXCEPT !.last_firing = v, !.is_on = TRUE]) = Total(l)
  BY DEF Total, Lasers

Measuring == fire.what = "off_half" /\ fire'.what = "none"

LEMMA NothingCounted ==
  ASSUME LasingInv, [Next]_vars, ~Measure
  PROVE  ~Measuring /\ Grown = 0
<1>t. laser \in Lasers /\ fire \in Fires
  BY DEF LasingInv, LaserTypes
<1>0. ASSUME laser' = laser PROVE Grown = 0
  BY <1>0, <1>t, NotGrown
<1>1. CASE UNCHANGED laser_vars
  BY <1>0, <1>1 DEF laser_vars, Measuring
<1>2. CASE P \/ ReadTimer \/ TakeTime
  BY <1>0, <1>2, <1>t DEF P, ReadTimer, TakeTime, Firing, BeginFire, Measuring, Fires
<1>3. CASE LightUp
  <2>1. fire.what = "on_value"
        /\ laser' = [laser EXCEPT !.last_firing = fire.m, !.is_on = TRUE]
    BY <1>3 DEF LightUp
  <2>2. Total(laser') = Total(laser)
    BY <1>t, <2>1, SameTotal
  <2> QED BY <1>t, <2>1, <2>2, NotGrown DEF Measuring
<1>4. CASE laser_start_pulse_timer \/ TIMER3_COMPA_vect
  <2>1. fire.what # "off_half"
    BY <1>4 DEF laser_start_pulse_timer, TIMER3_COMPA_vect, InterruptsOn, Firing
  <2>2. laser' = laser \/ laser' = [laser EXCEPT !.is_on = FALSE]
    BY <1>4 DEF laser_start_pulse_timer, TIMER3_COMPA_vect, GoDark
  <2>3. Total(laser') = Total(laser)
    BY <1>t, <2>2, SameTotal
  <2> QED BY <1>t, <2>1, <2>3, NotGrown DEF Measuring
<1>5. CASE PulseOver
  BY <1>1, <1>5 DEF PulseOver
<1>6. CASE Tick
  <2>1. laser' = laser
        /\ fire' = IF fire.what = "none" THEN fire ELSE [fire EXCEPT !.held = @ + 1]
    BY <1>6 DEF Tick, Firing
  <2>2. fire'.what = fire.what
    BY <1>t, <2>1 DEF Fires
  <2> QED BY <1>0, <2>1, <2>2 DEF Measuring
<1>7. CASE Interrupt
  BY <1>1, <1>7 DEF Interrupt
<1>8. CASE Main
  <2>1. CASE Boot
    BY <1>1, <2>1 DEF Boot
  <2>2. CASE idle
    BY <1>1, <2>2 DEF idle, StartIdle, Test, Read, Clear, Redraw, laser_vars
  <2>3. CASE G4
    BY <1>1, <2>3 DEF G4, StartWait, StartTmp, Compare, Again, BeginMillis, laser_vars
  <2> QED BY <1>8, <2>1, <2>2, <2>3 DEF Main
<1>9. CASE UNCHANGED vars
  BY <1>1, <1>9 DEF vars
<1> QED BY <1>2, <1>3, <1>4, <1>5, <1>6, <1>7, <1>8, <1>9 DEF Next, Pulses

LEMMA MeasureCounts ==
  ASSUME LasingInv, seen \in Happened, Measure, seen.lit \in Period .. 2 * W - 3 * Period - 2 * MilliW
  PROVE  2 * Grown - seen.lit \in -(Period + 1) .. Period + 1 + 2 * MaxHold
<1>1. /\ fire.what = "off_half" /\ laser' = laser_add_time(laser, Lasted)
      /\ Lasted = (micros(fire.m) - laser.last_firing) % W
  BY DEF Measure, Lasted
<1>2. /\ laser \in Lasers /\ now \in Nat
      /\ fire.held \in Nat /\ fire.held <= MaxHold
  BY DEF LasingInv, LaserTypes, ClockInv, Fires
<1>3. /\ Sampled(micros(fire.m), now, fire.held)
      /\ WasLit(now - fire.held, seen.lit, laser.last_firing)
  BY <1>1 DEF LasingInv, Lighting
<1> DEFINE n == now - fire.held  h == fire.held  v == micros(fire.m)
           u == laser.last_firing  lit == seen.lit
<1>4. /\ n \in Int /\ h \in Nat /\ h <= MaxHold /\ n + h = now
      /\ lit \in Int /\ lit >= Period /\ lit <= 2 * W - 3 * Period - 2 * MilliW
      /\ MilliW \in Nat
  <2>1. MilliW \in Nat
    BY IdleAssumption DEF IdleAssumption
  <2> QED BY <1>2, <2>1, Rounds
<1>5. Sampled(v, n + h, h) /\ WasLit(n, lit, u)
  BY <1>3, <1>4
<1>6. Lasted = (v - u) % W
  BY <1>1
<1> HIDE DEF n, h, v, u
<1>7. /\ (v - u) % W \in 0 .. W - 1 - MilliW
      /\ 2 * ((v - u) % W) - lit >= -(Period + 1)
      /\ 2 * ((v - u) % W) - lit <= Period + 1 + 2 * MaxHold
  BY <1>4, <1>5, DifferenceNear
<1>8. Lasted \in Nat /\ Lasted + MilliW <= W
  BY <1>4, <1>6, <1>7, Rounds
<1>9. Grown = Lasted
  BY <1>1, <1>2, <1>8, GrownBy
<1> QED BY <1>4, <1>6, <1>7, <1>8, <1>9, Rounds

(* The time the laser was on, as laser_fire counts it, is the time it was  *)
(* on, to a round of the timer and what laser_fire takes from the time to  *)
(* the pin, interrupts within it included, whenever the timer's interrupt  *)
(* is served, and counts at no other time (laser.c:165-190,                *)
(* time.c:67-79).  A time that comes within a millisecond of the wrap of   *)
(* laser_add_time's sum (laser.c:222-225) is left out.                     *)
THEOREM LasingCounted == Spec => LasingMeasured
<1>1. ASSUME WaitInv, LasingInv, [Next]_vars
      PROVE  IF fire.what = "off_half" /\ fire'.what = "none"
             THEN seen.lit \in Period .. 2 * W - 3 * Period - 2 * MilliW =>
                    2 * Grown - seen.lit \in -(Period + 1) .. Period + 1 + 2 * MaxHold
             ELSE Grown = 0
  <2>1. CASE Measure
    <3>1. fire.what = "off_half" /\ fire'.what = "none"
      BY <2>1 DEF Measure, Free
    <3> QED BY <1>1, <2>1, <3>1, MeasureCounts DEF WaitInv, WaitTypes
  <2>2. CASE ~Measure
    BY <1>1, <2>2, NothingCounted DEF Measuring
  <2> QED BY <2>1, <2>2
<1>2. WaitInv /\ LasingInv /\ [Next]_vars => (WaitInv /\ LasingInv)'
  BY NextWaits, NextLasing
<1>3. IdleInit => WaitInv /\ LasingInv
  BY InitWaits, InitLasing
<1> QED BY <1>1, <1>2, <1>3, PTL DEF Spec, LasingMeasured
-----------------------------------------------------------------------------
LEMMA LeastElement ==
  ASSUME NEW T, T \subseteq Nat, T # {}
  PROVE  \E x \in T : \A y \in T : x <= y
<1> DEFINE R == OpToRel(<, Nat)
<1>1. IsWellFoundedOn(R, Nat)
  BY NatLessThanWellFounded, Zenon
<1>2. \A x, y \in Nat : x < y => <<x, y>> \in R
  BY DEF OpToRel
<1> HIDE DEF R
<1>3. PICK x \in T : \A y \in T : ~(<<y, x>> \in R)
  BY <1>1, WFMin, Zenon
<1>4. ASSUME NEW y \in T PROVE x <= y
  <2>1. ~(y < x)
    BY <1>2, <1>3
  <2> QED
    BY <2>1
<1> QED
  BY <1>4

LEMMA Induction ==
  ASSUME NEW S, 0 \in S, \A n \in Nat : n \in S => n + 1 \in S
  PROVE  Nat \subseteq S
<1> SUFFICES ASSUME Nat \ S # {} PROVE FALSE
  OBVIOUS
<1>1. PICK x \in Nat \ S : \A y \in Nat \ S : x <= y
  BY LeastElement
<1>2. x - 1 \in Nat /\ x - 1 \in S
  BY <1>1
<1> QED
  BY <1>2

LEMMA EveryExists ==
  ASSUME NEW m \in Nat
  PROVE  \E f : f = [k \in 0 .. m |-> IF k = 0 THEN 1 ELSE Radix[k] * f[k - 1]]
<1> DEFINE Of(k, x) == Radix[k] * x
           Term(f, k) == IF k = 0 THEN 1 ELSE Of(k, f[k - 1])
           Prefix(n) == \E f : f = [k \in 0 .. n |-> Term(f, k)]
           S == {n \in Nat : Prefix(n)}
<1> HIDE DEF Of
<1>1. 0 \in S
  <2>1. [k \in 0 .. 0 |-> 1] = [k \in 0 .. 0 |-> Term([j \in 0 .. 0 |-> 1], k)]
    OBVIOUS
  <2> QED
    BY <2>1
<1>2. ASSUME NEW n \in Nat, n \in S PROVE n + 1 \in S
  <2>1. PICK f : f = [k \in 0 .. n |-> Term(f, k)]
    BY <1>2
  <2> DEFINE g == [k \in 0 .. n + 1 |-> IF k <= n THEN f[k] ELSE Of(k, f[n])]
  <2>2. ASSUME NEW k \in 0 .. n + 1 PROVE g[k] = Term(g, k)
    <3>1. CASE k = 0
      BY <2>1, <3>1
    <3>2. CASE k # 0 /\ k <= n
      <4>1. f[k] = Of(k, f[k - 1])
        BY <2>1, <3>2
      <4>2. g[k] = f[k] /\ g[k - 1] = f[k - 1]
        BY <3>2
      <4> QED
        BY <3>2, <4>1, <4>2
    <3>3. CASE k = n + 1
      BY <3>3
    <3> QED
      BY <3>1, <3>2, <3>3
  <2>3. g = [k \in 0 .. n + 1 |-> g[k]]
    OBVIOUS
  <2> HIDE DEF g
  <2>4. g = [k \in 0 .. n + 1 |-> Term(g, k)]
    <3> HIDE DEF Term
    <3> QED
      BY <2>2, <2>3
  <2>5. Prefix(n + 1)
    BY <2>4
  <2> HIDE DEF Prefix
  <2> QED
    BY <2>5
<1> HIDE DEF S
<1>3. Nat \subseteq S
  BY <1>1, <1>2, Induction
<1> QED
  BY <1>3 DEF S, Of

LEMMA Levelled ==
  /\ Len(Levels) \in Nat
  /\ Every[0] = 1
  /\ \A k \in 1 .. Len(Levels) : /\ k - 1 \in 0 .. Len(Levels) /\ Radix[k] \in Nat \ {0}
                                 /\ Every[k] = Radix[k] * Every[k - 1]
  /\ \A k \in 0 .. Len(Levels) : Every[k] \in Nat \ {0}
<1>1. Len(Levels) \in Nat /\ \A k \in 1 .. Len(Levels) : Radix[k] \in Nat \ {0}
  BY ClockAssumption DEF ClockAssumption
<1> DEFINE m == Len(Levels)
<1>2. Every = [k \in 0 .. m |-> IF k = 0 THEN 1 ELSE Radix[k] * Every[k - 1]]
  BY <1>1, EveryExists DEF Every
<1> HIDE DEF m
<1>m. m \in Nat
  BY <1>1 DEF m
<1>3. Every[0] = 1 /\ \A k \in 1 .. m : Every[k] = Radix[k] * Every[k - 1]
  BY <1>2, <1>m
<1> DEFINE S == {k \in Nat : k <= m => Every[k] \in Nat \ {0}}
<1>4. 0 \in S
  BY <1>3
<1>5. ASSUME NEW k \in Nat, k \in S PROVE k + 1 \in S
  <2> SUFFICES ASSUME k + 1 <= m PROVE Every[k + 1] \in Nat \ {0}
    OBVIOUS
  <2>1. k + 1 \in 1 .. m /\ (k + 1) - 1 = k
    BY <1>m
  <2>2. Every[k] \in Nat \ {0} /\ Every[k + 1] = Radix[k + 1] * Every[k] /\ Radix[k + 1] \in Nat \ {0}
    BY <1>1, <1>3, <1>5, <1>m, <2>1 DEF m
  <2> QED BY <2>2
<1> HIDE DEF S
<1>6. Nat \subseteq S
  BY <1>4, <1>5, Induction
<1>7. \A k \in 0 .. m : Every[k] \in Nat \ {0}
  BY <1>6, <1>m DEF S
<1> QED BY <1>1, <1>3, <1>7 DEF m

LEMMA Quotient ==
  ASSUME NEW k \in Nat \ {0}, NEW n \in Int, NEW q \in Int, NEW r \in 0 .. k - 1, n = q * k + r
  PROVE  n \div k = q
<1>1. n \div k \in Int /\ n % k \in 0 .. k - 1 /\ n = k * (n \div k) + (n % k)
  BY Divided
<1> DEFINE p == n \div k  s == n % k
<1> HIDE DEF p, s
<1>2. p \in Int /\ s \in 0 .. k - 1 /\ n = k * p + s
  BY <1>1 DEF p, s
<1>3. (q - p) * k = s - r
  <2>1. (q - p) * k = q * k - p * k /\ p * k = k * p
    BY <1>2
  <2> QED BY <2>1, <1>2
<1>4. q - p = 0
  BY <1>2, <1>3, NoMultiple
<1> QED BY <1>2, <1>4 DEF p

(* A number divided by a and then by b. *)
LEMMA DividedTwice ==
  ASSUME NEW a \in Nat \ {0}, NEW b \in Nat \ {0}, NEW n \in Nat
  PROVE  n % (b * a) = 0 <=> (n % a = 0 /\ (n \div a) % b = 0)
<1> DEFINE q == n \div a  r == n % a
<1>1. q \in Int /\ r \in 0 .. a - 1 /\ n = a * q + r
  BY Divided
<1> HIDE DEF q, r
<1> DEFINE p == q \div b  s == q % b
<1>2. p \in Int /\ s \in 0 .. b - 1 /\ q = b * p + s
  BY <1>1, Divided
<1> HIDE DEF p, s
<1>3. a * q = p * (b * a) + s * a
  <2>1. a * q = a * (b * p) + a * s
    BY <1>2
  <2>2. a * (b * p) = p * (b * a) /\ a * s = s * a
    BY <1>2
  <2> QED BY <2>1, <2>2
<1> DEFINE t == s * a + r  k == b * a
<1>4. k \in Nat \ {0} /\ s * a \in Nat /\ s * a <= (b - 1) * a /\ (b - 1) * a = k - a
  <2>1. b * a \in Nat \ {0} /\ s \in Nat /\ s * a \in Nat
    BY <1>2
  <2>2. (b - 1) * a = b * a - a
    OBVIOUS
  <2>3. s * a <= (b - 1) * a
    <3>1. b - 1 - s \in Nat /\ (b - 1 - s) * a \in Nat /\ (b - 1 - s) * a = (b - 1) * a - s * a
      BY <1>2
    <3> QED BY <1>2, <3>1
  <2> QED BY <2>1, <2>2, <2>3
<1>5. p * k \in Int /\ n = p * k + s * a + r
  BY <1>1, <1>2, <1>3, <1>4
<1>6. t \in 0 .. k - 1 /\ n = p * k + t
  BY <1>1, <1>4, <1>5
<1> HIDE DEF k
<1>7. n % k = t
  <2> HIDE DEF t
  <2> QED BY <1>2, <1>4, <1>6, Remainder
<1>8. t = 0 <=> (r = 0 /\ s = 0)
  <2>1. s >= 1 => s * a >= a
    BY <1>2
  <2> QED BY <1>1, <1>2, <1>4, <2>1
<1> QED BY <1>7, <1>8 DEF k, r, s, q

LEMMA NextRest ==
  ASSUME NEW k \in Nat \ {0}, NEW q \in Int
  PROVE  (q + 1) % k = IF q % k = k - 1 THEN 0 ELSE (q % k) + 1
<1> DEFINE p == q \div k  s == q % k
<1>1. p \in Int /\ s \in 0 .. k - 1 /\ q = k * p + s
  BY Divided
<1> HIDE DEF p, s
<1>2. k * p = p * k /\ p * k \in Int /\ (p + 1) * k = p * k + k
  BY <1>1
<1>3. CASE s = k - 1
  <2>1. q + 1 = (p + 1) * k + 0 /\ 0 \in 0 .. k - 1 /\ p + 1 \in Int /\ q + 1 \in Int
    BY <1>1, <1>2, <1>3
  <2>2. (q + 1) % k = 0
    BY <2>1, Remainder
  <2> QED BY <1>3, <2>2 DEF s
<1>4. CASE s # k - 1
  <2>1. q + 1 = p * k + (s + 1) /\ s + 1 \in 0 .. k - 1 /\ q + 1 \in Int
    BY <1>1, <1>2, <1>4
  <2>2. (q + 1) % k = s + 1
    BY <1>1, <2>1, Remainder
  <2> QED BY <1>4, <2>2 DEF s
<1> QED BY <1>3, <1>4

(* The counters of the levels are those of the milliseconds. *)
ChainInv ==
  mscounter = [k \in 1 .. Len(Levels) |-> Radix[k] - ((_millis \div Every[k - 1]) % Radix[k])]

Over(k) == (_millis + 1) % Every[k] = 0

LEMMA LevelStep ==
  ASSUME ChainInv, _millis \in Nat, NEW k \in 1 .. Len(Levels)
  PROVE  /\ Over(k) <=> Over(k - 1) /\ mscounter[k] = 1
         /\ mscounter[k] = Radix[k] - ((_millis \div Every[k - 1]) % Radix[k])
         /\ (_millis + 1) \div Every[k - 1] =
              (_millis \div Every[k - 1]) + (IF Over(k - 1) THEN 1 ELSE 0)
         /\ _millis \div Every[k - 1] \in Int
<1> DEFINE a == Every[k - 1]  b == Radix[k]  n == _millis
<1>1. a \in Nat \ {0} /\ b \in Nat \ {0} /\ n \in Nat /\ Every[k] = b * a
  BY Levelled
<1>2. mscounter[k] = b - ((n \div a) % b)
  BY DEF ChainInv
<1>3. Over(k) <=> (n + 1) % (b * a) = 0
  BY <1>1 DEF Over
<1>4. Over(k - 1) <=> (n + 1) % a = 0
  BY DEF Over
<1> HIDE DEF a, b, n
<1>5. (n + 1) \div a = (n \div a) + (IF (n + 1) % a = 0 THEN 1 ELSE 0)
  BY <1>1, OneMore
<1>6. (n + 1) % (b * a) = 0 <=> ((n + 1) % a = 0 /\ ((n + 1) \div a) % b = 0)
  <2>1. n + 1 \in Nat
    BY <1>1
  <2> QED BY <1>1, <2>1, DividedTwice
<1> DEFINE q == n \div a
<1>7. q \in Int
  BY <1>1, Divided
<1> HIDE DEF q
<1>8. (q + 1) % b = 0 <=> b - (q % b) = 1
  <2>1. q % b \in 0 .. b - 1
    BY <1>1, <1>7, Divided
  <2>2. (q + 1) % b = IF q % b = b - 1 THEN 0 ELSE (q % b) + 1
    BY <1>1, <1>7, NextRest
  <2> QED BY <1>1, <2>1, <2>2
<1>9. (n + 1) % a = 0 => (n + 1) \div a = q + 1
  BY <1>5 DEF q
<1>10. mscounter[k] = b - (q % b)
  BY <1>2 DEF q
<1>11. Over(k) <=> Over(k - 1) /\ mscounter[k] = 1
  BY <1>3, <1>4, <1>6, <1>8, <1>9, <1>10
<1>12. (n + 1) \div a = q + (IF Over(k - 1) THEN 1 ELSE 0)
  BY <1>4, <1>5 DEF q
<1> QED BY <1>7, <1>10, <1>11, <1>12 DEF a, b, n, q

LEMMA OverAll ==
  ASSUME ChainInv, _millis \in Nat
  PROVE  \A k \in 0 .. Len(Levels) : Over(k) <=> \A j \in 1 .. k : mscounter[j] = 1
<1> DEFINE m == Len(Levels)
           S == {k \in Nat : k <= m => (Over(k) <=> \A j \in 1 .. k : mscounter[j] = 1)}
<1>m. m \in Nat
  BY Levelled
<1>1. 0 \in S
  <2>1. _millis + 1 = (_millis + 1) * 1 + 0 /\ 1 \in Nat \ {0} /\ _millis + 1 \in Int /\ 0 \in 0 .. 1 - 1
    OBVIOUS
  <2>2. (_millis + 1) % 1 = 0
    BY <2>1, Remainder
  <2>3. Over(0)
    BY <2>2, Levelled DEF Over
  <2> QED BY <2>3
<1>2. ASSUME NEW k \in Nat, k \in S PROVE k + 1 \in S
  <2> SUFFICES ASSUME k + 1 <= m PROVE Over(k + 1) <=> \A j \in 1 .. k + 1 : mscounter[j] = 1
    OBVIOUS
  <2>1. k + 1 \in 1 .. m /\ (k + 1) - 1 = k /\ k <= m
    BY <1>m
  <2>2. Over(k + 1) <=> Over(k) /\ mscounter[k + 1] = 1
    BY <2>1, LevelStep
  <2>3. Over(k) <=> \A j \in 1 .. k : mscounter[j] = 1
    BY <1>2, <2>1
  <2>4. \A j \in 1 .. k + 1 : j \in 1 .. k \/ j = k + 1
    OBVIOUS
  <2>5. k + 1 \in 1 .. k + 1 /\ \A j \in 1 .. k : j \in 1 .. k + 1
    OBVIOUS
  <2> QED BY <2>2, <2>3, <2>4, <2>5
<1> HIDE DEF S
<1>3. Nat \subseteq S
  BY <1>1, <1>2, Induction
<1> QED BY <1>3, <1>m DEF S

(* A level runs out when its time is over. *)
LEMMA RunsOut ==
  ASSUME ChainInv, _millis \in Nat, NEW k \in 1 .. Len(Levels)
  PROVE  (k \in RunOut <=> Over(k)) /\ (k \in Reached <=> Over(k - 1))
<1>m. Len(Levels) \in Nat
  BY Levelled
<1>1. Over(k) <=> \A j \in 1 .. k : mscounter[j] = 1
  BY <1>m, OverAll
<1>2. Over(k - 1) <=> \A j \in 1 .. k - 1 : mscounter[j] = 1
  <2>1. k - 1 \in 0 .. Len(Levels)
    BY <1>m
  <2> QED BY <2>1, OverAll
<1>3. k \in Reached <=> Over(k - 1)
  BY <1>2 DEF Reached
<1>4. k \in RunOut <=> k \in Reached /\ mscounter[k] = 1
  BY DEF RunOut, Reached
<1> QED BY <1>3, <1>4, LevelStep

LEMMA ChainStep ==
  ASSUME ChainInv, _millis \in Nat, Milli
  PROVE  ChainInv'
<1> DEFINE m == Len(Levels)
           G(k) == Radix[k] - ((_millis' \div Every[k - 1]) % Radix[k])
           F(k) == IF k \in RunOut THEN Radix[k]
                   ELSE IF k \in Reached THEN mscounter[k] - 1 ELSE mscounter[k]
<1>1. mscounter' = [k \in 1 .. m |-> F(k)] /\ _millis' = _millis + 1
  BY DEF Milli, Reload
<1>2. ASSUME NEW k \in 1 .. m PROVE F(k) = G(k)
  <2> DEFINE b == Radix[k]  q == _millis \div Every[k - 1]
  <2>1. mscounter[k] = b - (q % b) /\ q \in Int
        /\ (_millis + 1) \div Every[k - 1] = q + (IF Over(k - 1) THEN 1 ELSE 0)
        /\ (Over(k) <=> Over(k - 1) /\ mscounter[k] = 1)
    BY LevelStep
  <2>2. b \in Nat \ {0}
    BY Levelled
  <2>3. G(k) = b - ((q + (IF Over(k - 1) THEN 1 ELSE 0)) % b)
    BY <1>1, <2>1
  <2>4. (k \in RunOut <=> Over(k)) /\ (k \in Reached <=> Over(k - 1))
    BY RunsOut
  <2>5. F(k) = IF Over(k) THEN b ELSE IF Over(k - 1) THEN mscounter[k] - 1 ELSE mscounter[k]
    BY <2>4
  <2> HIDE DEF F, G, b, q
  <2>6. q % b \in 0 .. b - 1 /\ (q + 1) % b = IF q % b = b - 1 THEN 0 ELSE (q % b) + 1
    BY <2>1, <2>2, Divided, NextRest
  <2>7. CASE Over(k)
    BY <2>1, <2>2, <2>3, <2>5, <2>6, <2>7
  <2>8. CASE ~Over(k) /\ Over(k - 1)
    BY <2>1, <2>2, <2>3, <2>5, <2>6, <2>8
  <2>9. CASE ~Over(k) /\ ~Over(k - 1)
    <3>1. q + 0 = q
      BY <2>1
    <3> QED BY <2>1, <2>3, <2>5, <2>9, <3>1
  <2> QED BY <2>1, <2>7, <2>8, <2>9
<1> HIDE DEF F, G
<1>3. mscounter' = [k \in 1 .. m |-> G(k)]
  BY <1>1, <1>2
<1> QED BY <1>3 DEF ChainInv, G

-----------------------------------------------------------------------------
(* The levels idle() looks at. *)
Tenth == LevelOf("100MS")
Second == LevelOf("1S")

LEMMA Named ==
  /\ Tenth \in 1 .. Len(Levels) /\ Second \in 1 .. Len(Levels) /\ Tenth < Second
  /\ \A k \in 1 .. Len(Levels) : /\ Levels[k] = "100MS" <=> k = Tenth
                                 /\ Levels[k] = "1S" <=> k = Second
<1>1. PICK j \in 1 .. Len(Levels), k \in 1 .. Len(Levels) :
        j < k /\ Levels[j] = "100MS" /\ Levels[k] = "1S"
  BY FlagsAssumption
<1>2. \A i, l \in 1 .. Len(Levels) : Levels[i] = Levels[l] => i = l
  BY FlagsAssumption
<1>3. Tenth \in 1 .. Len(Levels) /\ Levels[Tenth] = "100MS"
  BY <1>1 DEF Tenth, LevelOf
<1>4. Second \in 1 .. Len(Levels) /\ Levels[Second] = "1S"
  BY <1>1 DEF Second, LevelOf
<1>5. j = Tenth /\ k = Second
  BY <1>1, <1>2, <1>3, <1>4
<1> QED BY <1>1, <1>2, <1>3, <1>4, <1>5

(* What a new millisecond does to the two flags. *)
LEMMA FlagsOfMilli ==
  ASSUME ChainInv, _millis \in Nat, Milli
  PROVE  /\ "100MS" \in time_flags' <=> "100MS" \in time_flags \/ Over(Tenth)
         /\ "1S" \in time_flags' <=> "1S" \in time_flags \/ Over(Second)
         /\ Over(Second) => Over(Tenth)
         /\ _millis' \div Every[Tenth] = (_millis \div Every[Tenth]) + (IF Over(Tenth) THEN 1 ELSE 0)
         /\ _millis' \div Every[Second] = (_millis \div Every[Second]) + (IF Over(Second) THEN 1 ELSE 0)
<1>1. /\ time_flags' = time_flags \cup {"1MS"} \cup {Levels[k] : k \in RunOut}
      /\ _millis' = _millis + 1
  BY DEF Milli
<1>2. RunOut \subseteq 1 .. Len(Levels)
  BY DEF RunOut, Reached
<1>3. "100MS" \in {Levels[k] : k \in RunOut} <=> Over(Tenth)
  <2>1. Tenth \in RunOut <=> Over(Tenth)
    BY Named, RunsOut
  <2>2. "100MS" \in {Levels[k] : k \in RunOut} <=> Tenth \in RunOut
    BY <1>2, Named
  <2> QED BY <2>1, <2>2
<1>4. "1S" \in {Levels[k] : k \in RunOut} <=> Over(Second)
  <2>1. Second \in RunOut <=> Over(Second)
    BY Named, RunsOut
  <2>2. "1S" \in {Levels[k] : k \in RunOut} <=> Second \in RunOut
    BY <1>2, Named
  <2> QED BY <2>1, <2>2
<1>5. Over(Second) => Over(Tenth)
  <2>1. Tenth \in 0 .. Len(Levels) /\ Second \in 0 .. Len(Levels) /\ Tenth < Second
    BY Named, Levelled
  <2>2. Over(Second) <=> \A j \in 1 .. Second : mscounter[j] = 1
    BY <2>1, OverAll
  <2>3. Over(Tenth) <=> \A j \in 1 .. Tenth : mscounter[j] = 1
    BY <2>1, OverAll
  <2>4. \A j \in 1 .. Tenth : j \in 1 .. Second
    BY <2>1
  <2> QED BY <2>2, <2>3, <2>4
<1>6. ASSUME NEW k \in 1 .. Len(Levels)
      PROVE  _millis' \div Every[k] = (_millis \div Every[k]) + (IF Over(k) THEN 1 ELSE 0)
  <2>1. Every[k] \in Nat \ {0}
    BY Levelled
  <2>2. (_millis + 1) \div Every[k] =
          (_millis \div Every[k]) + (IF (_millis + 1) % Every[k] = 0 THEN 1 ELSE 0)
    BY <2>1, OneMore
  <2> QED BY <1>1, <2>2 DEF Over
<1> QED BY <1>1, <1>3, <1>4, <1>5, <1>6, Named
-----------------------------------------------------------------------------
(* The milliseconds are the rounds that were counted. *)
RoundsInv ==
  /\ _micros_ctr \in 0 .. PerMilli - 1 /\ _millis \in Nat
  /\ now \div Period = PerMilli * _millis + _micros_ctr + Behind

LEMMA CountRounds ==
  ASSUME ClockInv, RoundsInv, Count
  PROVE  RoundsInv'
<1>1. /\ now \in Nat /\ matched \in BOOLEAN /\ now' = now + 1
      /\ ~(matched /\ (now + 1) % Period = 0)
      /\ matched' = (matched \/ (now + 1) % Period = 0)
      /\ _micros_ctr' = _micros_ctr /\ _millis' = _millis
  BY DEF ClockInv, Count
<1>2. (now + 1) \div Period = (now \div Period) + (IF (now + 1) % Period = 0 THEN 1 ELSE 0)
  BY <1>1, Rounds, OneMore
<1>3. Behind' = Behind + (IF (now + 1) % Period = 0 THEN 1 ELSE 0)
  <2>1. Behind' = IF matched' THEN 1 ELSE 0
    BY DEF Behind
  <2>2. CASE (now + 1) % Period = 0
    <3>1. matched' /\ ~matched
      BY <1>1, <2>2
    <3> QED BY <2>1, <2>2, <3>1 DEF Behind
  <2>3. CASE (now + 1) % Period # 0
    <3>1. matched' = matched
      BY <1>1, <2>3
    <3> QED BY <2>1, <2>3, <3>1 DEF Behind
  <2> QED BY <2>2, <2>3
<1>4. PerMilli * _millis \in Int /\ _micros_ctr \in Int /\ Behind \in Int
  BY ClockAssumption DEF ClockAssumption, RoundsInv, Behind
<1> DEFINE p == PerMilli * _millis
<1>5. now \div Period = p + _micros_ctr + Behind
  BY DEF RoundsInv
<1>6. PerMilli * _millis' = p
  BY <1>1
<1> HIDE DEF p
<1>7. now' \div Period = p + _micros_ctr' + Behind'
  BY <1>1, <1>2, <1>3, <1>4, <1>5 DEF p
<1> QED BY <1>1, <1>6, <1>7 DEF RoundsInv

LEMMA ServedRounds ==
  ASSUME ClockInv, RoundsInv, TIMER0_COMPA_vect
  PROVE  RoundsInv'
<1>1. /\ matched /\ ~matched' /\ now' = now /\ matched' = FALSE
      /\ _micros_ctr' = (_micros_ctr + 1) % PerMilli
      /\ _micros_ctr + 1 >= PerMilli => _millis' = _millis + 1
      /\ ~(_micros_ctr + 1 >= PerMilli) => _millis' = _millis
  BY DEF TIMER0_COMPA_vect, Milli
<1>2. PerMilli \in Nat \ {0} /\ _micros_ctr \in 0 .. PerMilli - 1 /\ _millis \in Nat
      /\ now \div Period = PerMilli * _millis + _micros_ctr + Behind
  BY ClockAssumption DEF ClockAssumption, RoundsInv
<1>3. Behind = 1 /\ Behind' = 0
  BY <1>1 DEF Behind
<1>4. CASE _micros_ctr + 1 >= PerMilli
  <2>1. _micros_ctr + 1 = 1 * PerMilli + 0 /\ 0 \in 0 .. PerMilli - 1 /\ _micros_ctr + 1 \in Int
    BY <1>2, <1>4
  <2>2. _micros_ctr' = 0
    BY <1>1, <1>2, <2>1, Remainder
  <2>3. PerMilli * (_millis + 1) = PerMilli * _millis + PerMilli /\ PerMilli * _millis \in Int
    BY <1>2
  <2>4. _millis' = _millis + 1
    BY <1>1, <1>4
  <2>5. now' \div Period = PerMilli * _millis' + _micros_ctr' + Behind'
    BY <1>1, <1>2, <1>3, <2>1, <2>2, <2>3, <2>4
  <2> QED BY <1>2, <2>2, <2>4, <2>5 DEF RoundsInv
<1>5. CASE ~(_micros_ctr + 1 >= PerMilli)
  <2>1. _micros_ctr + 1 = 0 * PerMilli + (_micros_ctr + 1) /\ _micros_ctr + 1 \in 0 .. PerMilli - 1
        /\ _micros_ctr + 1 \in Int /\ 0 \in Int
    BY <1>2, <1>5
  <2>2. _micros_ctr' = _micros_ctr + 1
    BY <1>1, <1>2, <2>1, Remainder
  <2>4. _millis' = _millis
    BY <1>1, <1>5
  <2>3. PerMilli * _millis \in Int
    BY <1>2
  <2>5. now' \div Period = PerMilli * _millis' + _micros_ctr' + Behind'
    BY <1>1, <1>2, <1>3, <2>2, <2>3, <2>4
  <2> QED BY <1>2, <2>1, <2>2, <2>4, <2>5 DEF RoundsInv
<1> QED BY <1>4, <1>5

(* The counts of the timer to a tenth of a second, and those since the     *)
(* last one.                                                               *)
TenthLasts == Period * (PerMilli * Every[Tenth])
Age == now - (_millis \div Every[Tenth]) * TenthLasts

LEMMA TenthType ==
  /\ Every[Tenth] \in Nat \ {0} /\ Every[Second] \in Nat \ {0} /\ TenthLasts \in Nat
  /\ MaxLag \in Nat /\ Period \in Nat /\ 2 * MaxLag + Period <= TenthLasts
<1>1. Every[Tenth] \in Nat \ {0} /\ Every[Second] \in Nat \ {0}
  BY Named, Levelled
<1>2. PerMilli \in Nat \ {0} /\ Period \in Nat \ {0} /\ MaxLag \in Nat
  BY ClockAssumption, IdleAssumption DEF ClockAssumption, IdleAssumption
<1>3. PerMilli * Every[Tenth] \in Nat
  BY <1>1, <1>2
<1>4. TenthLasts \in Nat
  BY <1>2, <1>3 DEF TenthLasts
<1>5. 2 * MaxLag + Period <= TenthLasts
  BY FlagsAssumption DEF TenthLasts, Tenth
<1> QED BY <1>1, <1>2, <1>4, <1>5

LEMMA AgeType == ASSUME now \in Int, _millis \in Nat PROVE Age \in Int
<1>1. _millis \div Every[Tenth] \in Int
  <2>1. Every[Tenth] \in Nat \ {0} /\ _millis \in Int
    BY TenthType
  <2> QED BY <2>1, Divided
<1>2. (_millis \div Every[Tenth]) * TenthLasts \in Int
  BY <1>1, TenthType
<1> QED BY <1>2 DEF Age

(* When a tenth of a second is over, the last one began that long ago. *)
LEMMA AgeOver ==
  ASSUME ClockInv, RoundsInv, matched, _micros_ctr + 1 >= PerMilli, Over(Tenth)
  PROVE  Age >= TenthLasts /\ Age - TenthLasts <= Period - 1
<1> DEFINE e == Every[Tenth]  q == _millis \div e
<1>1. /\ PerMilli \in Nat \ {0} /\ _micros_ctr \in 0 .. PerMilli - 1 /\ _millis \in Nat
      /\ now \div Period = PerMilli * _millis + _micros_ctr + 1 /\ now \in Nat
  BY ClockAssumption DEF ClockAssumption, RoundsInv, ClockInv, Behind
<1>2. e \in Nat \ {0} /\ q \in Int
  <2>1. e \in Nat \ {0} /\ _millis \in Int
    BY <1>1, TenthType
  <2> HIDE DEF e
  <2> QED BY <2>1, Divided
<1>3. (_millis + 1) \div e = q + 1 /\ (_millis + 1) % e = 0
  BY <1>1, <1>2, OneMore DEF Over
<1>4. _millis + 1 = e * (q + 1)
  <2>1. _millis + 1 \in Int
    BY <1>1
  <2>2. _millis + 1 = e * ((_millis + 1) \div e) + ((_millis + 1) % e)
    <3> HIDE DEF e
    <3> QED BY <1>2, <2>1, Divided
  <2> HIDE DEF e, q
  <2>3. e * (q + 1) \in Int
    BY <1>2
  <2> QED BY <1>3, <2>2, <2>3
<1>5. now = Period * (now \div Period) + (now % Period) /\ now % Period \in 0 .. Period - 1
  <2>1. Period \in Nat \ {0} /\ now \in Int
    BY <1>1, Rounds
  <2> HIDE DEF e, q
  <2> QED BY <2>1, Divided
<1>6. now \div Period = PerMilli * (_millis + 1)
  <2>1. PerMilli * (_millis + 1) = PerMilli * _millis + PerMilli /\ PerMilli * _millis \in Int
    BY <1>1
  <2>2. _micros_ctr + 1 = PerMilli
    BY <1>1
  <2> QED BY <1>1, <2>1, <2>2
<1> HIDE DEF e, q
<1>7. Period * (PerMilli * (e * (q + 1))) = (q + 1) * (Period * (PerMilli * e))
  <2> DEFINE a == q + 1
  <2>1. a \in Int /\ Period \in Int /\ PerMilli \in Int /\ e \in Int
    BY <1>1, <1>2, Rounds
  <2> HIDE DEF a
  <2>2. PerMilli * (e * a) = (PerMilli * e) * a /\ PerMilli * e \in Int
    BY <2>1
  <2> DEFINE b == PerMilli * e
  <2> HIDE DEF b
  <2>3. Period * (b * a) = a * (Period * b)
    BY <2>1, <2>2 DEF b
  <2>4. Period * (PerMilli * (e * a)) = a * (Period * (PerMilli * e))
    BY <2>2, <2>3 DEF b
  <2> QED BY <2>4 DEF a
<1>8. Period * (now \div Period) = (q + 1) * TenthLasts
  BY <1>4, <1>6, <1>7 DEF TenthLasts, e
<1>9. (q + 1) * TenthLasts = q * TenthLasts + TenthLasts /\ q * TenthLasts \in Int
  BY <1>2, TenthType
<1>10. Age = now - q * TenthLasts
  BY DEF Age, q, e
<1> DEFINE p == q * TenthLasts  r == now % Period
<1>11. now = p + TenthLasts + r /\ p \in Int /\ r \in 0 .. Period - 1 /\ Age = now - p
  BY <1>5, <1>8, <1>9, <1>10
<1> HIDE DEF p, r
<1> QED BY <1>11, TenthType

-----------------------------------------------------------------------------
(* Main comes to each test twice in a tenth of a second: a flag set since  *)
(* it came to idle() is Soon served, one it has not yet come to is Late.   *)
Serving == job \notin {"show", "pulse"}
Soon == Age <= Period - 1 + lag
Late == Age <= Period - 1 + MaxLag + lag
AtSecond == {"1S", "read1S", "clear1S"}
AtTenth == {"100MS", "read100MS", "clear100MS", "lcd"}

Deadlines ==
  /\ lag \in 0 .. MaxLag
  /\ "1S" \in time_flags => Soon \/ (Late /\ pc \in AtSecond)
  /\ "100MS" \in time_flags \/ pc = "lcd" => Soon \/ (Late /\ pc \in AtSecond \cup AtTenth)

Copies ==
  /\ pc \in {"read1S", "clear1S"} => "1S" \in time_flags
  /\ pc \in {"read100MS", "clear100MS"} => "100MS" \in time_flags
  /\ pc = "lcd" => "100MS" \notin time_flags
  /\ pc \in {"clear1S", "clear100MS"} => /\ "1S" \in reg <=> "1S" \in time_flags
                                         /\ "100MS" \in reg <=> "100MS" \in time_flags

Served ==
  /\ seen.seconds + InFlight("1S", {}) = _millis \div Every[Second]
  /\ seen.drawn + InFlight("100MS", {"lcd"}) = _millis \div Every[Tenth]

MainInv == pc \notin {"boot", "pulse"} /\ Deadlines /\ Copies /\ Served
ServeInv == ChainInv /\ RoundsInv /\ (Serving => MainInv)

LEMMA ClockKept ==
  ASSUME ChainInv, RoundsInv, UNCHANGED <<now, matched, _micros_ctr, _millis, mscounter>>
  PROVE  /\ ChainInv' /\ RoundsInv' /\ Age' = Age
         /\ _millis' \div Every[Second] = _millis \div Every[Second]
         /\ _millis' \div Every[Tenth] = _millis \div Every[Tenth]
<1>1. ChainInv'
  BY DEF ChainInv
<1>2. RoundsInv'
  BY DEF RoundsInv, Behind
<1>3. Age' = Age
  BY DEF Age
<1> QED BY <1>1, <1>2, <1>3

(* Steps of main that leave the clock, the flags and what is counted alone *)
(* and are no part of idle().                                              *)
LEMMA OutsideIdle ==
  ASSUME ServeInv, MainInv, pc \notin AtSecond \cup AtTenth, pc' \notin AtSecond \cup AtTenth,
         pc' \notin {"boot", "pulse"},
         UNCHANGED <<now, matched, _micros_ctr, _millis, mscounter, time_flags, lag>>,
         seen'.seconds = seen.seconds, seen'.drawn = seen.drawn
  PROVE  MainInv'
<1>1. Age' = Age
      /\ _millis' \div Every[Second] = _millis \div Every[Second]
      /\ _millis' \div Every[Tenth] = _millis \div Every[Tenth]
  BY ClockKept DEF ServeInv
<1>2. Soon' = Soon /\ time_flags' = time_flags /\ lag' = lag
  BY <1>1 DEF Soon
<1>3. Deadlines'
  BY <1>2 DEF MainInv, Deadlines, AtSecond, AtTenth
<1>4. Copies'
  BY DEF Copies, AtSecond, AtTenth
<1>5. Served'
  BY <1>1, <1>2 DEF MainInv, Served, InFlight, AtTenth
<1> QED BY <1>3, <1>4, <1>5 DEF MainInv

LEMMA G4Serves ==
  ASSUME ServeInv, Serving, WaitInv, G4 PROVE MainInv'
<1>1. MainInv /\ seen \in Happened
  BY DEF ServeInv, WaitInv, WaitTypes
<1>2. /\ UNCHANGED <<now, matched, _micros_ctr, _millis, mscounter, time_flags, lag>>
      /\ pc \notin AtSecond \cup AtTenth /\ pc' \notin AtSecond \cup AtTenth
      /\ pc' \notin {"boot", "pulse"}
  <2>1. CASE StartWait
    BY <2>1 DEF StartWait, clock_vars, AtSecond, AtTenth
  <2>2. CASE StartTmp
    BY <2>2 DEF StartTmp, Goto, clock_vars, AtSecond, AtTenth
  <2>3. CASE Compare
    BY <2>3 DEF Compare, Goto, clock_vars, AtSecond, AtTenth
  <2>4. CASE Again
    BY <2>4 DEF Again, Goto, clock_vars, AtSecond, AtTenth
  <2>5. CASE \E l \in {"start", "compare", "again"} : BeginMillis(l)
    BY <2>5 DEF BeginMillis, Goto, HalfRead, clock_vars, AtSecond, AtTenth
  <2> QED BY <2>1, <2>2, <2>3, <2>4, <2>5 DEF G4
<1>3. seen'.seconds = seen.seconds /\ seen'.drawn = seen.drawn
  <2>1. CASE StartWait
    BY <1>1, <2>1 DEF StartWait, Happened
  <2>2. CASE StartTmp \/ Compare \/ \E l \in {"start", "compare", "again"} : BeginMillis(l)
    BY <2>2 DEF StartTmp, Compare, BeginMillis
  <2>3. CASE Again
    BY <1>1, <2>3 DEF Again, Happened
  <2> QED BY <2>1, <2>2, <2>3 DEF G4
<1> QED BY <1>1, <1>2, <1>3, OutsideIdle

(* idle() itself: no flag is set between the read of the byte and the     *)
(* write that clears one of them.                                          *)
LEMMA idleServes ==
  ASSUME ServeInv, Serving, WaitInv, idle PROVE MainInv'
<1>1. /\ MainInv /\ seen \in Happened /\ lag \in 0 .. MaxLag /\ MaxLag \in Nat /\ Period \in Nat
      /\ now \in Int /\ _millis \in Nat /\ ChainInv /\ RoundsInv
  BY TenthType DEF ServeInv, MainInv, Deadlines, WaitInv, WaitTypes
<1>2. Age \in Int
  BY <1>1, AgeType
<1>3. ASSUME UNCHANGED <<now, matched, _micros_ctr, _millis, mscounter>>
      PROVE  /\ Age' = Age
             /\ _millis' \div Every[Second] = _millis \div Every[Second]
             /\ _millis' \div Every[Tenth] = _millis \div Every[Tenth]
  BY <1>1, <1>3, ClockKept
<1>4. CASE StartIdle
  <2>1. /\ pc \in {"loop", "dwell"} /\ pc' = "1S" /\ lag' = 0
        /\ UNCHANGED <<now, matched, _micros_ctr, _millis, mscounter, time_flags, seen, reg>>
    BY <1>4 DEF StartIdle, Goto, clock_vars
  <2>2. Soon => Late'
    BY <1>1, <1>2, <1>3, <2>1 DEF Soon, Late
  <2>3. Deadlines'
    BY <1>1, <2>1, <2>2 DEF MainInv, Deadlines, AtSecond, AtTenth
  <2>4. Copies'
    BY <2>1 DEF Copies
  <2>5. Served'
    BY <1>1, <1>3, <2>1 DEF MainInv, Served, InFlight
  <2> QED BY <2>1, <2>3, <2>4, <2>5 DEF MainInv
<1>5. CASE Test("1S", "100MS")
  <2>1. /\ pc = "1S" /\ pc' = IF "1S" \in time_flags THEN "read1S" ELSE "100MS"
        /\ UNCHANGED <<now, matched, _micros_ctr, _millis, mscounter, time_flags, lag, seen, reg>>
    BY <1>5 DEF Test, Goto, Reading, clock_vars
  <2>2. Soon' = Soon /\ Late' = Late
    BY <1>3, <2>1 DEF Soon, Late
  <2>3. Deadlines'
    BY <1>1, <2>1, <2>2 DEF MainInv, Deadlines, AtSecond, AtTenth
  <2>4. Copies'
    BY <2>1 DEF Copies
  <2>5. Served'
    BY <1>1, <1>3, <2>1 DEF MainInv, Served, InFlight
  <2> QED BY <2>1, <2>3, <2>4, <2>5 DEF MainInv
<1>6. CASE Test("100MS", Caller)
  <2>1. /\ pc = "100MS" /\ pc' = IF "100MS" \in time_flags THEN "read100MS" ELSE Caller
        /\ Caller \in {"compare", "loop"}
        /\ UNCHANGED <<now, matched, _micros_ctr, _millis, mscounter, time_flags, lag, seen, reg>>
    BY <1>6 DEF Test, Goto, Reading, clock_vars, Caller, Serving
  <2>2. Soon' = Soon /\ Late' = Late
    BY <1>3, <2>1 DEF Soon, Late
  <2>3. Deadlines'
    BY <1>1, <2>1, <2>2 DEF MainInv, Deadlines, AtSecond, AtTenth
  <2>4. Copies'
    BY <2>1 DEF Copies
  <2>5. Served'
    BY <1>1, <1>3, <2>1 DEF MainInv, Served, InFlight
  <2> QED BY <2>1, <2>3, <2>4, <2>5 DEF MainInv
<1>7. CASE Read("1S") \/ Read("100MS")
  <2>1. /\ \/ pc = "read1S" /\ pc' = "clear1S"
           \/ pc = "read100MS" /\ pc' = "clear100MS"
        /\ reg' = time_flags
        /\ UNCHANGED <<now, matched, _micros_ctr, _millis, mscounter, time_flags, lag, seen>>
    BY <1>7 DEF Read, Goto, Reading, Clearing, clock_vars
  <2>2. Soon' = Soon /\ Late' = Late
    BY <1>3, <2>1 DEF Soon, Late
  <2>3. Deadlines'
    BY <1>1, <2>1, <2>2 DEF MainInv, Deadlines, AtSecond, AtTenth
  <2>4. Copies'
    BY <1>1, <2>1 DEF MainInv, Copies
  <2>5. Served'
    BY <1>1, <1>3, <2>1 DEF MainInv, Served, InFlight
  <2> QED BY <2>1, <2>3, <2>4, <2>5 DEF MainInv
<1>8. CASE Clear("1S", "100MS")
  <2>1. /\ pc = "clear1S" /\ pc' = "100MS" /\ time_flags' = reg \ {"1S"}
        /\ seen' = [seen EXCEPT !.seconds = @ + 1]
        /\ UNCHANGED <<now, matched, _micros_ctr, _millis, mscounter, lag>>
    BY <1>8 DEF Clear, Goto, Clearing, Without
  <2>2. Soon' = Soon /\ Late' = Late
    BY <1>3, <2>1 DEF Soon, Late
  <2>3. /\ "1S" \notin time_flags' /\ "1S" \in time_flags
        /\ "100MS" \in time_flags' <=> "100MS" \in time_flags
    BY <1>1, <2>1 DEF MainInv, Copies
  <2>4. Deadlines'
    BY <1>1, <2>1, <2>2, <2>3 DEF MainInv, Deadlines, AtSecond, AtTenth
  <2>5. Copies'
    BY <2>1 DEF Copies
  <2>6. seen'.seconds = seen.seconds + 1 /\ seen'.drawn = seen.drawn
        /\ seen.seconds \in Nat /\ seen.drawn \in Nat
    BY <1>1, <2>1 DEF Happened
  <2>7. Served'
    BY <1>1, <1>3, <2>1, <2>3, <2>6 DEF MainInv, Served, InFlight
  <2> QED BY <2>1, <2>4, <2>5, <2>7 DEF MainInv
<1>9. CASE Clear("100MS", "lcd")
  <2>1. /\ pc = "clear100MS" /\ pc' = "lcd" /\ time_flags' = reg \ {"100MS"}
        /\ UNCHANGED <<now, matched, _micros_ctr, _millis, mscounter, lag, seen>>
    BY <1>9 DEF Clear, Goto, Clearing, Without
  <2>2. Soon' = Soon /\ Late' = Late
    BY <1>3, <2>1 DEF Soon, Late
  <2>3. /\ "100MS" \notin time_flags' /\ "100MS" \in time_flags
        /\ "1S" \in time_flags' <=> "1S" \in time_flags
    BY <1>1, <2>1 DEF MainInv, Copies
  <2>4. Deadlines'
    BY <1>1, <2>1, <2>2, <2>3 DEF MainInv, Deadlines, AtSecond, AtTenth
  <2>5. Copies'
    BY <2>1, <2>3 DEF Copies
  <2>6. Served'
    BY <1>1, <1>3, <2>1, <2>3 DEF MainInv, Served, InFlight
  <2> QED BY <2>1, <2>4, <2>5, <2>6 DEF MainInv
<1>10. CASE Redraw
  <2>1. /\ pc = "lcd" /\ pc' = Caller /\ Caller \in {"compare", "loop"}
        /\ seen' = [seen EXCEPT !.drawn = @ + 1]
        /\ UNCHANGED <<now, matched, _micros_ctr, _millis, mscounter, time_flags, lag>>
    BY <1>10 DEF Redraw, Goto, clock_vars, Caller, Serving
  <2>2. Soon' = Soon /\ Late' = Late
    BY <1>3, <2>1 DEF Soon, Late
  <2>3. "100MS" \notin time_flags
    BY <1>1, <2>1 DEF MainInv, Copies
  <2>4. Deadlines'
    BY <1>1, <2>1, <2>2, <2>3 DEF MainInv, Deadlines, AtSecond, AtTenth
  <2>5. Copies'
    BY <2>1 DEF Copies
  <2>6. seen'.seconds = seen.seconds /\ seen'.drawn = seen.drawn + 1
        /\ seen.seconds \in Nat /\ seen.drawn \in Nat
    BY <1>1, <2>1 DEF Happened
  <2>7. Served'
    BY <1>1, <1>3, <2>1, <2>3, <2>6 DEF MainInv, Served, InFlight
  <2> QED BY <2>1, <2>4, <2>5, <2>7 DEF MainInv
<1> QED BY <1>4, <1>5, <1>6, <1>7, <1>8, <1>9, <1>10 DEF idle

LEMMA TickServes ==
  ASSUME ServeInv, ClockInv, WaitInv, Serving, Tick PROVE MainInv'
<1>1. /\ MainInv /\ pc # "pulse" /\ lag \in 0 .. MaxLag /\ MaxLag \in Nat /\ Period \in Nat
      /\ now \in Int /\ _millis \in Nat
  BY TenthType DEF ServeInv, MainInv, Deadlines, WaitInv, WaitTypes
<1>2. /\ now' = now + 1 /\ lag < MaxLag /\ lag' = lag + 1
      /\ UNCHANGED <<_millis, time_flags, pc, reg, seen>>
  BY <1>1 DEF Tick, Count
<1>3. _millis' \div Every[Second] = _millis \div Every[Second]
      /\ _millis' \div Every[Tenth] = _millis \div Every[Tenth]
  BY <1>2
<1>4. Age' = Age + 1 /\ Age \in Int
  <2> DEFINE p == (_millis \div Every[Tenth]) * TenthLasts
  <2>1. p \in Int
    <3>1. Every[Tenth] \in Nat \ {0} /\ _millis \in Int /\ TenthLasts \in Int
      BY <1>1, TenthType
    <3>2. _millis \div Every[Tenth] \in Int
      BY <3>1, Divided
    <3> QED BY <3>1, <3>2
  <2>2. p' = p /\ Age' = now' - p' /\ Age = now - p
    BY <1>2 DEF Age
  <2> HIDE DEF p
  <2> QED BY <1>1, <1>2, <2>1, <2>2
<1>5. (Soon => Soon') /\ (Late => Late')
  BY <1>1, <1>2, <1>4 DEF Soon, Late
<1>6. Deadlines'
  BY <1>1, <1>2, <1>5 DEF MainInv, Deadlines
<1>7. Copies'
  BY <1>1, <1>2 DEF MainInv, Copies
<1>8. Served'
  BY <1>1, <1>2, <1>3 DEF MainInv, Served, InFlight
<1> QED BY <1>1, <1>2, <1>6, <1>7, <1>8 DEF MainInv

(* When the clock sets a flag, main has served the one before.             *)
LEMMA InterruptServes ==
  ASSUME ServeInv, ClockInv, WaitInv, Serving, Interrupt PROVE MainInv'
<1>1. /\ MainInv /\ lag \in 0 .. MaxLag /\ MaxLag \in Nat /\ Period \in Nat
      /\ now \in Int /\ _millis \in Nat /\ ChainInv /\ RoundsInv /\ seen \in Happened
  BY TenthType DEF ServeInv, MainInv, Deadlines, WaitInv, WaitTypes
<1>2. /\ UNCHANGED <<pc, lag, reg, seen>> /\ matched /\ now' = now
      /\ IF _micros_ctr + 1 >= PerMilli THEN Milli ELSE UNCHANGED <<_millis, mscounter, time_flags>>
  BY DEF Interrupt, TIMER0_COMPA_vect, main_vars
<1>3. CASE ~(_micros_ctr + 1 >= PerMilli)
  <2>1. UNCHANGED <<now, _millis, time_flags>>
    BY <1>2, <1>3
  <2>2. Age' = Age
        /\ _millis' \div Every[Second] = _millis \div Every[Second]
        /\ _millis' \div Every[Tenth] = _millis \div Every[Tenth]
    BY <2>1 DEF Age
  <2>3. Soon' = Soon /\ Late' = Late
    BY <1>2, <2>2 DEF Soon, Late
  <2>4. Deadlines' /\ Copies'
    BY <1>1, <1>2, <2>1, <2>3 DEF MainInv, Deadlines, Copies
  <2>5. Served'
    BY <1>1, <1>2, <2>1, <2>2 DEF MainInv, Served, InFlight
  <2> QED BY <1>1, <1>2, <2>4, <2>5 DEF MainInv
<1>4. CASE _micros_ctr + 1 >= PerMilli
  <2> DEFINE q == _millis \div Every[Tenth]  r == _millis \div Every[Second]
             u == _millis' \div Every[Tenth]  v == _millis' \div Every[Second]
  <2>1. Milli
    BY <1>2, <1>4
  <2>2. /\ "100MS" \in time_flags' <=> "100MS" \in time_flags \/ Over(Tenth)
        /\ "1S" \in time_flags' <=> "1S" \in time_flags \/ Over(Second)
        /\ Over(Second) => Over(Tenth)
        /\ u = q + (IF Over(Tenth) THEN 1 ELSE 0)
        /\ v = r + (IF Over(Second) THEN 1 ELSE 0)
    BY <1>1, <2>1, FlagsOfMilli
  <2>3. q \in Int /\ r \in Int
    <3>1. Every[Tenth] \in Nat \ {0} /\ Every[Second] \in Nat \ {0} /\ _millis \in Int
      BY <1>1, TenthType
    <3> QED BY <3>1, Divided
  <2>4. Age = now - q * TenthLasts /\ Age' = now' - u * TenthLasts
    BY DEF Age, TenthLasts
  <2>5. /\ seen.seconds + InFlight("1S", {}) = r
        /\ seen.drawn + InFlight("100MS", {"lcd"}) = q
        /\ Served' <=> /\ seen'.seconds + InFlight("1S", {})' = v
                       /\ seen'.drawn + InFlight("100MS", {"lcd"})' = u
    BY <1>1 DEF MainInv, Served
  <2>6. Age \in Int /\ TenthLasts \in Nat
    BY <1>1, AgeType, TenthType
  <2>7. seen.seconds \in Nat /\ seen.drawn \in Nat /\ seen' = seen
    BY <1>1, <1>2 DEF Happened
  <2> HIDE DEF q, r, u, v
  <2>8. CASE ~Over(Tenth)
    <3>1. u = q /\ v = r /\ ~Over(Second)
      BY <2>2, <2>3, <2>8
    <3>2. Age' = Age
      BY <1>2, <2>4, <3>1
    <3>3. Soon' = Soon /\ Late' = Late
      BY <1>2, <3>2 DEF Soon, Late
    <3>4. ("100MS" \in time_flags' <=> "100MS" \in time_flags)
          /\ ("1S" \in time_flags' <=> "1S" \in time_flags)
      BY <2>2, <2>8, <3>1
    <3>5. Deadlines' /\ Copies'
      BY <1>1, <1>2, <3>3, <3>4 DEF MainInv, Deadlines, Copies
    <3>6. Served'
      BY <1>2, <2>5, <2>7, <3>1, <3>4 DEF InFlight
    <3> QED BY <1>1, <1>2, <3>5, <3>6 DEF MainInv
  <2>9. CASE Over(Tenth)
    <3>1. Age >= TenthLasts /\ Age - TenthLasts <= Period - 1
      BY <1>1, <1>2, <1>4, <2>9, AgeOver
    <3>2. ~Soon /\ ~Late
      BY <1>1, <2>6, <3>1, TenthType DEF Soon, Late
    <3>3. "1S" \notin time_flags /\ "100MS" \notin time_flags /\ pc # "lcd"
      BY <1>1, <3>2 DEF MainInv, Deadlines
    <3>4. pc \notin {"read1S", "clear1S", "read100MS", "clear100MS", "lcd"}
      BY <1>1, <3>3 DEF MainInv, Copies
    <3>5. u = q + 1 /\ (q + 1) * TenthLasts = q * TenthLasts + TenthLasts /\ q * TenthLasts \in Int
      BY <2>2, <2>3, <2>6, <2>9
    <3>6. Age' = Age - TenthLasts
      BY <1>1, <1>2, <2>4, <2>6, <3>5
    <3>7. Soon'
      BY <1>1, <1>2, <2>6, <3>1, <3>6 DEF Soon
    <3>8. Deadlines'
      BY <1>1, <1>2, <3>7 DEF Deadlines
    <3>9. Copies'
      BY <1>2, <3>4 DEF Copies
    <3>10. Served'
      BY <1>2, <2>2, <2>3, <2>5, <2>7, <2>9, <3>3, <3>5 DEF InFlight
    <3> QED BY <1>1, <1>2, <3>8, <3>9, <3>10 DEF MainInv
  <2> QED BY <2>8, <2>9
<1> QED BY <1>3, <1>4

LEMMA InitServes == IdleInit => ServeInv
<1> SUFFICES ASSUME IdleInit PROVE ServeInv
  OBVIOUS
<1>1. /\ now = 0 /\ matched = FALSE /\ _micros_ctr = 0 /\ _millis = 0
      /\ mscounter = Radix /\ time_flags = {} /\ lag = 0 /\ reg = {}
      /\ seen.seconds = 0 /\ seen.drawn = 0
      /\ Serving => pc = "loop"
  BY DEF IdleInit, ClockInit, Serving
<1>2. ASSUME NEW k \in Nat \ {0} PROVE 0 \div k = 0 /\ 0 % k = 0
  <2>1. 0 = 0 * k + 0 /\ 0 \in 0 .. k - 1
    OBVIOUS
  <2> QED BY <2>1, Quotient, Remainder
<1>3. ChainInv
  <2>1. ASSUME NEW k \in 1 .. Len(Levels)
        PROVE  Radix[k] = Radix[k] - ((0 \div Every[k - 1]) % Radix[k])
    <3>1. Every[k - 1] \in Nat \ {0} /\ Radix[k] \in Nat \ {0}
      BY Levelled
    <3>2. 0 \div Every[k - 1] = 0 /\ 0 % Radix[k] = 0
      BY <1>2, <3>1
    <3> QED BY <3>1, <3>2
  <2>2. Radix = [k \in 1 .. Len(Levels) |-> Radix[k]]
    BY ClockAssumption DEF ClockAssumption
  <2>3. [k \in 1 .. Len(Levels) |-> Radix[k]] =
        [k \in 1 .. Len(Levels) |-> Radix[k] - ((0 \div Every[k - 1]) % Radix[k])]
    BY <2>1
  <2> QED BY <1>1, <2>2, <2>3 DEF ChainInv
<1>4. RoundsInv
  <2>1. PerMilli \in Nat \ {0} /\ Period \in Nat \ {0}
    BY ClockAssumption, Rounds DEF ClockAssumption
  <2>2. 0 \div Period = 0 /\ PerMilli * 0 = 0
    BY <1>2, <2>1
  <2> QED BY <1>1, <2>1, <2>2 DEF RoundsInv, Behind
<1>5. ASSUME Serving PROVE MainInv
  <2>1. MaxLag \in Nat
    BY TenthType
  <2>2. pc = "loop" /\ time_flags = {} /\ lag = 0
    BY <1>1, <1>5
  <2>3. Deadlines
    BY <2>1, <2>2 DEF Deadlines
  <2>4. Copies
    BY <2>2 DEF Copies
  <2>5. _millis \div Every[Second] = 0 /\ _millis \div Every[Tenth] = 0
    BY <1>1, <1>2, TenthType
  <2>6. Served
    BY <1>1, <2>2, <2>5 DEF Served, InFlight
  <2> QED BY <2>2, <2>3, <2>4, <2>6 DEF MainInv
<1> QED BY <1>3, <1>4, <1>5 DEF ServeInv

LEMMA NextServes ==
  WaitInv /\ LasingInv /\ ServeInv /\ [Next]_vars => ServeInv'
<1> SUFFICES ASSUME WaitInv, LasingInv, ServeInv, [Next]_vars PROVE ServeInv'
  OBVIOUS
<1>1. ChainInv /\ RoundsInv /\ ClockInv /\ _millis \in Nat
  BY DEF ServeInv, LasingInv, RoundsInv
<1>2. ASSUME UNCHANGED <<now, matched, _micros_ctr, _millis, mscounter>>
      PROVE  ChainInv' /\ RoundsInv'
  BY <1>1, <1>2, ClockKept
<1>3. CASE idle
  <2>1. UNCHANGED <<now, matched, _micros_ctr, _millis, mscounter>> /\ job' = job
    BY <1>3 DEF idle, StartIdle, Test, Read, Clear, Redraw, Goto, clock_vars
  <2> QED BY <1>2, <1>3, <2>1, idleServes DEF ServeInv, Serving
<1>4. CASE G4
  <2>1. UNCHANGED <<now, matched, _micros_ctr, _millis, mscounter>> /\ (Serving' => Serving)
    BY <1>4 DEF G4, StartWait, StartTmp, Compare, Again, BeginMillis, Goto, clock_vars, Serving
  <2> QED BY <1>2, <1>4, <2>1, G4Serves DEF ServeInv
<1>5. CASE Boot
  <2>1. UNCHANGED <<now, matched, _micros_ctr, _millis, mscounter>> /\ job' = job /\ pc = "boot"
    BY <1>5 DEF Boot, clock_vars
  <2> QED BY <1>2, <2>1 DEF ServeInv, Serving, MainInv
<1>6. CASE Pulses
  <2>1. UNCHANGED <<now, matched, _micros_ctr, _millis, mscounter>> /\ job' = job
    BY <1>6 DEF Pulses, P, ReadTimer, TakeTime, LightUp, laser_start_pulse_timer, TIMER3_COMPA_vect,
                Measure, PulseOver, clock_vars, main_vars
  <2>2. ~Serving
    BY <1>6 DEF ServeInv, MainInv, Serving, LasingInv, Lighting, Pulses, P, ReadTimer,
                TakeTime, LightUp, laser_start_pulse_timer, TIMER3_COMPA_vect, Measure, PulseOver
  <2> QED BY <1>2, <2>1, <2>2 DEF ServeInv, Serving
<1>7. CASE Tick
  <2>1. job' = job /\ ChainInv' /\ Count
    BY <1>1, <1>7 DEF Tick, Count, ChainInv
  <2>2. RoundsInv'
    BY <1>1, <2>1, CountRounds
  <2> QED BY <1>1, <1>7, <2>1, <2>2, TickServes DEF ServeInv, Serving
<1>8. CASE Interrupt
  <2>1. TIMER0_COMPA_vect /\ job' = job
    BY <1>8 DEF Interrupt, main_vars
  <2>2. RoundsInv'
    BY <1>1, <2>1, ServedRounds
  <2>3. ChainInv'
    <3>1. CASE _micros_ctr + 1 >= PerMilli
      BY <1>1, <2>1, <3>1, ChainStep DEF TIMER0_COMPA_vect
    <3>2. CASE ~(_micros_ctr + 1 >= PerMilli)
      BY <1>1, <2>1, <3>2 DEF TIMER0_COMPA_vect, ChainInv
    <3> QED BY <3>1, <3>2
  <2> QED BY <1>1, <1>8, <2>1, <2>2, <2>3, InterruptServes DEF ServeInv, Serving
<1>9. CASE UNCHANGED vars
  BY <1>9 DEF vars, clock_vars, main_vars, ServeInv, ChainInv, RoundsInv, Behind, Serving, MainInv,
              Deadlines, Copies, Served, Soon, Late, Age, InFlight
<1> QED BY <1>3, <1>4, <1>5, <1>6, <1>7, <1>8, <1>9 DEF Next, Main

(* No second and no tenth of one is lost or served twice, although idle()  *)
(* clears a flag by writing the whole byte in which the clock's interrupt  *)
(* sets the others (main.c:102-107, time.c:60-134).                        *)
THEOREM EveryFlagServed == Spec => []FlagsServed
<1>1. WaitInv /\ LasingInv /\ ServeInv /\ [Next]_vars => (WaitInv /\ LasingInv /\ ServeInv)'
  BY NextWaits, NextLasing, NextServes
<1>2. IdleInit => WaitInv /\ LasingInv /\ ServeInv
  BY InitWaits, InitLasing, InitServes
<1>3. ServeInv => FlagsServed
  BY DEF ServeInv, Serving, MainInv, Served, FlagsServed, Second, Tenth
<1> QED BY <1>1, <1>2, <1>3, PTL DEF Spec
=============================================================================
