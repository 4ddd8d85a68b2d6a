--------------------------- MODULE UartFlowProofs ---------------------------
(***************************************************************************)
(* Proofs about UartFlow for every size of the buffers and every host: the *)
(* type invariant, that no enabling of the transmit interrupt is lost, and *)
(* that the receive buffer never overruns when it has the margin.          *)
(* The type invariant is proved in three parts, since the counters, the    *)
(* sequences and the flags need different facts; a part that takes a byte  *)
(* also needs that main only reads what is there.                          *)
(***************************************************************************)
EXTENDS UartFlow, TLAPS

USE SizesAssumption, PeerAssumption DEF SizesAssumption, PeerAssumption

CountersOK ==
  /\ rx \in 0 .. RxSize - 1
  /\ reply \in 0 .. ReplyLength
  /\ out \in 0 .. HostFifo
  /\ sinceSent \in 0 .. 1
  /\ pc = "read" => rx > 0

SequencesOK ==
  /\ tx \in Seq(Chars) /\ Len(tx) < TxSize
  /\ wire \in Seq(Chars) /\ Len(wire) <= 2

FlagsOK ==
  /\ XOFF_STATE \subseteq Flags /\ udrie \in BOOLEAN
  /\ pc \in {"poll", "read"}
  /\ host \in {"go", "stopped"}
  /\ killed \in BOOLEAN

LEMMA CountersInit == Init => CountersOK
  BY DEF Init, CountersOK

LEMMA CountersStep == CountersOK /\ [Next]_vars => CountersOK'
<1> SUFFICES ASSUME CountersOK, [Next]_vars PROVE CountersOK'
  OBVIOUS
<1> USE DEF CountersOK
<1>1. CASE Available
  BY <1>1 DEF Available
<1>2. CASE Getchar
  BY <1>2 DEF Getchar
<1>3. CASE Putchar
  BY <1>3 DEF Putchar
<1>4. CASE Udre
  BY <1>4 DEF Udre
<1>5. CASE Receive
  <2>1. rx' \in 0 .. RxSize - 1 /\ (pc' = "read" => rx' > 0)
    BY <1>5 DEF Receive
  <2>2. out' \in 0 .. HostFifo /\ sinceSent' \in 0 .. 1
    BY <1>5 DEF Receive
  <2> QED
    BY <1>5, <2>1, <2>2 DEF Receive
<1>6. CASE HostSends
  BY <1>6 DEF HostSends
<1>7. CASE HostReceives
  BY <1>7 DEF HostReceives
<1>8. CASE UNCHANGED vars
  BY <1>8 DEF vars
<1> QED
  BY <1>1, <1>2, <1>3, <1>4, <1>5, <1>6, <1>7, <1>8 DEF Next, Main

(* Taking the first of a sequence and adding one keep its type. *)
LEMMA SequenceSteps ==
  ASSUME NEW S, NEW s \in Seq(S)
  PROVE  /\ Len(s) \in Nat
         /\ \A x \in S : Append(s, x) \in Seq(S) /\ Len(Append(s, x)) = Len(s) + 1
         /\ s # <<>> => /\ Head(s) \in S
                        /\ Tail(s) \in Seq(S)
                        /\ Len(Tail(s)) = Len(s) - 1
  OBVIOUS

LEMMA SequencesInit == Init => SequencesOK
  BY DEF Init, SequencesOK, Chars

LEMMA SequencesStep == SequencesOK /\ [Next]_vars => SequencesOK'
<1> SUFFICES ASSUME SequencesOK, [Next]_vars PROVE SequencesOK'
  OBVIOUS
<1> USE DEF SequencesOK
<1>t. /\ Len(tx) \in Nat
      /\ \A x \in Chars : Append(tx, x) \in Seq(Chars) /\ Len(Append(tx, x)) = Len(tx) + 1
      /\ tx # <<>> => Head(tx) \in Chars /\ Tail(tx) \in Seq(Chars) /\ Len(Tail(tx)) = Len(tx) - 1
  BY SequenceSteps
<1>w. /\ Len(wire) \in Nat
      /\ \A x \in Chars : Append(wire, x) \in Seq(Chars) /\ Len(Append(wire, x)) = Len(wire) + 1
      /\ wire # <<>> => Tail(wire) \in Seq(Chars) /\ Len(Tail(wire)) = Len(wire) - 1
  BY SequenceSteps
<1>c. {"XON", "XOFF", "reply"} \subseteq Chars
  BY DEF Chars
<1>1. CASE UNCHANGED <<tx, wire>>
  BY <1>1
<1>2. CASE Putchar
  <2>1. tx' = Append(tx, "reply") /\ Len(tx) < TxSize - 1 /\ wire' = wire
    BY <1>2 DEF Putchar, TxRoom
  <2> QED
    BY <2>1, <1>t, <1>c
<1>3. CASE Udre
  <2>1. Len(wire) < 2
    BY <1>3 DEF Udre
  <2>2. \/ tx' = tx /\ wire' = Append(wire, "XOFF")
        \/ tx' = tx /\ wire' = wire
        \/ tx # <<>> /\ tx' = Tail(tx) /\ wire' = Append(wire, Head(tx))
    BY <1>3 DEF Udre
  <2>3. CASE tx' = tx /\ wire' = Append(wire, "XOFF")
    BY <2>1, <2>3, <1>w, <1>c
  <2>4. CASE tx # <<>> /\ tx' = Tail(tx) /\ wire' = Append(wire, Head(tx))
    BY <2>1, <2>4, <1>w, <1>t
  <2> QED
    BY <2>2, <2>3, <2>4
<1>4. CASE HostReceives
  BY <1>4, <1>w DEF HostReceives
<1>5. Available \/ Getchar \/ Receive \/ HostSends \/ UNCHANGED vars => UNCHANGED <<tx, wire>>
  BY DEF Available, Getchar, Receive, HostSends, vars
<1> QED
  BY <1>1, <1>2, <1>3, <1>4, <1>5 DEF Next, Main

LEMMA FlagsInit == Init => FlagsOK
  BY DEF Init, FlagsOK, Flags

LEMMA FlagsStep == FlagsOK /\ [Next]_vars => FlagsOK'
<1> SUFFICES ASSUME FlagsOK, [Next]_vars PROVE FlagsOK'
  OBVIOUS
<1> USE DEF FlagsOK
<1>1. CASE Available
  <2>1. pc' \in {"poll", "read"} /\ udrie' \in BOOLEAN
    BY <1>1, Zenon DEF Available, AsksForMore
  <2>2. XOFF_STATE' \subseteq Flags
    BY <1>1, Zenon DEF Available, Flags
  <2> QED
    BY <1>1, <2>1, <2>2, Zenon DEF Available
<1>2. CASE Getchar
  BY <1>2, Zenon DEF Getchar
<1>3. CASE Putchar
  BY <1>3, Zenon DEF Putchar
<1>4. CASE Udre
  <2>1. XOFF_STATE' \subseteq Flags /\ udrie' \in BOOLEAN
    BY <1>4, Zenon DEF Udre, Flags
  <2> QED
    BY <1>4, <2>1, Zenon DEF Udre
<1>5. CASE Receive
  <2>1. XOFF_STATE' \subseteq Flags
    BY <1>5, Zenon DEF Receive, Flags
  <2>2. udrie' \in BOOLEAN /\ killed' \in BOOLEAN
    BY <1>5, Zenon DEF Receive
  <2> QED
    BY <1>5, <2>1, <2>2, Zenon DEF Receive
<1>6. CASE HostSends
  BY <1>6, Zenon DEF HostSends
<1>7. CASE HostReceives
  BY <1>7, Zenon DEF HostReceives
<1>8. CASE UNCHANGED vars
  BY <1>8, Zenon DEF vars
<1> QED
  BY <1>1, <1>2, <1>3, <1>4, <1>5, <1>6, <1>7, <1>8 DEF Next, Main

LEMMA PartsGiveType == CountersOK /\ SequencesOK /\ FlagsOK => TypeOK
  BY DEF CountersOK, SequencesOK, FlagsOK, TypeOK

(* Type correctness of the port, for every size of its buffers: no count   *)
(* leaves its range and neither buffer holds more than it can (uart.c).    *)
THEOREM TypeCorrect == Spec => []TypeOK
<1>1. Init => CountersOK /\ SequencesOK /\ FlagsOK
  BY CountersInit, SequencesInit, FlagsInit
<1>2. CountersOK /\ SequencesOK /\ FlagsOK /\ [Next]_vars
        => (CountersOK /\ SequencesOK /\ FlagsOK)'
  BY CountersStep, SequencesStep, FlagsStep
<1>3. Spec => [](CountersOK /\ SequencesOK /\ FlagsOK)
  BY <1>1, <1>2, PTL DEF Spec
<1> QED
  BY <1>3, PartsGiveType, PTL

LEMMA WakeupStep == NoLostWakeup /\ [Next]_vars => NoLostWakeup'
<1> SUFFICES ASSUME NoLostWakeup, [Next]_vars PROVE NoLostWakeup'
  OBVIOUS
<1> USE DEF NoLostWakeup
<1>1. CASE Available
  BY <1>1, Zenon DEF Available
<1>2. CASE Putchar
  BY <1>2, Zenon DEF Putchar
<1>3. CASE Udre
  BY <1>3, Zenon DEF Udre
<1>4. CASE Receive
  BY <1>4, Zenon DEF Receive
<1>5. CASE UNCHANGED <<tx, XOFF_STATE, udrie>>
  BY <1>5, Zenon
<1>6. Getchar \/ HostSends \/ HostReceives \/ UNCHANGED vars
        => UNCHANGED <<tx, XOFF_STATE, udrie>>
  BY DEF Getchar, HostSends, HostReceives, vars
<1> QED
  BY <1>1, <1>2, <1>3, <1>4, <1>5, <1>6 DEF Next, Main

(* Whatever waits to be sent has the transmit interrupt enabled, in every  *)
(* order of main and the two handlers (uart.c:42, 63, 81-84, 108).  The    *)
(* invariant is inductive as it stands.                                    *)
THEOREM WakeupKept == Spec => []NoLostWakeup
<1>1. Init => NoLostWakeup
  BY DEF Init, NoLostWakeup
<1> QED
  BY <1>1, WakeupStep, PTL DEF Spec
-----------------------------------------------------------------------------
(* No overrun.  The invariant follows the one XON of uart_init and the     *)
(* first XOFF asked for after it, and counts the bytes that can still come *)
(* before the host stops: one at once unless one came since the last byte  *)
(* left, one for each byte that leaves before XOFF, and the host's own.    *)
Quarter == RxSize \div 4

OnlyReplies(s)  == \A i \in 1 .. Len(s) : s[i] = "reply"
RepliesAfter(s) == \A i \in 2 .. Len(s) : s[i] = "reply"
NoXon(s)        == \A i \in 1 .. Len(s) : s[i] # "XON"

(* XON still waits in the transmit buffer, behind what is sent for its     *)
(* request.                                                                *)
Starting ==
  /\ Len(tx) > 0 /\ tx[1] = "XON" /\ RepliesAfter(tx)
  /\ \/ XOFF_STATE = {"REQUEST_SENDING_XON"} /\ Len(wire) = 0 /\ rx <= sinceSent
     \/ XOFF_STATE = {} /\ Len(wire) = 1 /\ rx <= sinceSent
     \/ XOFF_STATE = {} /\ Len(wire) = 0 /\ rx <= 1 + sinceSent

(* XON is on its way to the host. *)
Permitting ==
  /\ OnlyReplies(tx) /\ XOFF_STATE = {}
  /\ \/ Len(wire) = 2 /\ wire[2] = "XON" /\ rx <= sinceSent
     \/ Len(wire) > 0 /\ wire[1] = "XON" /\ RepliesAfter(wire) /\ rx <= 1 + sinceSent

Running ==
  /\ host = "go" /\ OnlyReplies(tx) /\ OnlyReplies(wire)
  /\ XOFF_STATE = {} /\ rx <= Quarter + 1

(* XOFF is asked for. *)
Wanted ==
  /\ OnlyReplies(tx) /\ OnlyReplies(wire)
  /\ XOFF_STATE = {"REQUEST_SENDING_XOFF"}
  /\ rx + 1 - sinceSent + Len(wire) + HostFifo < RxSize

(* XOFF is on its way to the host. *)
Stopping ==
  /\ OnlyReplies(tx) /\ NoXon(wire)
  /\ \/ /\ Len(wire) > 0 /\ wire[1] = "XOFF"
        /\ rx + 1 - sinceSent + HostFifo < RxSize
     \/ /\ Len(wire) = 2 /\ wire[2] = "XOFF"
        /\ rx + 2 - sinceSent + HostFifo < RxSize

Stopped ==
  /\ host = "stopped" /\ OnlyReplies(tx) /\ NoXon(wire)
  /\ rx + out < RxSize

FlowInv == ~killed /\ (Starting \/ Permitting \/ Running \/ Wanted \/ Stopping \/ Stopped)

FlowTypes == CountersOK /\ SequencesOK /\ FlagsOK /\ NoLostWakeup

LEMMA Appended ==
  ASSUME NEW s \in Seq(Chars), NEW c \in Chars
  PROVE  /\ Append(s, c) \in Seq(Chars) /\ Len(Append(s, c)) = Len(s) + 1
         /\ Append(s, c)[Len(s) + 1] = c
         /\ \A i \in 1 .. Len(s) : Append(s, c)[i] = s[i]
  OBVIOUS

LEMMA Dropped ==
  ASSUME NEW s \in Seq(Chars), s # <<>>
  PROVE  /\ Len(s) > 0 /\ Head(s) = s[1]
         /\ Tail(s) \in Seq(Chars) /\ Len(Tail(s)) = Len(s) - 1
         /\ \A i \in 1 .. Len(s) - 1 : Tail(s)[i] = s[i + 1]
  OBVIOUS

LEMMA EmptyLength == ASSUME NEW s \in Seq(Chars) PROVE s = <<>> <=> Len(s) = 0
  OBVIOUS

LEMMA ReplyKept ==
  ASSUME NEW s \in Seq(Chars)
  PROVE  /\ OnlyReplies(s) => OnlyReplies(Append(s, "reply")) /\ NoXon(s)
         /\ RepliesAfter(s) /\ Len(s) > 0 => RepliesAfter(Append(s, "reply"))
         /\ Len(s) = 1 => RepliesAfter(s)
         /\ \A c \in Chars : NoXon(s) /\ c # "XON" => NoXon(Append(s, c))
  BY Appended DEF OnlyReplies, RepliesAfter, NoXon, Chars

LEMMA ReplyLeft ==
  ASSUME NEW s \in Seq(Chars), s # <<>>
  PROVE  /\ OnlyReplies(s) => OnlyReplies(Tail(s)) /\ Head(s) = "reply"
         /\ RepliesAfter(s) => OnlyReplies(Tail(s))
         /\ NoXon(s) => NoXon(Tail(s)) /\ Head(s) # "XON"
  BY Dropped DEF OnlyReplies, RepliesAfter, NoXon

Ranges ==
  /\ rx \in Int /\ rx >= 0 /\ rx < RxSize
  /\ sinceSent \in Int /\ (sinceSent = 0 \/ sinceSent = 1)
  /\ out \in Int /\ out >= 0 /\ out <= HostFifo
  /\ Len(wire) \in Int /\ (Len(wire) = 0 \/ Len(wire) = 1 \/ Len(wire) = 2)

LEMMA Typed == FlowTypes => tx \in Seq(Chars) /\ wire \in Seq(Chars)
  BY DEF FlowTypes, SequencesOK

LEMMA FewBytes ==
  ASSUME NEW s \in Seq(Chars), Len(s) <= 2
  PROVE  Len(s) \in Int /\ Len(s) \in 0 .. 2
<1>1. Len(s) \in Nat
  OBVIOUS
<1>2. \A n \in Nat : n <= 2 => n \in Int /\ n \in 0 .. 2
  OBVIOUS
<1> QED BY <1>1, <1>2

LEMMA InRanges == ASSUME FlowTypes PROVE Ranges
<1>1. Len(wire) \in Int /\ Len(wire) \in 0 .. 2
  BY FewBytes DEF FlowTypes, SequencesOK
<1> QED BY <1>1 DEF Ranges, FlowTypes, CountersOK

LEMMA NextInRanges == ASSUME FlowTypes, Next PROVE Ranges'
<1>1. CountersOK' /\ SequencesOK'
  BY CountersStep, SequencesStep DEF FlowTypes
<1>2. Len(wire') \in Int /\ Len(wire') \in 0 .. 2
  BY <1>1, FewBytes DEF SequencesOK
<1> QED BY <1>1, <1>2 DEF Ranges, CountersOK

(* The sums below, free of the variables. *)
LEMMA SumBelow ==
  ASSUME NEW R \in Int, NEW a \in Int, NEW b \in Int, NEW c \in Int, a + b < R, c <= a
  PROVE  c + b < R
  OBVIOUS

LEMMA UpToTwo ==
  ASSUME NEW n, n = 0 \/ n = 1 \/ n = 2
  PROVE  n <= 2 /\ (n > 0 /\ n < 2 => n = 1)
  OBVIOUS

LEMMA FewerKept ==
  ASSUME NEW a \in Int, NEW b \in Int, NEW c \in Int, c <= a
  PROVE  c - b <= a - b
  OBVIOUS

LEMMA BudgetKept ==
  ASSUME NEW R \in Int, NEW H \in Int, NEW k \in Int, NEW a \in Int, NEW b \in Int,
         NEW c \in Int, NEW d \in Int, a + k - b + H < R, c - d <= a - b
  PROVE  c + k - d + H < R
  OBVIOUS

LEMMA BudgetAtRequest ==
  ASSUME NEW R \in Int, NEW H \in Int, NEW Q \in Int, NEW r \in Int, NEW s \in Int, NEW l \in Int,
         Q + H + 5 <= R, r <= Q + 2, l <= 2, s = 1 \/ (s = 0 /\ l = 0)
  PROVE  r + 1 - s + l + H < R
  OBVIOUS

(* The capacity of the host, as the provers see it best. *)
LEMMA Capacity == HostFifo \in Int /\ HostFifo >= 1 /\ RxSize \in Int /\ RxSize >= 8
  OBVIOUS

LEMMA Second ==
  ASSUME NEW s \in Seq(Chars), Len(s) = 2
  PROVE  Tail(s) \in Seq(Chars) /\ Len(Tail(s)) = 1 /\ Tail(s)[1] = s[2]
  OBVIOUS

LEMMA QuarterRange == Quarter \in Nat /\ Quarter >= 2
  BY DEF Quarter

(* What the interrupt of the receiver does to the counts. *)
LEMMA ReceiveCounts ==
  ASSUME FlowTypes, Receive
  PROVE  /\ UNCHANGED <<tx, wire, pc, reply, host>> /\ out > 0 /\ out' = out - 1
         /\ Sending => sinceSent = 0 /\ sinceSent' = 1
         /\ ~Sending => sinceSent' = 0
         /\ rx < RxSize - 1 => rx' = rx + 1 /\ ~killed'
         /\ rx <= Quarter => UNCHANGED XOFF_STATE
         /\ XOFF_STATE = {} => XOFF_STATE' \in {{}, {"REQUEST_SENDING_XOFF"}}
         /\ XOFF_STATE = {"REQUEST_SENDING_XOFF"} => UNCHANGED XOFF_STATE
<1> USE DEF FlowTypes
<1>1. UNCHANGED <<tx, wire, pc, reply, host>> /\ out > 0 /\ out' = out - 1
  BY DEF Receive
<1>2. (Sending => sinceSent = 0 /\ sinceSent' = 1) /\ (~Sending => sinceSent' = 0)
  BY DEF Receive
<1>3. rx < RxSize - 1 => rx' = rx + 1 /\ ~killed'
  <2>1. rx < RxSize - 1 => rx # RxSize - 1 /\ rx' = rx + 1
    BY DEF Receive, CountersOK
  <2>2. rx # RxSize - 1 => ~killed'
    BY Zenon DEF Receive
  <2> QED BY <2>1, <2>2
<1>4. rx <= Quarter => ~QuiteFull
  BY QuarterRange DEF QuiteFull, Quarter, CountersOK
<1>5. ~QuiteFull => UNCHANGED XOFF_STATE
  BY Zenon DEF Receive
<1>6. XOFF_STATE = {} => XOFF_STATE' \in {{}, {"REQUEST_SENDING_XOFF"}}
  BY DEF Receive
<1>7. XOFF_STATE = {"REQUEST_SENDING_XOFF"} => UNCHANGED XOFF_STATE
  BY DEF Receive
<1> QED
  BY <1>1, <1>2, <1>3, <1>4, <1>5, <1>6, <1>7

(* What main leaves alone. *)
LEMMA MainCounts ==
  ASSUME FlowTypes, Main
  PROVE  /\ UNCHANGED <<wire, host, out, sinceSent, killed>> /\ rx' <= rx
         /\ "XOFF_SEND" \notin XOFF_STATE => UNCHANGED XOFF_STATE
         /\ tx' = tx \/ tx' = Append(tx, "reply")
<1> USE DEF FlowTypes
<1>1. CASE Available
  <2>1. "XOFF_SEND" \notin XOFF_STATE => UNCHANGED XOFF_STATE
    BY <1>1, Zenon DEF Available, AsksForMore
  <2> QED BY <1>1, <2>1 DEF Available, CountersOK
<1>2. CASE Getchar
  BY <1>2 DEF Getchar, CountersOK
<1>3. CASE Putchar
  BY <1>3 DEF Putchar, CountersOK
<1> QED BY <1>1, <1>2, <1>3 DEF Main

LEMMA MainReplies ==
  ASSUME FlowTypes, Main, OnlyReplies(tx)
  PROVE  OnlyReplies(tx')
<1>1. tx' = tx \/ tx' = Append(tx, "reply")
  BY MainCounts
<1>2. OnlyReplies(Append(tx, "reply"))
  BY Typed, ReplyKept
<1> QED BY <1>1, <1>2

(* What a byte that has arrived changes. *)
LEMMA HostReceivesCounts ==
  ASSUME FlowTypes, HostReceives
  PROVE  /\ UNCHANGED <<rx, tx, XOFF_STATE, out, killed>> /\ sinceSent' = 0
         /\ wire # <<>> /\ wire' = Tail(wire)
         /\ wire[1] = "XOFF" => host' = "stopped"
         /\ wire[1] = "XON" => host' = "go"
         /\ wire[1] = "reply" => host' = host
  BY Dropped DEF FlowTypes, SequencesOK, HostReceives

LEMMA StartingStep ==
  ASSUME FlowTypes, ~killed, Starting, Next
  PROVE  FlowInv'
<1> USE DEF FlowTypes
<1>1. rx <= 2 /\ rx < RxSize - 1 /\ rx <= Quarter /\ "XOFF_SEND" \notin XOFF_STATE
  BY QuarterRange DEF Starting, CountersOK
<1>2. CASE Main
  <2>1. Len(tx') > 0 /\ tx'[1] = "XON" /\ RepliesAfter(tx')
    <3>1. tx' = tx \/ tx' = Append(tx, "reply")
      BY <1>2, MainCounts
    <3>2. tx \in Seq(Chars) /\ Len(tx) > 0 /\ tx[1] = "XON" /\ RepliesAfter(tx)
      BY DEF Starting, SequencesOK
    <3>3. Len(Append(tx, "reply")) > 0 /\ Append(tx, "reply")[1] = "XON"
          /\ RepliesAfter(Append(tx, "reply"))
      BY <3>2, Appended, ReplyKept DEF Chars
    <3> QED BY <3>1, <3>2, <3>3
  <2>2. UNCHANGED <<wire, sinceSent, killed, XOFF_STATE>> /\ rx' <= rx
    BY <1>1, <1>2, MainCounts
  <2>3. rx' \in Int /\ rx \in Int
    BY <1>2, CountersStep DEF CountersOK, Next
  <2> QED
    BY <2>1, <2>2, <2>3 DEF Starting, FlowInv, CountersOK
<1>3. CASE Udre
  <2>1. tx # <<>> /\ Head(tx) = "XON" /\ OnlyReplies(Tail(tx))
    BY Dropped, EmptyLength, ReplyLeft DEF Starting, SequencesOK
  <2>2. UNCHANGED <<rx, sinceSent, killed>>
    BY <1>3 DEF Udre
  <2>3. CASE XOFF_STATE = {"REQUEST_SENDING_XON"}
    <3>1. wire' = Append(wire, "XOFF") /\ XOFF_STATE' = {} /\ tx' = tx
      BY <1>3, <2>3 DEF Udre
    <3>2. Len(wire) = 0 /\ rx <= sinceSent
      BY <2>3 DEF Starting
    <3>3. Len(wire') = 1
      BY <3>1, <3>2, Appended DEF SequencesOK, Chars
    <3> QED
      BY <2>2, <3>1, <3>2, <3>3 DEF Starting, FlowInv
  <2>4. CASE XOFF_STATE = {}
    <3>1. wire' = Append(wire, "XON") /\ XOFF_STATE' = {} /\ tx' = Tail(tx)
      BY <1>3, <2>1, <2>4 DEF Udre
    <3>2. (Len(wire) = 1 /\ rx <= sinceSent) \/ (Len(wire) = 0 /\ rx <= 1 + sinceSent)
      BY <2>4 DEF Starting
    <3>3. Len(wire') = Len(wire) + 1 /\ wire'[Len(wire) + 1] = "XON"
      BY <3>1, Appended DEF SequencesOK, Chars
    <3>4. Len(wire) = 0 => RepliesAfter(wire')
      BY <3>3 DEF RepliesAfter
    <3>5. OnlyReplies(tx')
      BY <2>1, <3>1
    <3>6. CASE Len(wire) = 1
      <4>1. Len(wire') = 2 /\ wire'[2] = "XON" /\ rx' <= sinceSent'
        BY <2>2, <3>2, <3>3, <3>6
      <4> QED
        BY <2>2, <3>1, <3>5, <4>1 DEF Permitting, FlowInv
    <3>7. CASE Len(wire) = 0
      <4>1. Len(wire') > 0 /\ wire'[1] = "XON" /\ RepliesAfter(wire') /\ rx' <= 1 + sinceSent'
        BY <2>2, <3>2, <3>3, <3>4, <3>7
      <4> QED
        BY <2>2, <3>1, <3>5, <4>1 DEF Permitting, FlowInv
    <3> QED
      BY <3>2, <3>6, <3>7
  <2> QED
    BY <2>3, <2>4 DEF Starting
<1>4. CASE Receive
  <2>1. Sending
    BY EmptyLength DEF Sending, NoLostWakeup, Starting, SequencesOK
  <2>2. UNCHANGED <<tx, wire, XOFF_STATE>> /\ sinceSent = 0 /\ sinceSent' = 1
        /\ rx' = rx + 1 /\ ~killed'
    BY <1>1, <1>4, <2>1, ReceiveCounts
  <2> QED
    BY <2>2 DEF Starting, FlowInv, CountersOK
<1>5. CASE HostSends
  BY <1>5 DEF HostSends, Starting, FlowInv
<1>6. CASE HostReceives
  <2>1. UNCHANGED <<rx, tx, XOFF_STATE, killed>> /\ sinceSent' = 0 /\ Len(wire) > 0
        /\ Len(wire') = Len(wire) - 1
    BY <1>6, HostReceivesCounts, Dropped DEF SequencesOK
  <2>2. XOFF_STATE = {} /\ Len(wire) = 1 /\ rx <= sinceSent
    BY <2>1 DEF Starting
  <2> QED
    BY <2>1, <2>2 DEF Starting, FlowInv, CountersOK
<1> QED
  BY <1>2, <1>3, <1>4, <1>5, <1>6 DEF Next

LEMMA PermittingStep ==
  ASSUME FlowTypes, ~killed, Permitting, Next
  PROVE  FlowInv'
<1> USE DEF FlowTypes
<1>1. rx <= 2 /\ rx < RxSize - 1 /\ rx <= Quarter /\ XOFF_STATE = {} /\ Len(wire) > 0
      /\ wire # <<>>
  BY QuarterRange, EmptyLength DEF Permitting, CountersOK, SequencesOK
<1>2. ASSUME OnlyReplies(tx'), UNCHANGED <<wire, sinceSent, killed, XOFF_STATE>>, rx' \in Int, rx' <= rx
      PROVE  FlowInv'
  BY <1>2 DEF Permitting, FlowInv, CountersOK
<1>3. CASE Main
  <2>1. OnlyReplies(tx')
    BY <1>3, MainCounts, ReplyKept DEF Permitting, SequencesOK
  <2>2. UNCHANGED <<wire, sinceSent, killed, XOFF_STATE>> /\ rx' <= rx
    BY <1>1, <1>3, MainCounts
  <2>3. rx' \in Int
    BY <1>3, CountersStep DEF CountersOK, Next
  <2> QED
    BY <1>2, <2>1, <2>2, <2>3
<1>4. CASE Udre
  <2>1. UNCHANGED <<rx, sinceSent, killed, XOFF_STATE>>
    BY <1>1, <1>4 DEF Udre
  <2>2. CASE tx = <<>>
    <3>1. UNCHANGED <<tx, wire>>
      BY <1>1, <1>4, <2>2 DEF Udre
    <3> QED
      BY <1>2, <2>1, <3>1 DEF Permitting, CountersOK
  <2>3. CASE tx # <<>>
    <3>1. Head(tx) = "reply" /\ OnlyReplies(Tail(tx))
      BY <2>3, Typed, ReplyLeft DEF Permitting
    <3>2. wire' = Append(wire, Head(tx)) /\ tx' = Tail(tx)
      BY <1>1, <1>4, <2>3 DEF Udre
    <3>3. wire' = Append(wire, "reply") /\ OnlyReplies(tx')
      BY <3>1, <3>2, Zenon
    <3>4. Len(wire) < 2
      BY <1>4 DEF Udre
    <3>5. Len(wire) = 1
      BY <1>1, <3>4, InRanges, UpToTwo, Zenon DEF Ranges
    <3>6. wire[1] = "XON" /\ rx <= 1 + sinceSent
      BY <3>5 DEF Permitting
    <3>7. Len(wire') > 0 /\ wire'[1] = "XON" /\ RepliesAfter(wire')
      BY <3>3, <3>5, <3>6, Appended, ReplyKept DEF SequencesOK, Chars
    <3> QED
      BY <1>1, <2>1, <3>3, <3>6, <3>7 DEF Permitting, FlowInv
  <2> QED
    BY <2>2, <2>3
<1>5. CASE Receive
  <2>1. UNCHANGED <<tx, wire, XOFF_STATE>> /\ sinceSent = 0 /\ sinceSent' = 1
        /\ rx' = rx + 1 /\ ~killed'
    BY <1>1, <1>5, ReceiveCounts DEF Sending
  <2> QED
    BY <2>1 DEF Permitting, FlowInv, CountersOK
<1>6. CASE HostSends
  BY <1>6 DEF HostSends, Permitting, FlowInv
<1>7. CASE HostReceives
  <2>1. UNCHANGED <<rx, tx, XOFF_STATE, killed>> /\ sinceSent' = 0 /\ wire' = Tail(wire)
    BY <1>7, HostReceivesCounts
  <2>2. CASE wire[1] = "XON" /\ RepliesAfter(wire) /\ rx <= 1 + sinceSent
    <3>1. host' = "go" /\ OnlyReplies(wire')
      BY <1>1, <1>7, <2>1, <2>2, HostReceivesCounts, ReplyLeft DEF SequencesOK
    <3>2. rx' <= Quarter + 1
      BY <1>1, <2>1, QuarterRange DEF CountersOK
    <3> QED
      BY <1>1, <2>1, <3>1, <3>2 DEF Permitting, Running, FlowInv
  <2>3. CASE Len(wire) = 2 /\ wire[2] = "XON" /\ rx <= sinceSent
    <3>1. Len(wire') = 1 /\ wire'[1] = "XON" /\ wire' \in Seq(Chars)
      BY <2>1, <2>3, Typed, Second
    <3>2. RepliesAfter(wire')
      BY <3>1, ReplyKept
    <3>3. rx' <= 1 + sinceSent'
      BY <2>1, <2>3, InRanges DEF Ranges
    <3> QED
      BY <1>1, <2>1, <3>1, <3>2, <3>3 DEF Permitting, FlowInv
  <2> QED
    BY <2>2, <2>3 DEF Permitting
<1> QED
  BY <1>3, <1>4, <1>5, <1>6, <1>7 DEF Next

(* The margin: one byte above the quarter, the one that asks for XOFF, two *)
(* while the transmitter sends what it holds, and a place never used.      *)
Margin == Quarter + HostFifo + 5 <= RxSize

LEMMA RunningStep ==
  ASSUME FlowTypes, ~killed, Running, Next, Margin
  PROVE  FlowInv'
<1> USE DEF FlowTypes
<1>1. rx \in Int /\ rx < RxSize - 1 /\ XOFF_STATE = {} /\ rx <= Quarter + 1
  BY QuarterRange DEF Running, CountersOK, Margin
<1>2. ASSUME OnlyReplies(tx'), OnlyReplies(wire'), UNCHANGED <<host, killed, XOFF_STATE>>,
             rx' \in Int, rx' <= rx
      PROVE  FlowInv'
  <2>1. rx' <= Quarter + 1
    BY <1>1, <1>2, QuarterRange
  <2> QED
    BY <1>2, <2>1 DEF Running, FlowInv
<1>3. CASE Main
  <2>1. OnlyReplies(tx') /\ OnlyReplies(wire')
    BY <1>3, MainCounts, ReplyKept DEF Running, SequencesOK
  <2>2. UNCHANGED <<host, killed, XOFF_STATE>> /\ rx' <= rx
    BY <1>1, <1>3, MainCounts
  <2>3. rx' \in Int
    BY <1>3, CountersStep DEF CountersOK, Next
  <2> QED
    BY <1>2, <2>1, <2>2, <2>3
<1>4. CASE Udre
  <2>1. UNCHANGED <<rx, host, killed, XOFF_STATE>>
    BY <1>1, <1>4 DEF Udre
  <2>2. CASE tx = <<>>
    BY <1>1, <1>2, <1>4, <2>1, <2>2 DEF Udre, Running
  <2>3. CASE tx # <<>>
    <3>1. wire' = Append(wire, "reply") /\ OnlyReplies(tx')
      BY <1>1, <1>4, <2>3, ReplyLeft DEF Udre, Running, SequencesOK
    <3>2. OnlyReplies(wire')
      BY <3>1, ReplyKept DEF Running, SequencesOK
    <3> QED
      BY <1>1, <1>2, <2>1, <3>1, <3>2
  <2> QED
    BY <2>2, <2>3
<1>5. CASE Receive
  <2>1. UNCHANGED <<tx, wire, host>> /\ rx' = rx + 1 /\ ~killed'
    BY <1>1, <1>5, ReceiveCounts
  <2>2. CASE rx <= Quarter
    <3>1. rx' <= Quarter + 1 /\ XOFF_STATE' = {}
      BY <1>1, <1>5, <2>1, <2>2, QuarterRange, ReceiveCounts
    <3> QED
      BY <2>1, <3>1 DEF Running, FlowInv
  <2>3. CASE XOFF_STATE' = {} /\ rx > Quarter
    <3>1. QuiteFull
      BY <2>3 DEF QuiteFull, Quarter
    <3> QED
      BY <1>1, <1>5, <2>3, <3>1 DEF Receive
  <2>4. CASE XOFF_STATE' = {"REQUEST_SENDING_XOFF"}
    <3>1. sinceSent' = 1 \/ (sinceSent' = 0 /\ Len(wire) = 0)
      <4>1. Sending => sinceSent' = 1
        BY <1>5, ReceiveCounts
      <4>2. ~Sending => sinceSent' = 0 /\ wire = <<>>
        BY <1>5, ReceiveCounts DEF Sending
      <4> QED
        BY <4>1, <4>2, Typed, EmptyLength
    <3>2. rx' \in Int /\ sinceSent' \in Int /\ Len(wire') \in Int /\ Len(wire') <= 2
      BY NextInRanges, UpToTwo, Zenon DEF Ranges
    <3>3. rx' <= Quarter + 2 /\ Quarter \in Int
      BY <1>1, <2>1, QuarterRange
    <3>4. sinceSent' = 1 \/ (sinceSent' = 0 /\ Len(wire') = 0)
      BY <2>1, <3>1
    <3>5. Quarter + HostFifo + 5 <= RxSize
      BY DEF Margin
    <3>6. rx' + 1 - sinceSent' + Len(wire') + HostFifo < RxSize
      BY <3>2, <3>3, <3>4, <3>5, Capacity, BudgetAtRequest
    <3> QED
      BY <2>1, <2>4, <3>6 DEF Running, Wanted, FlowInv
  <2> QED
    BY <1>1, <1>5, <2>2, <2>3, <2>4, QuarterRange, ReceiveCounts
<1>6. CASE HostSends
  BY <1>6 DEF HostSends, Running, FlowInv
<1>7. CASE HostReceives
  <2>1. UNCHANGED <<rx, tx, XOFF_STATE, killed>> /\ wire # <<>> /\ wire' = Tail(wire)
    BY <1>7, HostReceivesCounts
  <2>2. OnlyReplies(wire') /\ Head(wire) = "reply"
    BY <2>1, ReplyLeft DEF Running, SequencesOK
  <2>3. host' = host
    BY <1>7, <2>2 DEF HostReceives
  <2> QED
    BY <1>1, <1>2, <2>1, <2>2, <2>3 DEF Running
<1> QED
  BY <1>3, <1>4, <1>5, <1>6, <1>7 DEF Next

LEMMA WantedStep ==
  ASSUME FlowTypes, ~killed, Wanted, Next
  PROVE  FlowInv'
<1> USE DEF FlowTypes
<1>1. /\ rx \in Int /\ sinceSent \in 0 .. 1 /\ Len(wire) \in 0 .. 2
      /\ XOFF_STATE = {"REQUEST_SENDING_XOFF"}
      /\ rx + 1 - sinceSent + Len(wire) + HostFifo < RxSize
      /\ rx < RxSize - 1
  <2>1. XOFF_STATE = {"REQUEST_SENDING_XOFF"} /\ rx + 1 - sinceSent + Len(wire) + HostFifo < RxSize
    BY DEF Wanted
  <2> QED
    BY <2>1, InRanges, Capacity DEF Ranges
<1>2. CASE Main
  <2>1. OnlyReplies(tx') /\ OnlyReplies(wire')
    BY <1>2, MainCounts, ReplyKept DEF Wanted, SequencesOK
  <2>2. UNCHANGED <<wire, sinceSent, killed, XOFF_STATE>> /\ rx' <= rx
    BY <1>1, <1>2, MainCounts
  <2>3. rx' \in Int
    BY <1>2, CountersStep DEF CountersOK, Next
  <2>4. rx' + 1 - sinceSent' + Len(wire') + HostFifo < RxSize
    BY <1>1, <2>2, <2>3
  <2> QED
    BY <2>1, <2>2, <2>4 DEF Wanted, FlowInv
<1>3. CASE Udre
  <2>1. /\ UNCHANGED <<tx, rx, sinceSent, killed>> /\ wire' = Append(wire, "XOFF")
        /\ Len(wire) < 2
    BY <1>1, <1>3 DEF Udre
  <2>2. NoXon(wire')
    BY <2>1, ReplyKept DEF Wanted, SequencesOK, Chars
  <2>3. Len(wire') = Len(wire) + 1 /\ wire'[Len(wire) + 1] = "XOFF"
    BY <2>1, Appended DEF SequencesOK, Chars
  <2>4. CASE Len(wire) = 0
    <3>1. Len(wire') > 0 /\ wire'[1] = "XOFF" /\ rx' + 1 - sinceSent' + HostFifo < RxSize
      BY <1>1, <2>1, <2>3, <2>4
    <3> QED
      BY <2>1, <2>2, <3>1 DEF Wanted, Stopping, FlowInv
  <2>5. CASE Len(wire) = 1
    <3>1. Len(wire') = 2 /\ wire'[2] = "XOFF" /\ rx' + 2 - sinceSent' + HostFifo < RxSize
      BY <1>1, <2>1, <2>3, <2>5
    <3> QED
      BY <2>1, <2>2, <3>1 DEF Wanted, Stopping, FlowInv
  <2> QED
    BY <1>1, <2>1, <2>4, <2>5
<1>4. CASE Receive
  <2>1. Sending
    BY <1>1 DEF Sending, NoLostWakeup
  <2>2. UNCHANGED <<tx, wire, XOFF_STATE>> /\ sinceSent = 0 /\ sinceSent' = 1
        /\ rx' = rx + 1 /\ ~killed'
    BY <1>1, <1>4, <2>1, ReceiveCounts
  <2>3. rx' + 1 - sinceSent' + Len(wire') + HostFifo < RxSize
    BY <1>1, <2>2
  <2> QED
    BY <2>2, <2>3 DEF Wanted, FlowInv
<1>5. CASE HostSends
  BY <1>5 DEF HostSends, Wanted, FlowInv
<1>6. CASE HostReceives
  <2>1. UNCHANGED <<rx, tx, XOFF_STATE, killed>> /\ sinceSent' = 0 /\ wire # <<>>
        /\ wire' = Tail(wire)
    BY <1>6, HostReceivesCounts
  <2>2. OnlyReplies(wire') /\ Len(wire') = Len(wire) - 1
    BY <2>1, ReplyLeft, Dropped DEF Wanted, SequencesOK
  <2>3. rx' + 1 - sinceSent' + Len(wire') + HostFifo < RxSize
    BY <1>1, <2>1, <2>2
  <2> QED
    BY <2>1, <2>2, <2>3 DEF Wanted, FlowInv
<1> QED
  BY <1>2, <1>3, <1>4, <1>5, <1>6 DEF Next

(* What the transmitter adds once the XON of uart_init is gone. *)
LEMMA UdreAfterXon ==
  ASSUME FlowTypes, OnlyReplies(tx), NoXon(wire), Udre
  PROVE  /\ UNCHANGED <<rx, sinceSent, killed, host, out>>
         /\ OnlyReplies(tx') /\ NoXon(wire')
         /\ Len(wire') >= Len(wire)
         /\ \A i \in 1 .. Len(wire) : wire'[i] = wire[i]
<1> USE DEF FlowTypes
<1>1. UNCHANGED <<rx, sinceSent, killed, host, out>>
  BY DEF Udre
<1>2. \/ UNCHANGED <<tx, wire>>
      \/ UNCHANGED tx /\ wire' = Append(wire, "XOFF")
      \/ tx # <<>> /\ tx' = Tail(tx) /\ wire' = Append(wire, Head(tx))
  BY DEF Udre
<1>3. CASE UNCHANGED <<tx, wire>>
  BY <1>1, <1>3 DEF SequencesOK
<1>4. CASE UNCHANGED tx /\ wire' = Append(wire, "XOFF")
  BY <1>1, <1>4, Appended, ReplyKept DEF SequencesOK, Chars
<1>5. CASE tx # <<>> /\ tx' = Tail(tx) /\ wire' = Append(wire, Head(tx))
  <2>1. Head(tx) = "reply" /\ OnlyReplies(tx')
    BY <1>5, ReplyLeft DEF SequencesOK
  <2> QED
    BY <1>1, <1>5, <2>1, Appended, ReplyKept DEF SequencesOK, Chars
<1> QED
  BY <1>2, <1>3, <1>4, <1>5

LEMMA StoppingStep ==
  ASSUME FlowTypes, ~killed, Stopping, Next
  PROVE  FlowInv'
<1> USE DEF FlowTypes
<1>1. /\ rx \in Int /\ sinceSent \in 0 .. 1 /\ out \in 0 .. HostFifo /\ Len(wire) \in 1 .. 2
      /\ rx + 1 - sinceSent + HostFifo < RxSize /\ wire # <<>>
      /\ rx < RxSize - 1
  <2>1. rx + 1 - sinceSent + HostFifo < RxSize /\ Len(wire) > 0
    BY InRanges, Capacity DEF Stopping, Ranges
  <2>2. wire # <<>>
    BY <2>1, Typed, EmptyLength
  <2> QED
    BY <2>1, <2>2, InRanges, Capacity DEF Ranges
<1>2. ASSUME OnlyReplies(tx'), NoXon(wire'), ~killed',
             Len(wire') >= Len(wire), \A i \in 1 .. Len(wire) : wire'[i] = wire[i],
             Ranges', rx' - sinceSent' <= rx - sinceSent
      PROVE  FlowInv'
  <2>1. CASE Len(wire) > 0 /\ wire[1] = "XOFF" /\ rx + 1 - sinceSent + HostFifo < RxSize
    <3>1. 1 \in 1 .. Len(wire) /\ Len(wire') > 0
      BY <1>1, <1>2, <2>1 DEF Ranges
    <3>2. wire'[1] = "XOFF"
      BY <1>2, <2>1, <3>1
    <3>3. rx' + 1 - sinceSent' + HostFifo < RxSize
      <4>1. rx \in Int /\ sinceSent \in Int /\ rx' \in Int /\ sinceSent' \in Int /\ 1 \in Int
        BY <1>2, InRanges DEF Ranges
      <4> QED
        BY <1>2, <2>1, <4>1, BudgetKept, Capacity, Zenon
    <3> QED
      BY <1>2, <3>1, <3>2, <3>3 DEF Stopping, FlowInv
  <2>2. CASE Len(wire) = 2 /\ wire[2] = "XOFF" /\ rx + 2 - sinceSent + HostFifo < RxSize
    <3>1. 2 \in 1 .. Len(wire) /\ Len(wire') = 2
      BY <1>1, <1>2, <2>2 DEF Ranges
    <3>2. wire'[2] = "XOFF"
      BY <1>2, <2>2, <3>1
    <3>3. rx' + 2 - sinceSent' + HostFifo < RxSize
      <4>1. rx \in Int /\ sinceSent \in Int /\ rx' \in Int /\ sinceSent' \in Int /\ 2 \in Int
        BY <1>2, InRanges DEF Ranges
      <4> QED
        BY <1>2, <2>2, <4>1, BudgetKept, Capacity, Zenon
    <3> QED
      BY <1>2, <3>1, <3>2, <3>3 DEF Stopping, FlowInv
  <2> QED
    BY <2>1, <2>2 DEF Stopping
<1>3. Ranges'
  BY NextInRanges
<1>4. OnlyReplies(tx) /\ NoXon(wire)
  BY DEF Stopping
<1>5. CASE Main
  <2>1. OnlyReplies(tx')
    BY <1>4, <1>5, MainReplies
  <2>2. UNCHANGED <<wire, sinceSent, killed>> /\ rx' <= rx /\ OnlyReplies(tx')
    BY <1>5, <2>1, MainCounts
  <2>3. rx' - sinceSent' <= rx - sinceSent
    <3>1. sinceSent' = sinceSent /\ rx' <= rx
      BY <2>2
    <3> QED
      BY <1>3, <3>1, InRanges, FewerKept DEF Ranges
  <2> QED
    BY <1>1, <1>2, <1>3, <1>4, <2>2, <2>3
<1>6. CASE Udre
  <2>1. /\ UNCHANGED <<rx, sinceSent, killed>> /\ OnlyReplies(tx') /\ NoXon(wire')
        /\ Len(wire') >= Len(wire) /\ \A i \in 1 .. Len(wire) : wire'[i] = wire[i]
    BY <1>4, <1>6, UdreAfterXon
  <2>2. rx' - sinceSent' <= rx - sinceSent
    BY <1>1, <2>1
  <2> QED
    BY <1>2, <1>3, <2>1, <2>2
<1>7. CASE Receive
  <2>1. UNCHANGED <<tx, wire>> /\ sinceSent = 0 /\ sinceSent' = 1 /\ rx' = rx + 1 /\ ~killed'
    BY <1>1, <1>7, ReceiveCounts DEF Sending
  <2>2. rx' - sinceSent' <= rx - sinceSent
    BY <1>1, <2>1
  <2> QED
    BY <1>1, <1>2, <1>3, <1>4, <2>1, <2>2
<1>8. CASE HostSends
  <2>1. UNCHANGED <<rx, tx, wire, sinceSent, killed>>
    BY <1>8 DEF HostSends
  <2> QED
    BY <1>1, <1>2, <1>3, <1>4, <2>1
<1>9. CASE HostReceives
  <2>1. UNCHANGED <<rx, tx, out, killed>> /\ sinceSent' = 0 /\ wire' = Tail(wire)
    BY <1>9, HostReceivesCounts
  <2>2. NoXon(wire') /\ OnlyReplies(tx')
    BY <1>1, <1>4, <2>1, ReplyLeft DEF SequencesOK
  <2>3. CASE wire[1] = "XOFF"
    <3>1. host' = "stopped"
      BY <1>9, <2>3, HostReceivesCounts
    <3>2. rx' + out' < RxSize
      BY <1>1, <2>1
    <3> QED
      BY <2>1, <2>2, <3>1, <3>2 DEF Stopped, FlowInv
  <2>4. CASE Len(wire) = 2 /\ wire[2] = "XOFF" /\ rx + 2 - sinceSent + HostFifo < RxSize
    <3>1. Len(wire') > 0 /\ wire'[1] = "XOFF"
      BY <2>1, <2>4, Typed, Second
    <3>2. rx' + 1 - sinceSent' + HostFifo < RxSize
      BY <1>1, <2>1, <2>4
    <3> QED
      BY <2>1, <2>2, <3>1, <3>2 DEF Stopping, FlowInv
  <2> QED
    BY <2>3, <2>4 DEF Stopping
<1> QED
  BY <1>5, <1>6, <1>7, <1>8, <1>9 DEF Next

LEMMA StoppedStep ==
  ASSUME FlowTypes, ~killed, Stopped, Next
  PROVE  FlowInv'
<1> USE DEF FlowTypes
<1>1. /\ rx \in Int /\ out \in Nat /\ rx + out < RxSize /\ host = "stopped"
      /\ OnlyReplies(tx) /\ NoXon(wire)
  BY DEF Stopped, CountersOK
<1>2. ASSUME OnlyReplies(tx'), NoXon(wire'), ~killed', UNCHANGED host, rx' + out' < RxSize
      PROVE  FlowInv'
  BY <1>1, <1>2 DEF Stopped, FlowInv
<1>3. CASE Main
  <2>1. OnlyReplies(tx')
    BY <1>1, <1>3, MainReplies
  <2>2. UNCHANGED <<wire, host, out, killed>> /\ rx' <= rx /\ OnlyReplies(tx')
    BY <1>3, <2>1, MainCounts
  <2>3. rx' \in Int
    BY <1>3, CountersStep DEF CountersOK, Next
  <2>4. out' = out /\ rx' <= rx
    BY <2>2
  <2>5. rx' + out' < RxSize
    <3>1. rx + out < RxSize /\ rx \in Int /\ out \in Int
      BY <1>1, InRanges DEF Ranges
    <3>2. rx' + out < RxSize
      BY <2>3, <2>4, <3>1, Capacity, SumBelow, Zenon
    <3> QED
      BY <2>4, <3>2
  <2> QED
    BY <1>1, <1>2, <2>2, <2>5
<1>4. CASE Udre
  BY <1>1, <1>2, <1>4, UdreAfterXon
<1>5. CASE Receive
  <2>1. UNCHANGED <<tx, wire, host>> /\ out > 0 /\ out' = out - 1
    BY <1>5, ReceiveCounts
  <2>2. rx < RxSize - 1
    BY <1>1, <2>1
  <2>3. rx' = rx + 1 /\ ~killed'
    BY <1>5, <2>2, ReceiveCounts
  <2>4. rx' + out' < RxSize
    BY <1>1, <2>1, <2>3
  <2> QED
    BY <1>1, <1>2, <2>1, <2>3, <2>4
<1>6. CASE HostSends
  BY <1>1, <1>6 DEF HostSends
<1>7. CASE HostReceives
  <2>1. UNCHANGED <<rx, tx, out, killed>> /\ wire # <<>> /\ wire' = Tail(wire)
    BY <1>7, HostReceivesCounts
  <2>2. NoXon(wire') /\ Head(wire) # "XON"
    BY <1>1, <2>1, ReplyLeft DEF SequencesOK
  <2>3. host' = host
    BY <1>1, <1>7, <2>2 DEF HostReceives
  <2> QED
    BY <1>1, <1>2, <2>1, <2>2, <2>3
<1> QED
  BY <1>3, <1>4, <1>5, <1>6, <1>7 DEF Next

(* XOFF is sent in time (uart.c:102-116), for every size of the buffers    *)
(* and every host that stops after HostFifo bytes: above the quarter at    *)
(* which XOFF is asked for, five places more than the host's bytes.        *)
THEOREM NeverOverruns ==
  ASSUME Margin
  PROVE  Spec => []NoOverrun
<1>1. Init => FlowTypes /\ FlowInv
  <2> SUFFICES ASSUME Init PROVE FlowTypes /\ FlowInv
    OBVIOUS
  <2>1. FlowTypes
    BY CountersInit, SequencesInit, FlagsInit DEF FlowTypes, Init, NoLostWakeup
  <2>2. Len(tx) > 0 /\ tx[1] = "XON" /\ RepliesAfter(tx)
    BY DEF Init, RepliesAfter
  <2> QED
    BY <2>1, <2>2 DEF Init, FlowInv, Starting
<1>2. FlowTypes /\ FlowInv /\ [Next]_vars => FlowInv'
  <2>1. FlowInv /\ UNCHANGED vars => FlowInv'
    BY DEF FlowInv, Starting, Permitting, Running, Wanted, Stopping, Stopped, vars
  <2> QED
    BY <2>1, StartingStep, PermittingStep, RunningStep, WantedStep, StoppingStep, StoppedStep
    DEF FlowInv
<1>3. FlowTypes /\ [Next]_vars => FlowTypes'
  BY CountersStep, SequencesStep, FlagsStep, WakeupStep DEF FlowTypes
<1>4. FlowInv => NoOverrun
  BY DEF FlowInv, NoOverrun
<1> QED
  BY <1>1, <1>2, <1>3, <1>4, PTL DEF Spec
=============================================================================
