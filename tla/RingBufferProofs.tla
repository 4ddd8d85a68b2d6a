--------------------------- MODULE RingBufferProofs ---------------------------
(***************************************************************************)
(* RingBuffer implements BoundedFifo for every size and every set of       *)
(* elements, and used() keeps its word to both sides.                      *)
(***************************************************************************)
EXTENDS RingBuffer, SequenceTheorems, TLAPS

USE SizeAssumption, DataAssumption DEF SizeAssumption, DataAssumption

(* What each side has learnt stays true while the other side goes on. *)
ProducerSafe ==
  /\ producer = "room" => ~is_full
  /\ producer = "reset" => reader = "silent" /\ tail = 0
  /\ producer = "head read" => operand["producer"] = head
  /\ producer = "tail read" => Used <= Distance(head, operand["producer"])

ConsumerSafe ==
  /\ reader = "silent" => consumer = "idle"
  /\ consumer \in {"data", "read"} => ~is_empty
  /\ consumer = "read" => read = data[tail]
  /\ consumer = "tail read" => operand["consumer"] = tail
  /\ consumer = "head read" => Distance(operand["consumer"], tail) <= Used

IInv ==
  /\ TypeOK
  /\ ProducerSafe
  /\ ConsumerSafe
  /\ PromiseKept
  /\ AvailabilityKept

-----------------------------------------------------------------------------
(* Index arithmetic. *)

LEMMA IncType == ASSUME NEW i \in Index PROVE Inc(i) \in Index
  BY DEF Index, Inc

LEMMA DistanceType ==
  ASSUME NEW h \in Index, NEW t \in Index
  PROVE  /\ Distance(h, t) \in Index
         /\ Distance(h, t) = 0 <=> h = t
         /\ Distance(h, t) = Size - 1 <=> Inc(h) = t
  BY DEF Index, Distance, Inc

(* A push adds one to the distance unless the buffer is full, a pop takes  *)
(* one away unless it is empty.                                            *)
LEMMA DistanceSteps ==
  ASSUME NEW h \in Index, NEW t \in Index
  PROVE  /\ Inc(h) # t => Distance(Inc(h), t) = Distance(h, t) + 1
         /\ h # t => Distance(h, Inc(t)) = Distance(h, t) - 1
  BY DEF Index, Distance, Inc

LEMMA Order ==
  ASSUME NEW i \in Int, NEW j \in Int
  PROVE  /\ i <= i /\ i >= i
         /\ i <= j => i - 1 <= j /\ i <= j + 1
         /\ i >= j <=> j <= i
  OBVIOUS

LEMMA TypeStep == TypeOK /\ [Next]_vars => TypeOK'
<1> SUFFICES ASSUME TypeOK, [Next]_vars PROVE TypeOK'
  OBVIOUS
<1>0. 0 \in Index
  BY DEF Index
<1> USE DEF TypeOK, Places, indices, counts
<1>1. ASSUME NEW d \in Data, WriteSlot(d) PROVE TypeOK'
  BY <1>1 DEF WriteSlot
<1>2. CASE SeeRoom
  BY <1>2 DEF SeeRoom
<1>3. CASE AdvanceHead
  BY <1>3, IncType DEF AdvanceHead
<1>4. CASE SeeData
  BY <1>4 DEF SeeData
<1>5. CASE ReadSlot
  BY <1>5 DEF ReadSlot
<1>6. CASE Pop
  BY <1>6, IncType DEF Pop
<1>7. CASE FetchFirst
  BY <1>7 DEF FetchFirst, Fetch
<1>8. CASE ProducerUsed
  BY <1>8, DistanceType DEF ProducerUsed, Difference
<1>9. CASE ConsumerUsed
  BY <1>9, DistanceType DEF ConsumerUsed, Difference
<1>10. CASE ConsumerStops \/ WakeConsumer
  BY <1>10 DEF ConsumerStops, WakeConsumer
<1>11. CASE ResetTail \/ ResetHead
  BY <1>11, <1>0 DEF ResetTail, ResetHead
<1>12. CASE DiscardSlot
  BY <1>12, IncType DEF DiscardSlot
<1>13. CASE UNCHANGED vars
  BY <1>13 DEF vars
<1> QED
  BY <1>1, <1>2, <1>3, <1>4, <1>5, <1>6, <1>7, <1>8, <1>9, <1>10, <1>11,
     <1>12, <1>13 DEF Next, Produce, Consume

LEMMA SafeStep == IInv /\ [Next]_vars => IInv'
<1> SUFFICES ASSUME IInv, [Next]_vars PROVE IInv'
  OBVIOUS
<1>0. TypeOK /\ TypeOK'
  BY TypeStep DEF IInv
<1>s. ProducerSafe /\ ConsumerSafe /\ PromiseKept /\ AvailabilityKept
  BY DEF IInv
<1>i. Index \subseteq Int
  BY DEF Index
<1>t. /\ head \in Index /\ tail \in Index
      /\ operand \in [{"producer", "consumer"} -> Index]
      /\ operand["producer"] \in Index /\ operand["consumer"] \in Index
      /\ promised \in Int /\ available \in Int
  BY <1>0, <1>i DEF TypeOK, None
<1>d. /\ Used \in Int
      /\ Distance(head, operand["producer"]) \in Int
      /\ Distance(operand["consumer"], tail) \in Int
  BY <1>t, <1>i, DistanceType DEF Used
<1>p. producer = "tail read" => Used <= Distance(head, operand["producer"])
  BY <1>s DEF ProducerSafe
<1>c. consumer = "head read" => Distance(operand["consumer"], tail) <= Used
  BY <1>s DEF ConsumerSafe
\* Each action: what it disturbs of the four parts, then the whole.
<1>1. ASSUME NEW d \in Data, WriteSlot(d)
      PROVE  ProducerSafe' /\ ConsumerSafe' /\ PromiseKept' /\ AvailabilityKept'
  <2> USE <1>1, <1>s DEF WriteSlot, indices, counts
  <2>1. ConsumerSafe'
    BY <1>0 DEF ConsumerSafe, TypeOK, Used, is_empty
  <2> QED
    BY <2>1 DEF ProducerSafe, PromiseKept, AvailabilityKept, Used
<1>2. CASE SeeRoom
  <2> USE <1>2, <1>s DEF SeeRoom, indices, counts
  <2>1. ProducerSafe'
    BY DEF ProducerSafe, is_full
  <2>2. ConsumerSafe'
    BY DEF ConsumerSafe, Used, is_empty
  <2> QED
    BY <2>1, <2>2, <1>0 DEF IInv, PromiseKept, AvailabilityKept, Used
<1>3. CASE AdvanceHead
  <2> USE <1>3, <1>s DEF AdvanceHead
  <2>1. Used' = Used + 1
    BY <1>t, DistanceSteps DEF ProducerSafe, is_full, Used
  <2>2. ~is_empty'
    BY DEF ProducerSafe, is_full, is_empty
  <2>h. consumer = "head read" => Distance(operand["consumer"], tail) <= Used + 1
    BY <1>d, <1>c, Order
  <2>3. ConsumerSafe'
    BY <2>1, <2>2, <2>h DEF ConsumerSafe
  <2>4. ProducerSafe' /\ PromiseKept'
    BY DEF ProducerSafe, PromiseKept
  <2>5. AvailabilityKept'
    BY <1>d, <1>t, <2>1 DEF AvailabilityKept
  <2> QED
    BY <1>0, <2>3, <2>4, <2>5 DEF IInv
<1>4. CASE SeeData
  <2> USE <1>4, <1>s DEF SeeData, indices, counts
  <2>1. ConsumerSafe'
    BY DEF ConsumerSafe, Used, is_empty
  <2>2. ProducerSafe' /\ PromiseKept' /\ AvailabilityKept'
    BY DEF ProducerSafe, PromiseKept, AvailabilityKept, Used, is_full
  <2> QED
    BY <1>0, <2>1, <2>2 DEF IInv
<1>5. CASE ReadSlot
  <2> USE <1>5, <1>s DEF ReadSlot, indices, counts
  <2>1. ConsumerSafe'
    BY DEF ConsumerSafe, Used, is_empty
  <2>2. ProducerSafe' /\ PromiseKept' /\ AvailabilityKept'
    BY DEF ProducerSafe, PromiseKept, AvailabilityKept, Used, is_full
  <2> QED
    BY <1>0, <2>1, <2>2 DEF IInv
<1>6. CASE Pop
  <2> USE <1>6, <1>s DEF Pop
  <2>1. Used' = Used - 1
    BY <1>t, DistanceSteps DEF ConsumerSafe, is_empty, Used
  <2>2. ~is_full'
    BY <1>t DEF ConsumerSafe, is_empty, is_full, Inc, Index
  <2>3. ConsumerSafe'
    BY DEF ConsumerSafe
  <2>h. producer = "tail read" => Used - 1 <= Distance(head, operand["producer"])
    BY <1>d, <1>p, Order
  <2>r. producer # "reset"
    BY DEF ProducerSafe, ConsumerSafe
  <2>4. ProducerSafe'
    BY <2>1, <2>2, <2>h, <2>r DEF ProducerSafe
  <2>5. PromiseKept'
    BY <1>d, <1>t, <2>1 DEF PromiseKept
  <2>6. AvailabilityKept'
    BY DEF AvailabilityKept
  <2> QED
    BY <1>0, <2>3, <2>4, <2>5, <2>6 DEF IInv
<1>7. ASSUME NEW side \in {"producer", "consumer"},
             Fetch(side, head, "head read") \/ Fetch(side, tail, "tail read")
      PROVE  IInv'
  <2> USE <1>7, <1>s DEF Fetch, indices
  <2>1. CASE side = "producer"
    <3>1. operand'["consumer"] = operand["consumer"]
      BY <1>t, <2>1
    <3>2. CASE Fetch(side, head, "head read")
      <4>1. operand'["producer"] = head
        BY <1>t, <2>1, <3>2
      <4>2. ProducerSafe'
        BY <2>1, <3>2, <4>1 DEF ProducerSafe
      <4>3. ConsumerSafe' /\ PromiseKept' /\ AvailabilityKept'
        BY <2>1, <3>1, <3>2 DEF ConsumerSafe, PromiseKept, AvailabilityKept, Used, is_empty
      <4> QED
        BY <1>0, <4>2, <4>3 DEF IInv
    <3>3. CASE Fetch(side, tail, "tail read")
      <4>1. operand'["producer"] = tail
        BY <1>t, <2>1, <3>3
      <4>h. Used <= Distance(head, tail)
        BY <1>d, Order DEF Used
      <4>2. ProducerSafe'
        BY <2>1, <3>3, <4>1, <4>h DEF ProducerSafe, Used
      <4>3. ConsumerSafe' /\ PromiseKept' /\ AvailabilityKept'
        BY <2>1, <3>1, <3>3 DEF ConsumerSafe, PromiseKept, AvailabilityKept, Used, is_empty
      <4> QED
        BY <1>0, <4>2, <4>3 DEF IInv
    <3> QED
      BY <3>2, <3>3
  <2>2. CASE side = "consumer"
    <3>1. operand'["producer"] = operand["producer"]
      BY <1>t, <2>2
    <3>2. ProducerSafe' /\ PromiseKept' /\ AvailabilityKept'
      BY <2>2, <3>1 DEF ProducerSafe, PromiseKept, AvailabilityKept, Used, is_full
    <3>3. CASE Fetch(side, head, "head read")
      <4>1. operand'["consumer"] = head
        BY <1>t, <2>2, <3>3
      <4>h. Distance(head, tail) <= Used
        BY <1>d, Order DEF Used
      <4>2. ConsumerSafe'
        BY <2>2, <3>3, <4>1, <4>h DEF ConsumerSafe, Used
      <4> QED
        BY <1>0, <3>2, <4>2 DEF IInv
    <3>4. CASE Fetch(side, tail, "tail read")
      <4>1. operand'["consumer"] = tail
        BY <1>t, <2>2, <3>4
      <4> QED
        BY <1>0, <2>2, <3>2, <3>4, <4>1 DEF IInv, ConsumerSafe
    <3> QED
      BY <3>3, <3>4
  <2> QED
    BY <2>1, <2>2
<1>8. CASE ProducerUsed
  <2> USE <1>8, <1>s DEF ProducerUsed, indices
  <2>1. Used <= Difference("producer", producer)
    BY <1>d, <1>p, Order DEF ProducerSafe, Difference, Used
  <2>3. PromiseKept'
    BY <2>1 DEF PromiseKept, Used
  <2>4. ProducerSafe' /\ ConsumerSafe' /\ AvailabilityKept'
    BY DEF ProducerSafe, ConsumerSafe, AvailabilityKept, Used, is_empty
  <2> QED
    BY <1>0, <2>3, <2>4 DEF IInv
<1>9. CASE ConsumerUsed
  <2> USE <1>9, <1>s DEF ConsumerUsed, indices
  <2>1. Used >= Difference("consumer", consumer)
    BY <1>d, <1>c, Order DEF ConsumerSafe, Difference, Used
  <2>3. AvailabilityKept'
    BY <2>1 DEF AvailabilityKept, Used
  <2>4. ProducerSafe' /\ ConsumerSafe' /\ PromiseKept'
    BY DEF ProducerSafe, ConsumerSafe, PromiseKept, Used, is_full
  <2> QED
    BY <1>0, <2>3, <2>4 DEF IInv
<1>10. CASE ConsumerStops \/ WakeConsumer
  <2> USE <1>10, <1>s DEF ConsumerStops, WakeConsumer, indices, counts
  <2>1. ProducerSafe' /\ ConsumerSafe'
    BY DEF ProducerSafe, ConsumerSafe, Used, is_full, is_empty
  <2> QED
    BY <1>0, <2>1 DEF IInv, PromiseKept, AvailabilityKept, Used
<1>11. CASE ResetTail \/ ResetHead
  BY <1>0, <1>11, <1>s DEF IInv, ResetTail, ResetHead, counts, ProducerSafe, ConsumerSafe,
     PromiseKept, AvailabilityKept
<1>12. CASE DiscardSlot
  <2> USE <1>12, <1>s DEF DiscardSlot
  <2>1. Used' = Used - 1
    BY <1>t, DistanceSteps DEF is_empty, Used
  <2>2. PromiseKept'
    BY <1>d, <1>t, <2>1 DEF PromiseKept
  <2>3. ProducerSafe' /\ ConsumerSafe' /\ AvailabilityKept'
    BY DEF ProducerSafe, ConsumerSafe, AvailabilityKept
  <2> QED
    BY <1>0, <2>2, <2>3 DEF IInv
<1>13. CASE UNCHANGED vars
  BY <1>0, <1>13, <1>s DEF IInv, vars, ProducerSafe, ConsumerSafe, PromiseKept,
     AvailabilityKept, Used, is_full, is_empty
<1> QED
  BY <1>0, <1>1, <1>2, <1>3, <1>4, <1>5, <1>6, <1>7, <1>8, <1>9, <1>10, <1>11,
     <1>12, <1>13 DEF IInv, Next, Produce, Consume, FetchFirst

LEMMA InitSafe == Init => IInv
<1> SUFFICES ASSUME Init PROVE IInv
  OBVIOUS
<1>1. 0 \in Index
  BY DEF Index
<1> QED
  BY <1>1 DEF Init, IInv, TypeOK, Places, ProducerSafe, ConsumerSafe, PromiseKept,
        AvailabilityKept, is_full, is_empty, None

LEMMA Invariance == Spec => []IInv
  BY InitSafe, SafeStep, PTL DEF Spec

(* The indices stay inside the array and every register has its type, for  *)
(* buffers of any size (buffer.h:58-71).                                   *)
THEOREM TypeCorrect == Spec => []TypeOK
  BY Invariance, PTL DEF IInv

(* The fill level the firmware reports to the host (main.c:124) and the    *)
(* availability it tests (main.c:116) are safe under any interruption.     *)
THEOREM UsedIsSafe == Spec => []UsedSafe
<1>1. IInv => UsedSafe
  BY DEF IInv, UsedSafe
<1> QED
  BY <1>1, Invariance, PTL

-----------------------------------------------------------------------------
(* The refinement: windows over the slots are the abstract sequences. *)

LEMMA SlotFacts ==
  ASSUME NEW t \in Index, NEW h \in Index
  PROVE  /\ \A k \in Index : Slot(t, k) \in Index
         /\ \A k, m \in Index : Slot(t, k) = Slot(t, m) => k = m
         /\ Slot(t, 0) = t
         /\ \A k \in 0 .. Size - 2 : Slot(Inc(t), k) = Slot(t, k + 1)
         /\ Slot(t, Distance(h, t)) = h
  BY DEF Index, Slot, Inc, Distance

LEMMA WindowType ==
  ASSUME NEW f \in [Index -> Data], NEW t \in Index, NEW n \in Index
  PROVE  /\ Window(f, t, n) \in Seq(Data)
         /\ Len(Window(f, t, n)) = n
         /\ \A k \in 1 .. n : Window(f, t, n)[k] = f[Slot(t, k - 1)]
<1>1. \A k \in 1 .. n : k - 1 \in Index
  BY DEF Index
<1>2. \A k \in 1 .. n : f[Slot(t, k - 1)] \in Data
  BY <1>1, SlotFacts
<1>3. Window(f, t, n) \in [1 .. n -> Data]
  BY <1>2 DEF Window
<1>4. n \in Nat
  BY DEF Index
<1> QED
  BY <1>3, <1>4 DEF Window

LEMMA WindowAppend ==
  ASSUME NEW f \in [Index -> Data], NEW t \in Index, NEW n \in Index, n # Size - 1
  PROVE  Window(f, t, n + 1) = Append(Window(f, t, n), f[Slot(t, n)])
<1> DEFINE s == Window(f, t, n + 1)
           w == Append(Window(f, t, n), f[Slot(t, n)])
<1>1. n \in Nat /\ n + 1 \in Index
  BY DEF Index
<1>2. /\ s \in Seq(Data) /\ Len(s) = n + 1
      /\ \A k \in 1 .. n + 1 : s[k] = f[Slot(t, k - 1)]
  BY <1>1, WindowType
<1>3. f[Slot(t, n)] \in Data
  BY SlotFacts
<1>4. /\ Window(f, t, n) \in Seq(Data) /\ Len(Window(f, t, n)) = n
      /\ \A k \in 1 .. n : Window(f, t, n)[k] = f[Slot(t, k - 1)]
  BY WindowType
<1>5. /\ w \in Seq(Data) /\ Len(w) = n + 1
      /\ \A k \in 1 .. n : w[k] = Window(f, t, n)[k]
      /\ w[n + 1] = f[Slot(t, n)]
  BY <1>3, <1>4, AppendProperties
<1>6. ASSUME NEW k \in 1 .. n + 1 PROVE s[k] = w[k]
  <2>1. CASE k = n + 1
    <3>1. k - 1 = n
      BY <1>1, <2>1
    <3> QED
      BY <1>2, <1>5, <2>1, <3>1
  <2>2. CASE k # n + 1
    <3>1. k \in 1 .. n
      BY <1>1, <2>2
    <3> QED
      BY <1>2, <1>4, <1>5, <3>1
  <2> QED
    BY <2>1, <2>2
<1> HIDE DEF s, w
<1>7. s = w
  BY <1>2, <1>5, <1>6, SeqEqual
<1> QED
  BY <1>7 DEF s, w

LEMMA WindowTail ==
  ASSUME NEW f \in [Index -> Data], NEW t \in Index, NEW n \in Index, n # 0
  PROVE  /\ Window(f, t, n) # <<>>
         /\ Head(Window(f, t, n)) = f[t]
         /\ Tail(Window(f, t, n)) = Window(f, Inc(t), n - 1)
<1> DEFINE s == Window(f, t, n)
           w == Window(f, Inc(t), n - 1)
<1>1. n \in Nat /\ n - 1 \in Index /\ Inc(t) \in Index
  BY IncType DEF Index
<1>2. /\ s \in Seq(Data) /\ Len(s) = n
      /\ \A k \in 1 .. n : s[k] = f[Slot(t, k - 1)]
  BY WindowType
<1>3. /\ w \in Seq(Data) /\ Len(w) = n - 1
      /\ \A k \in 1 .. n - 1 : w[k] = f[Slot(Inc(t), k - 1)]
  BY <1>1, WindowType
<1>4. ASSUME NEW k \in 1 .. n - 1 PROVE w[k] = s[k + 1]
  <2>1. /\ k + 1 \in 1 .. n /\ (k + 1) - 1 = k /\ (k - 1) + 1 = k
        /\ k - 1 \in 0 .. Size - 2
    BY <1>1 DEF Index
  <2>2. Slot(Inc(t), k - 1) = Slot(t, k)
    BY <2>1, SlotFacts
  <2> QED
    BY <1>2, <1>3, <2>1, <2>2
<1>5. s[1] = f[t]
  <2>1. 1 \in 1 .. n /\ 1 - 1 = 0
    BY <1>1
  <2> QED
    BY <1>2, <2>1, SlotFacts
<1> HIDE DEF s, w
<1>6. s # <<>>
  BY <1>2, EmptySeq
<1>7. /\ Tail(s) \in Seq(Data) /\ Len(Tail(s)) = n - 1
      /\ \A k \in 1 .. n - 1 : Tail(s)[k] = s[k + 1]
  BY <1>2, <1>6, HeadTailProperties
<1>8. Tail(s) = w
  BY <1>3, <1>4, <1>7, SeqEqual
<1>9. Head(s) = s[1]
  BY <1>2, <1>6
<1> QED
  BY <1>5, <1>6, <1>8, <1>9 DEF s, w

(* NAME_put may write the free slot: it is outside the window. *)
LEMMA WindowFrame ==
  ASSUME NEW f \in [Index -> Data], NEW t \in Index, NEW n \in Index, NEW d \in Data
  PROVE  Window([f EXCEPT ![Slot(t, n)] = d], t, n) = Window(f, t, n)
<1>1. ASSUME NEW k \in 1 .. n
      PROVE  [f EXCEPT ![Slot(t, n)] = d][Slot(t, k - 1)] = f[Slot(t, k - 1)]
  <2>1. k - 1 \in Index /\ k - 1 # n
    BY DEF Index
  <2>2. Slot(t, k - 1) # Slot(t, n) /\ Slot(t, k - 1) \in Index
    BY <2>1, SlotFacts
  <2> QED
    BY <2>2
<1> QED
  BY <1>1 DEF Window

LEMMA RefineInit == Init => Fifo!Init
<1> SUFFICES ASSUME Init PROVE Fifo!Init
  OBVIOUS
<1>1. Used = 0
  BY DEF Init, Used, Distance
<1>2. data \in [Index -> Data] /\ tail \in Index /\ 0 \in Index
  BY DEF Init, Index
<1>3. Window(data, tail, 0) \in Seq(Data) /\ Len(Window(data, tail, 0)) = 0
  BY <1>2, WindowType
<1>4. Window(data, tail, 0) = <<>>
  BY <1>3, EmptySeq
<1> QED
  BY <1>1, <1>4 DEF Init, Fifo!Init, Contents

LEMMA RefineStep == IInv /\ [Next]_vars => [Fifo!Next]_Fifo!vars
<1> SUFFICES ASSUME IInv, [Next]_vars PROVE [Fifo!Next]_Fifo!vars
  OBVIOUS
<1>0. TypeOK /\ TypeOK' /\ ProducerSafe /\ ConsumerSafe
  BY TypeStep DEF IInv
<1>t. /\ head \in Index /\ tail \in Index /\ data \in [Index -> Data]
      /\ Used \in Index
      /\ Slot(tail, Used) = head
  BY <1>0, DistanceType, SlotFacts DEF TypeOK, Used
\* A step that takes the oldest element.
<1>d. ASSUME ~is_empty, tail' = Inc(tail), head' = head, data' = data
      PROVE  /\ Window(data, tail, Used) # <<>>
             /\ Head(Window(data, tail, Used)) = data[tail]
             /\ Window(data, tail, Used)' = Tail(Window(data, tail, Used))
  <2>1. Used # 0 /\ Used' = Used - 1
    BY <1>d, <1>t, DistanceType, DistanceSteps DEF is_empty, Used
  <2>2. Window(data, tail, Used)' = Window(data, Inc(tail), Used - 1)
    BY <1>d, <2>1
  <2> QED
    BY <1>t, <2>1, <2>2, WindowTail
<1>1. ASSUME NEW d \in Data, WriteSlot(d) PROVE UNCHANGED Fifo!vars
  <2>1. data' = [data EXCEPT ![Slot(tail, Used)] = d] /\ Used' = Used
    BY <1>1, <1>t DEF WriteSlot, indices, Used
  <2>2. Window(data', tail, Used) = Window(data, tail, Used)
    BY <1>t, <2>1, WindowFrame
  <2> QED
    BY <1>1, <2>1, <2>2 DEF WriteSlot, indices, Contents, Fifo!vars
<1>3. CASE AdvanceHead
  <2>1. ~is_full /\ Used' = Used + 1 /\ Used # Size - 1
    BY <1>0, <1>3, <1>t, DistanceType, DistanceSteps DEF AdvanceHead, ProducerSafe, is_full, Used
  <2>2. Contents = Window(data, tail, Used) /\ Contents' = Window(data, tail, Used + 1)
    BY <1>3, <2>1 DEF AdvanceHead, Contents
  <2>3. Contents' = Append(Contents, data[head])
    BY <1>t, <2>1, <2>2, WindowAppend
  <2>4. Len(Contents) < Size - 1
    <3>1. Len(Contents) = Used
      BY <1>t, <2>2, WindowType
    <3>2. Used < Size - 1
      BY <1>t, <2>1 DEF Index
    <3> QED
      BY <3>1, <3>2
  <2>5. data[head] \in Data
    BY <1>t
  <2> QED
    BY <1>3, <2>3, <2>4, <2>5 DEF AdvanceHead, Fifo!Next, Fifo!Enqueue
<1>6. CASE Pop
  <2>1. ~is_empty /\ read = data[tail]
    BY <1>0, <1>6 DEF Pop, ConsumerSafe
  <2>2. CASE producer = "reset"
    BY <1>0, <1>6, <2>2 DEF Pop, ProducerSafe, ConsumerSafe
  <2>3. CASE producer # "reset"
    <3>1. Contents = Window(data, tail, Used) /\ Contents' = Window(data, tail, Used)'
      BY <1>6, <2>3 DEF Pop, Contents
    <3>2. Contents # <<>> /\ got' = Head(Contents) /\ Contents' = Tail(Contents)
      BY <1>6, <1>d, <2>1, <3>1 DEF Pop
    <3> QED
      BY <3>2 DEF Fifo!Next, Fifo!Dequeue
  <2> QED
    BY <2>2, <2>3
<1>11. CASE ResetTail
  <2>1. Contents' = <<>> /\ got' = got
    BY <1>11 DEF ResetTail, Contents
  <2> QED
    BY <2>1 DEF Fifo!Next, Fifo!Flush
<1>12. CASE ResetHead
  <2>1. Contents = <<>> /\ got' = got
    BY <1>12 DEF ResetHead, Contents
  <2>2. Contents' = Window(data, tail, 0)
    <3>1. tail = 0 /\ head' = 0 /\ tail' = tail /\ data' = data /\ producer' = "idle"
      BY <1>0, <1>12 DEF ResetHead, ProducerSafe
    <3>2. Used' = 0
      BY <3>1 DEF Used, Distance
    <3> QED
      BY <3>1, <3>2 DEF Contents
  <2>3. Window(data, tail, 0) = <<>>
    <3>1. 0 \in Index
      BY DEF Index
    <3>2. Window(data, tail, 0) \in Seq(Data) /\ Len(Window(data, tail, 0)) = 0
      BY <1>t, <3>1, WindowType
    <3> QED
      BY <3>2, EmptySeq
  <2> QED
    BY <2>1, <2>2, <2>3 DEF Fifo!vars
<1>13. CASE DiscardSlot
  <2>1. Contents = Window(data, tail, Used) /\ Contents' = Window(data, tail, Used)'
    BY <1>13 DEF DiscardSlot, Contents
  <2>2. Contents # <<>> /\ got' = got /\ Contents' = Tail(Contents)
    BY <1>13, <1>d, <2>1 DEF DiscardSlot
  <2> QED
    BY <2>2 DEF Fifo!Next, Fifo!Discard
\* Everything else leaves the indices, the slots and got alone.
<1>14. ASSUME UNCHANGED <<head, tail, data, got>>,
              producer = "reset" <=> producer' = "reset"
       PROVE  UNCHANGED Fifo!vars
  BY <1>14 DEF Contents, Used, Fifo!vars
<1>15. CASE SeeRoom \/ SeeData \/ ReadSlot \/ ProducerUsed \/ ConsumerUsed
            \/ ConsumerStops \/ WakeConsumer \/ UNCHANGED vars
  BY <1>14, <1>15 DEF SeeRoom, SeeData, ReadSlot, ProducerUsed, ConsumerUsed,
     ConsumerStops, WakeConsumer, indices, vars
<1>16. CASE FetchFirst
  BY <1>14, <1>16 DEF FetchFirst, Fetch, indices
<1> QED
  BY <1>1, <1>3, <1>6, <1>11, <1>12, <1>13, <1>15, <1>16 DEF Next, Produce, Consume

(* The buffer, interrupted between any two of its accesses, is a FIFO of   *)
(* Size - 1 elements (buffer.h:26-40).                                     *)
THEOREM Refinement == Spec => ImplementsFifo
<1>1. Init => Fifo!Init
  BY RefineInit
<1>2. IInv /\ [Next]_vars => [Fifo!Next]_Fifo!vars
  BY RefineStep
<1> QED
  BY <1>1, <1>2, Invariance, PTL DEF Spec, Fifo!Spec, ImplementsFifo
=============================================================================
