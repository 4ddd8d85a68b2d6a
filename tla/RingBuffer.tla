----------------------------- MODULE RingBuffer -----------------------------
(***************************************************************************)
(* The circular buffers of buffer.h, as the firmware uses them: one side   *)
(* of a buffer is the main program, the other an interrupt handler.  Both  *)
(* sides are modelled one access to a shared byte at a time, so the module *)
(* covers the buffers that main fills (STEPPER_QUEUE, LASER_RASTERDATA,    *)
(* UART_TX_BUFFER) and the one main empties (UART_RX_BUFFER).              *)
(*                                                                         *)
(* head, tail and the slots are the macro's variables.  The registers of   *)
(* the two sides are history of their current call.  `reader' tells        *)
(* whether the consumer may take elements: stepper_drain_buffer waits      *)
(* until it does not before it re-initialises LASER_RASTERDATA.            *)
(***************************************************************************)
EXTENDS Integers, Sequences

CONSTANTS Data,   \* TYPE
          Size    \* SIZE

(* buffer.h:45-52 only offers powers of two; nothing below needs it, since *)
(* for those `(i + 1) & (SIZE - 1)' is the wrapping increment Inc.         *)
ASSUME SizeAssumption == Size \in Nat /\ Size >= 2
ASSUME DataAssumption == Data # {}

VARIABLES head, tail, data,      \* NAME_head, NAME_tail, NAME_data
          producer, consumer,    \* where each side is in its current call
          read,                  \* local variable c of NAME_get
          got,                   \* value the last NAME_get returned
          operand,               \* first operand NAME_used has fetched, per side
          promised,              \* last NAME_used of the producer, or None
          available,             \* last NAME_used of the consumer, or None
          reader                 \* does the consumer take elements at all?

indices == <<head, tail>>
counts  == <<operand, promised, available>>
vars == <<head, tail, data, producer, consumer, read, got, operand,
          promised, available, reader>>

Index == 0 .. Size - 1
None  == -1

Inc(i) == IF i = Size - 1 THEN 0 ELSE i + 1

(* (h - t) & (SIZE - 1) *)
Distance(h, t) == IF h >= t THEN h - t ELSE h - t + Size

is_empty == head = tail
is_full  == Inc(head) = tail

Used == Distance(head, tail)

(* The k-th slot after the tail. *)
Slot(t, k) == IF t + k < Size THEN t + k ELSE t + k - Size

Init ==
  /\ head = 0 /\ tail = 0
  /\ data \in [Index -> Data]
  /\ producer = "idle" /\ consumer = "idle"
  /\ read \in Data /\ got \in Data
  /\ operand = [side \in {"producer", "consumer"} |-> 0]
  /\ promised = None /\ available = None
  /\ reader \in {"awake", "silent"}

-----------------------------------------------------------------------------
(* The producer.  NAME_put writes the slot at head before NAME_push tests  *)
(* for room; the planner fills a block in place and pushes it.             *)

WriteSlot(d) ==
  /\ producer = "idle"
  /\ data' = [data EXCEPT ![head] = d]
  /\ producer' = "written"
  /\ UNCHANGED <<indices, consumer, read, got, counts, reader>>

(* Mutant of SeeRoom: NAME_push without its waiting loop. *)
SeeRoomWithoutWaiting ==
  /\ producer = "written"
  /\ producer' = "room"
  /\ UNCHANGED <<indices, data, consumer, read, got, counts, reader>>

(* NAME_push: leave the loop that waits while the buffer is full. *)
SeeRoom ==
  /\ producer = "written"
  /\ ~is_full
  /\ producer' = "room"
  /\ UNCHANGED <<indices, data, consumer, read, got, counts, reader>>

AdvanceHead ==
  /\ producer = "room"
  /\ head' = Inc(head)
  /\ producer' = "idle"
  /\ promised' = None
  /\ UNCHANGED <<tail, data, consumer, read, got, operand, available, reader>>

-----------------------------------------------------------------------------
(* The consumer: NAME_get, and the handlers that use a slot in place.      *)

SeeData ==
  /\ consumer = "idle" /\ reader = "awake"
  /\ ~is_empty
  /\ consumer' = "data"
  /\ UNCHANGED <<indices, data, producer, read, got, counts, reader>>

ReadSlot ==
  /\ consumer = "data"
  /\ read' = data[tail]
  /\ consumer' = "read"
  /\ UNCHANGED <<indices, data, producer, got, counts, reader>>

Pop ==
  /\ consumer = "read"
  /\ tail' = Inc(tail)
  /\ got' = read
  /\ consumer' = "idle"
  /\ available' = None
  /\ UNCHANGED <<head, data, producer, read, operand, promised, reader>>

-----------------------------------------------------------------------------
(* NAME_used reads head and tail one after the other, in an order C leaves *)
(* open, and the other side may move its index in between.                 *)

Fetch(side, index, place) ==
  /\ operand' = [operand EXCEPT ![side] = index]
  /\ \/ /\ side = "producer" /\ producer = "idle"
        /\ producer' = place
        /\ UNCHANGED consumer
     \/ /\ side = "consumer" /\ consumer = "idle" /\ reader = "awake"
        /\ consumer' = place
        /\ UNCHANGED producer
  /\ UNCHANGED <<indices, data, read, got, promised, available, reader>>

FetchFirst ==
  \E side \in {"producer", "consumer"} :
     Fetch(side, head, "head read") \/ Fetch(side, tail, "tail read")

(* Mutant of Difference: the operands swapped, as for a free count. *)
DifferenceSwapped(side, place) ==
  IF place = "head read" THEN Distance(tail, operand[side])
                         ELSE Distance(operand[side], head)

(* The difference, once the second operand is read too. *)
Difference(side, place) ==
  IF place = "head read" THEN Distance(operand[side], tail)
                         ELSE Distance(head, operand[side])

ProducerUsed ==
  /\ producer \in {"head read", "tail read"}
  /\ promised' = Difference("producer", producer)
  /\ producer' = "idle"
  /\ UNCHANGED <<indices, data, consumer, read, got, operand, available, reader>>

ConsumerUsed ==
  /\ consumer \in {"head read", "tail read"}
  /\ available' = Difference("consumer", consumer)
  /\ consumer' = "idle"
  /\ UNCHANGED <<indices, data, producer, read, got, operand, promised, reader>>

-----------------------------------------------------------------------------
(* Main as the owner of both indices.  The consumer falls silent between   *)
(* two elements (its job is done) and main wakes it again by queueing a    *)
(* new job; only while it is silent does main reset or empty the buffer.   *)

ConsumerStops ==
  /\ reader = "awake" /\ consumer = "idle"
  /\ reader' = "silent"
  /\ UNCHANGED <<indices, data, producer, consumer, read, got, counts>>

WakeConsumer ==
  /\ reader = "silent" /\ producer = "idle"
  /\ reader' = "awake"
  /\ UNCHANGED <<indices, data, producer, consumer, read, got, counts>>

(* NAME_init: `head = tail = 0' stores tail first. *)
ResetTail ==
  /\ reader = "silent" /\ producer = "idle"
  /\ tail' = 0
  /\ producer' = "reset"
  /\ UNCHANGED <<head, data, consumer, read, got, counts, reader>>

ResetHead ==
  /\ producer = "reset"
  /\ head' = 0
  /\ producer' = "idle"
  /\ promised' = None /\ available' = None
  /\ UNCHANGED <<tail, data, consumer, read, got, operand, reader>>

(* G4: `while (can_read()) pop();' *)
DiscardSlot ==
  /\ reader = "silent" /\ producer = "idle"
  /\ ~is_empty
  /\ tail' = Inc(tail)
  /\ available' = None
  /\ UNCHANGED <<head, data, producer, consumer, read, got, operand, promised, reader>>

-----------------------------------------------------------------------------
Produce == (\E d \in Data : WriteSlot(d)) \/ SeeRoom \/ AdvanceHead
Consume == SeeData \/ ReadSlot \/ Pop

Next ==
  \/ Produce
  \/ Consume
  \/ FetchFirst \/ ProducerUsed \/ ConsumerUsed
  \/ ConsumerStops \/ WakeConsumer
  \/ ResetTail \/ ResetHead \/ DiscardSlot

Spec == Init /\ [][Next]_vars
-----------------------------------------------------------------------------
(* Properties *)

Places == {"head read", "tail read"}

TypeOK ==
  /\ head \in Index /\ tail \in Index
  /\ data \in [Index -> Data]
  /\ producer \in {"idle", "written", "room", "reset"} \cup Places
  /\ consumer \in {"idle", "data", "read"} \cup Places
  /\ read \in Data /\ got \in Data
  /\ operand \in [{"producer", "consumer"} -> Index]
  /\ promised \in Index \cup {None} /\ available \in Index \cup {None}
  /\ reader \in {"awake", "silent"}

(* The first n slots from t on. *)
Window(slots, t, n) == [k \in 1 .. n |-> slots[Slot(t, k - 1)]]

(* The elements written and not yet taken, oldest first.  Once NAME_init   *)
(* has begun (head and tail disagree for one store) there are none.        *)
Contents == IF producer = "reset" THEN <<>> ELSE Window(data, tail, Used)

Fifo == INSTANCE BoundedFifo WITH Capacity <- Size - 1, fifo <- Contents

(* The buffer is a FIFO of Size - 1 elements: nothing is lost, duplicated, *)
(* reordered or overwritten, although NAME_put writes its slot before it   *)
(* tests for room (buffer.h:71) and although the handlers interrupt main   *)
(* between any two accesses to head and tail.                              *)
ImplementsFifo == Fifo!Spec

(* The fill level main reported when it was the producer ("OK %d", the     *)
(* free entries, main.c:123-124) never understates the entries in use      *)
(* until main queues another one: the promised room is really there.       *)
PromiseKept ==
  promised # None /\ producer # "reset" => Used <= promised

(* What the consumer was told is available stays available until it takes  *)
(* it: a get after a positive used() (cmd_available, main.c:116) does not  *)
(* block.                                                                  *)
AvailabilityKept ==
  available # None /\ producer # "reset" => Used >= available

(* Both sides may act on what used() told them, however old it is.         *)
UsedSafe == PromiseKept /\ AvailabilityKept
=============================================================================
