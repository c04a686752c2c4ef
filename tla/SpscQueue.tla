----------------------------- MODULE SpscQueue -----------------------------
(***************************************************************************)
(* Threading::SPSCQueue (core/threading/spscQueue.hpp): the ring each pair *)
(* of threads talks through, one atomic load, store or copy per step.      *)
(*                                                                         *)
(* An acquire load of the other side's counter may return a value that     *)
(* side has already moved past, but never one older than this thread read  *)
(* before: producerRead and consumerWritten are those lower bounds.  What  *)
(* was stored before a counter was released is visible to whoever acquired *)
(* that counter, so the slots themselves need no stale copy.               *)
(***************************************************************************)
EXTENDS Integers, Sequences

CONSTANTS Message,   \* what the queue carries
          Capacity,  \* the template argument
          Laps,      \* the counters wrap after Laps * Capacity steps
          NoMessage  \* an uninitialised message

ASSUME CapacityAssumption == Capacity \in Nat \ {0}
ASSUME LapsAssumption == Laps \in Nat \ {0, 1}
ASSUME NoMessageAssumption == NoMessage \notin Message

VARIABLES written,          \* written_, released by the producer
          read,             \* read_, released by the consumer
          messages,         \* messages_
          producer,         \* where the producer is: "idle", "store", "publish"
          pushing,          \* the argument of the push under way
          producerRead,     \* the value of read_ the producer last saw
          consumer,         \* where the consumer is: "idle", "copy", "publish"
          taken,            \* the copy the pop under way has made
          consumerWritten,  \* the value of written_ the consumer last saw
          popped            \* what the latest completed pop returned

producerVars == <<written, producer, pushing, producerRead>>
consumerVars == <<read, consumer, taken, consumerWritten, popped>>
ringVars == <<producerVars, consumerVars, messages>>

\* The range of std::size_t: the free-running counters are taken modulo this.
Modulus == Capacity * Laps
Counter == 0 .. Modulus - 1
Slots == 0 .. Capacity - 1

Succ(c) == IF c + 1 = Modulus THEN 0 ELSE c + 1
Minus(c, d) == IF c >= d THEN c - d ELSE (c - d) + Modulus
Plus(c, n) == IF c + n >= Modulus THEN (c + n) - Modulus ELSE c + n
SlotOf(c) == c % Capacity

\* How many messages wait, and the values each side may still see of the
\* other side's counter.
Occupancy == Minus(written, read)
ProducerMaySee ==
  {c \in Counter : Minus(c, producerRead) <= Minus(read, producerRead)}
ConsumerMaySee ==
  {c \in Counter : Minus(c, consumerWritten) <= Minus(written, consumerWritten)}

\* Mutant of IsFull: one message too many.
IsFullOffByOne(readSeen) == Minus(written, readSeen) > Capacity
IsFull(readSeen) == Minus(written, readSeen) >= Capacity

RingInit ==
  /\ written = 0 /\ read = 0
  /\ messages = [s \in Slots |-> NoMessage]
  /\ producer = "idle" /\ pushing = NoMessage /\ producerRead = 0
  /\ consumer = "idle" /\ taken = NoMessage /\ consumerWritten = 0
  /\ popped = NoMessage

-----------------------------------------------------------------------------
(* push(): refused when the queue looks full, otherwise store and release. *)

PushRefused(seen) ==
  /\ producer = "idle"
  /\ seen \in ProducerMaySee
  /\ IsFull(seen)
  /\ producerRead' = seen
  /\ UNCHANGED <<written, producer, pushing, consumerVars, messages>>

PushBegin(m, seen) ==
  /\ producer = "idle"
  /\ seen \in ProducerMaySee
  /\ ~IsFull(seen)
  /\ producerRead' = seen
  /\ pushing' = m
  /\ producer' = "store"
  /\ UNCHANGED <<written, consumerVars, messages>>

PushStore ==
  /\ producer = "store"
  /\ messages' = [messages EXCEPT ![SlotOf(written)] = pushing]
  /\ producer' = "publish"
  /\ UNCHANGED <<written, pushing, producerRead, consumerVars>>

PushPublish ==
  /\ producer = "publish"
  /\ written' = Succ(written)
  /\ producer' = "idle"
  /\ UNCHANGED <<pushing, producerRead, consumerVars, messages>>

-----------------------------------------------------------------------------
(* pop(): nothing to take when the counters meet, otherwise copy and       *)
(* release the slot.                                                       *)

PopEmpty(seen) ==
  /\ consumer = "idle"
  /\ seen \in ConsumerMaySee
  /\ seen = read
  /\ consumerWritten' = seen
  /\ UNCHANGED <<read, consumer, taken, popped, producerVars, messages>>

PopBegin(seen) ==
  /\ consumer = "idle"
  /\ seen \in ConsumerMaySee
  /\ seen # read
  /\ consumerWritten' = seen
  /\ consumer' = "copy"
  /\ UNCHANGED <<read, taken, popped, producerVars, messages>>

\* Mutant of PopCopy: the slot of the wrong counter.
PopCopyNewest ==
  /\ consumer = "copy"
  /\ taken' = messages[SlotOf(consumerWritten)]
  /\ consumer' = "publish"
  /\ UNCHANGED <<read, consumerWritten, popped, producerVars, messages>>
PopCopy ==
  /\ consumer = "copy"
  /\ taken' = messages[SlotOf(read)]
  /\ consumer' = "publish"
  /\ UNCHANGED <<read, consumerWritten, popped, producerVars, messages>>

PopPublish ==
  /\ consumer = "publish"
  /\ read' = Succ(read)
  /\ popped' = taken
  /\ consumer' = "idle"
  /\ UNCHANGED <<taken, consumerWritten, producerVars, messages>>

-----------------------------------------------------------------------------
Producer ==
  \/ \E seen \in Counter : PushRefused(seen)
  \/ \E m \in Message, seen \in Counter : PushBegin(m, seen)
  \/ PushStore
  \/ PushPublish

Consumer ==
  \/ \E seen \in Counter : PopEmpty(seen)
  \/ \E seen \in Counter : PopBegin(seen)
  \/ PopCopy
  \/ PopPublish

RingNext == Producer \/ Consumer

RingSpec == RingInit /\ [][RingNext]_ringVars

-----------------------------------------------------------------------------
RingTypes ==
  /\ written \in Counter /\ read \in Counter
  /\ producerRead \in Counter /\ consumerWritten \in Counter
  /\ messages \in [Slots -> Message \cup {NoMessage}]
  /\ producer \in {"idle", "store", "publish"}
  /\ consumer \in {"idle", "copy", "publish"}
  /\ pushing \in Message \cup {NoMessage}
  /\ taken \in Message \cup {NoMessage}
  /\ popped \in Message \cup {NoMessage}

\* The ring never holds more than its capacity, and each side's stale view of
\* the other's counter errs on the safe side: the producer's makes the queue
\* look fuller than it is, the consumer's emptier.
Bounded ==
  /\ Minus(written, producerRead) = Minus(read, producerRead) + Occupancy
  /\ Minus(written, producerRead) <= Capacity
  /\ Occupancy = Minus(consumerWritten, read) + Minus(written, consumerWritten)

\* What each side knows in the middle of its operation.
InOperation ==
  /\ producer # "idle" =>
       pushing \in Message /\ Minus(written, producerRead) < Capacity
  /\ producer = "publish" => messages[SlotOf(written)] = pushing
  /\ consumer # "idle" => consumerWritten # read
  /\ consumer = "publish" => taken = messages[SlotOf(read)]

\* Every published slot holds a message.
PublishedSlotsFilled ==
  \A i \in 0 .. Capacity - 1 :
    i < Occupancy => messages[SlotOf(Plus(read, i))] \in Message

(* The inductive invariant: counters at most Capacity apart across their   *)
(* wrap, stale views on the safe side, published slots filled and left     *)
(* alone until the consumer releases them.                                 *)
RingInv == RingTypes /\ Bounded /\ InOperation /\ PublishedSlotsFilled

(* The producer never stores into the slot the consumer is copying from:   *)
(* messages_ is a plain array, and the two counters are all that keeps the *)
(* two threads off one element of it.                                      *)
NoSlotRace ==
  (producer = "store" /\ consumer = "copy") => SlotOf(written) # SlotOf(read)

\* The abstract queue: the published messages, oldest first.
Waiting == [i \in 1 .. Occupancy |-> messages[SlotOf(Plus(read, i - 1))]]

(* The ring is a bounded FIFO: no accepted message is lost, duplicated,    *)
(* reordered or overwritten, across the wrap of the counters too.          *)
Fifo == INSTANCE BoundedFifo WITH queue <- Waiting
RefinesBoundedFifo == Fifo!Spec

=============================================================================
