------------------------ MODULE BoundedBlockingQueue ------------------------
(***************************************************************************)
(* utils/BoundedBlockingQueue.h: a ring of slots shared by producers and   *)
(* consumers under one lock and two conditions.  Whatever a thread does    *)
(* between taking the lock and giving it up, by returning or by waiting,   *)
(* is one step: the others cannot look in between.  A thread that a        *)
(* condition has woken needs the lock again, and any other thread may get  *)
(* it first and undo what the woken thread was told.                       *)
(***************************************************************************)
EXTENDS Integers, FiniteSets, Sequences

CONSTANTS
    Producers,  \* threads that call Put
    Consumers,  \* threads that call Take
    Items,      \* values of T
    NoItem,     \* a slot that was moved from or not written yet; no argument
    Capacity    \* vec_.capacity(), what reserve(maxSize) leaves it at

ASSUME QueueAssumption ==
    /\ IsFiniteSet(Producers)
    /\ IsFiniteSet(Consumers)
    /\ NoItem \notin Items
    /\ Capacity \in Nat \ {0}

VARIABLES
    vec_,           \* the slots; those from count_ on are reserved only
    count_,         \* slots that exist: vec_.size()
    beginIndex_,    \* the slot of the oldest item
    endIndex_,      \* the slot after the one of the youngest
    size_,          \* items in the queue
    notFull_,       \* producers that block in notFull_.Wait()
    notEmpty_,      \* consumers that block in notEmpty_.Wait()
    putting,        \* argument of each producer's Put, if it has waited
    taking,         \* consumers whose Take has waited
    result          \* what each consumer's last Take returned

ring == <<vec_, count_, beginIndex_, endIndex_, size_>>
vars == <<ring, notFull_, notEmpty_, putting, taking, result>>

Slots == 0 .. Capacity - 1

(* The slot of the i-th oldest item, counted from 0. *)
Slot(i) == (beginIndex_ + i) % Capacity

(* Threads inside Put or Take that were woken and do not have the lock yet *)
WokenProducers == {p \in Producers : putting[p] # NoItem} \ notFull_
WokenConsumers == taking \ notEmpty_

Init ==
    /\ vec_ = [s \in Slots |-> NoItem]
    /\ count_ = 0
    /\ beginIndex_ = 0
    /\ endIndex_ = 0
    /\ size_ = 0
    /\ notFull_ = {}
    /\ notEmpty_ = {}
    /\ putting = [p \in Producers |-> NoItem]
    /\ taking = {}
    /\ result = [c \in Consumers |-> NoItem]

-----------------------------------------------------------------------------
(* CircularQueue *)

empty == size_ = 0

full == size_ = Capacity

push_back(x) ==
    /\ IF count_ < Capacity
       THEN /\ vec_' = [vec_ EXCEPT ![count_] = x]
            /\ count_' = count_ + 1
       ELSE /\ vec_' = [vec_ EXCEPT ![endIndex_] = x]
            /\ count_' = count_
    /\ endIndex_' = (endIndex_ + 1) % Capacity
    /\ size_' = size_ + 1
    /\ UNCHANGED beginIndex_

(* The slot of the item that Take has moved out stays, without a value. *)
PopFrontTo(index) ==
    /\ vec_' = [vec_ EXCEPT ![beginIndex_] = NoItem]
    /\ beginIndex_' = index
    /\ size_' = size_ - 1
    /\ UNCHANGED <<count_, endIndex_>>

(* Mutation: starting over one slot too late or too early. *)
PopFrontOffByOne ==
    PopFrontTo(IF beginIndex_ + 2 >= Capacity THEN 0 ELSE beginIndex_ + 1)

pop_front == PopFrontTo((beginIndex_ + 1) % Capacity)

(* Mutation: the item is read after the index has moved on. *)
FrontAfterPop == vec_[Slot(1)]

front == vec_[beginIndex_]

-----------------------------------------------------------------------------
(* Condition: one of the threads that block is released, if there is one.  *)

Notify(blocked, blockedNext) ==
    IF blocked = {}
    THEN blockedNext = {}
    ELSE \E t \in blocked : blockedNext = blocked \ {t}

(* Mutation: consumers are told of the first item only, as if the one that *)
(* takes it were going to see to the others.                               *)
NotifyConsumerOfFirst ==
    IF size_ = 0 THEN Notify(notEmpty_, notEmpty_') ELSE notEmpty_' = notEmpty_

NotifyConsumer == Notify(notEmpty_, notEmpty_')

NotifyProducer == Notify(notFull_, notFull_')
-----------------------------------------------------------------------------
(* BoundedBlockingQueue *)

(* Put from the point where producer p has the lock. *)
PutLocked(p, x) ==
    \/ /\ full
       /\ notFull_' = notFull_ \union {p}
       /\ putting' = [putting EXCEPT ![p] = x]
       /\ UNCHANGED <<ring, notEmpty_>>
    \/ /\ ~full
       /\ push_back(x)
       /\ NotifyConsumer
       /\ putting' = [putting EXCEPT ![p] = NoItem]
       /\ UNCHANGED notFull_

(* Take from the point where consumer c has the lock. *)
TakeLocked(c) ==
    \/ /\ empty
       /\ notEmpty_' = notEmpty_ \union {c}
       /\ taking' = taking \union {c}
       /\ UNCHANGED <<ring, notFull_, result>>
    \/ /\ ~empty
       /\ result' = [result EXCEPT ![c] = front]
       /\ pop_front
       /\ NotifyProducer
       /\ taking' = taking \ {c}
       /\ UNCHANGED notEmpty_

CallPut(p, x) ==
    /\ putting[p] = NoItem
    /\ PutLocked(p, x)
    /\ UNCHANGED <<taking, result>>

ResumePut(p) ==
    /\ p \in WokenProducers
    /\ PutLocked(p, putting[p])
    /\ UNCHANGED <<taking, result>>

CallTake(c) ==
    /\ c \notin taking
    /\ TakeLocked(c)
    /\ UNCHANGED putting

ResumeTake(c) ==
    /\ c \in WokenConsumers
    /\ TakeLocked(c)
    /\ UNCHANGED putting

(* pthread_cond_wait may return, and pthread_cond_signal may wake more     *)
(* than one thread, at any time.                                           *)
WakeUnasked ==
    \/ /\ \E p \in notFull_ : notFull_' = notFull_ \ {p}
       /\ UNCHANGED notEmpty_
       /\ UNCHANGED <<ring, putting, taking, result>>
    \/ /\ \E c \in notEmpty_ : notEmpty_' = notEmpty_ \ {c}
       /\ UNCHANGED notFull_
       /\ UNCHANGED <<ring, putting, taking, result>>

Next ==
    \/ \E p \in Producers, x \in Items : CallPut(p, x)
    \/ \E p \in Producers : ResumePut(p)
    \/ \E c \in Consumers : CallTake(c)
    \/ \E c \in Consumers : ResumeTake(c)
    \/ WakeUnasked

Spec == Init /\ [][Next]_vars

-----------------------------------------------------------------------------
(* The variables have the types of their declarations; the indices stay    *)
(* inside the ring whatever the calls (utils/BoundedBlockingQueue.h).      *)
TypeOK ==
    /\ vec_ \in [Slots -> Items \union {NoItem}]
    /\ count_ \in 0 .. Capacity
    /\ beginIndex_ \in Slots
    /\ endIndex_ \in Slots
    /\ size_ \in 0 .. Capacity
    /\ putting \in [Producers -> Items \union {NoItem}]
    /\ taking \in SUBSET Consumers
    /\ notFull_ \in SUBSET {p \in Producers : putting[p] # NoItem}
    /\ notEmpty_ \in SUBSET taking
    /\ result \in [Consumers -> Items \union {NoItem}]

(* The slots between the two indices, and only those, hold items: no Take  *)
(* returns a slot that was moved from or that does not exist, and no Put   *)
(* overwrites an item, also across the end of the ring and while vec_      *)
(* still grows, when push_back does not look at endIndex_ at all.          *)
LiveSlotsHoldItems ==
    {s \in Slots : vec_[s] # NoItem} = {Slot(i) : i \in 0 .. size_ - 1}

(* No signal is lost although each Put and each Take sends only one, and   *)
(* although the thread it wakes may find the queue full or empty again:    *)
(* while a consumer blocks, every item in the queue has a consumer on its  *)
(* way to it, and while a producer blocks every free slot has a producer.  *)
NoneForgotten ==
    /\ notEmpty_ # {} => size_ <= Cardinality(WokenConsumers)
    /\ notFull_ # {} => Capacity - size_ <= Cardinality(WokenProducers)

(* The queue in the order in which Take returns it. *)
Contents == [i \in 1 .. size_ |-> vec_[Slot(i - 1)]]

Fifo == INSTANCE BoundedFifo WITH items <- Contents

(* Whatever the ring, the lock and the conditions do, the threads see a    *)
(* bounded queue: first in, first out, nothing lost, doubled or made up.   *)
ImplementsFifo == Fifo!Spec
=============================================================================
