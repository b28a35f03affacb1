--------------------- MODULE BoundedBlockingQueueProofs ---------------------
(***************************************************************************)
(* Theorems about BoundedBlockingQueue, for any number of threads, items   *)
(* and slots.                                                              *)
(***************************************************************************)
EXTENDS BoundedBlockingQueue, SequenceLemmas, FiniteSetTheorems, TLAPS

-----------------------------------------------------------------------------
(* Arithmetic of the ring *)

(* The i-th slot after slot b. *)
After(b, i) == (b + i) % Capacity

\* Starting over at most once, as no slot is more than Capacity away.
LEMMA AfterValue ==
    ASSUME NEW b \in Slots, NEW i \in 0 .. Capacity
    PROVE  After(b, i) = IF b + i < Capacity THEN b + i ELSE b + i - Capacity
  BY QueueAssumption, SMT DEF After, Slots

\* A slot after a slot is a slot.
LEMMA AfterType ==
    ASSUME NEW b \in Slots, NEW i \in 0 .. Capacity
    PROVE  After(b, i) \in Slots
  BY QueueAssumption, SMT DEF After, Slots

\* Fewer than Capacity slots after b, none is met twice.
LEMMA AfterInjective ==
    ASSUME NEW b \in Slots,
           NEW i \in 0 .. Capacity - 1, NEW j \in 0 .. Capacity - 1,
           After(b, i) = After(b, j)
    PROVE  i = j
  <1>1. i \in 0 .. Capacity /\ j \in 0 .. Capacity
    BY QueueAssumption
  <1>. QED  BY <1>1, AfterValue, QueueAssumption, SMT DEF Slots

\* The i-th slot after the next one is the (i + 1)-th one.
LEMMA AfterNext ==
    ASSUME NEW b \in Slots, NEW i \in 0 .. Capacity - 1
    PROVE  After(After(b, 1), i) = After(b, i + 1)
  <1>1. 1 \in 0 .. Capacity /\ i \in 0 .. Capacity /\ i + 1 \in 0 .. Capacity
    BY QueueAssumption
  <1>2. After(b, 1) \in Slots
    BY <1>1, AfterType
  <1>3. After(b, 1) = IF b + 1 < Capacity THEN b + 1 ELSE b + 1 - Capacity
    BY <1>1, AfterValue
  <1>4. After(After(b, 1), i) =
            IF After(b, 1) + i < Capacity
            THEN After(b, 1) + i ELSE After(b, 1) + i - Capacity
    BY <1>1, <1>2, AfterValue
  <1>5. After(b, i + 1) =
            IF b + (i + 1) < Capacity
            THEN b + (i + 1) ELSE b + (i + 1) - Capacity
    BY <1>1, AfterValue
  <1>. QED  BY <1>2, <1>3, <1>4, <1>5, QueueAssumption, SMT DEF Slots

\* Slot counts from the slot of the oldest item.
LEMMA SlotIsAfter == \A i : Slot(i) = After(beginIndex_, i)
  BY DEF Slot, After

-----------------------------------------------------------------------------
(* Steps, without the difference between a thread that enters the queue    *)
(* and one that was woken inside it.                                       *)

PutStep(p, x) ==
    /\ p \notin notFull_
    /\ PutLocked(p, x)
    /\ UNCHANGED <<taking, result>>

TakeStep(c) ==
    /\ c \notin notEmpty_
    /\ TakeLocked(c)
    /\ UNCHANGED putting

\* Each step is a PutStep, a TakeStep or an unasked wakeup.
LEMMA StepCases ==
    ASSUME TypeOK, [Next]_vars
    PROVE  \/ \E p \in Producers, x \in Items : PutStep(p, x)
           \/ \E c \in Consumers : TakeStep(c)
           \/ WakeUnasked
           \/ UNCHANGED vars
  <1>. USE DEF TypeOK
  <1>1. ASSUME NEW p \in Producers, NEW x \in Items, CallPut(p, x)
        PROVE  PutStep(p, x)
    BY <1>1 DEF CallPut, PutStep
  <1>2. ASSUME NEW p \in Producers, ResumePut(p)
        PROVE  putting[p] \in Items /\ PutStep(p, putting[p])
    BY <1>2 DEF ResumePut, PutStep, WokenProducers
  <1>3. ASSUME NEW c \in Consumers, CallTake(c)
        PROVE  TakeStep(c)
    BY <1>3 DEF CallTake, TakeStep
  <1>4. ASSUME NEW c \in Consumers, ResumeTake(c)
        PROVE  TakeStep(c)
    BY <1>4 DEF ResumeTake, TakeStep, WokenConsumers
  <1>. QED  BY <1>1, <1>2, <1>3, <1>4 DEF Next

-----------------------------------------------------------------------------
(* Types *)

\* push_back keeps the indices inside the ring.
LEMMA PushKeepsRingTypes ==
    ASSUME TypeOK, NEW x \in Items, ~full, push_back(x)
    PROVE  /\ vec_' \in [Slots -> Items \union {NoItem}]
           /\ count_' \in 0 .. Capacity
           /\ beginIndex_' \in Slots
           /\ endIndex_' \in Slots
           /\ size_' \in 0 .. Capacity
  <1>. USE QueueAssumption DEF TypeOK, push_back, full
  <1>1. vec_' \in [Slots -> Items \union {NoItem}]
    OBVIOUS
  <1>2. endIndex_' \in Slots
    BY DEF Slots
  <1>. QED  BY <1>1, <1>2

\* pop_front keeps the indices inside the ring.
LEMMA PopKeepsRingTypes ==
    ASSUME TypeOK, ~empty, pop_front
    PROVE  /\ vec_' \in [Slots -> Items \union {NoItem}]
           /\ count_' \in 0 .. Capacity
           /\ beginIndex_' \in Slots
           /\ endIndex_' \in Slots
           /\ size_' \in 0 .. Capacity
  <1>. USE QueueAssumption DEF TypeOK, pop_front, PopFrontTo, empty
  <1>1. vec_' \in [Slots -> Items \union {NoItem}]
    OBVIOUS
  <1>2. beginIndex_' \in Slots
    BY DEF Slots
  <1>. QED  BY <1>1, <1>2

\* Each step keeps the types.
LEMMA TypeStep ==
    ASSUME TypeOK, [Next]_vars
    PROVE  TypeOK'
  <1>1. ASSUME NEW p \in Producers, NEW x \in Items, PutStep(p, x)
        PROVE  TypeOK'
    <2>. USE <1>1 DEF PutStep, PutLocked
    <2>1. CASE full
      BY <2>1, QueueAssumption DEF TypeOK, ring
    <2>2. CASE ~full
      <3>1. push_back(x) /\ notFull_' = notFull_ /\ NotifyConsumer
        BY <2>2
      <3>2. notEmpty_' \subseteq notEmpty_
        BY <3>1 DEF NotifyConsumer, Notify
      <3>3. putting' = [putting EXCEPT ![p] = NoItem]
        BY <2>2
      <3>4. notFull_' \in SUBSET {q \in Producers : putting'[q] # NoItem}
        BY <3>1, <3>3 DEF TypeOK
      <3>5. putting' \in [Producers -> Items \union {NoItem}]
        BY <3>3 DEF TypeOK
      <3>. QED  BY <2>2, <3>1, <3>2, <3>4, <3>5, PushKeepsRingTypes DEF TypeOK
    <2>. QED  BY <2>1, <2>2
  <1>2. ASSUME NEW c \in Consumers, TakeStep(c)
        PROVE  TypeOK'
    <2>. USE <1>2 DEF TakeStep, TakeLocked
    <2>1. CASE empty
      BY <2>1 DEF TypeOK, ring
    <2>2. CASE ~empty
      <3>1. pop_front /\ notEmpty_' = notEmpty_ /\ NotifyProducer
        BY <2>2
      <3>2. notFull_' \subseteq notFull_
        BY <3>1 DEF NotifyProducer, Notify
      <3>3. front \in Items \union {NoItem}
        BY DEF TypeOK, front
      <3>4. result' \in [Consumers -> Items \union {NoItem}]
        BY <2>2, <3>3 DEF TypeOK
      <3>5. taking' \in SUBSET Consumers /\ notEmpty_' \in SUBSET taking'
        BY <2>2, <3>1 DEF TypeOK
      <3>. QED  BY <2>2, <3>1, <3>2, <3>4, <3>5, PopKeepsRingTypes DEF TypeOK
    <2>. QED  BY <2>1, <2>2
  <1>3. CASE WakeUnasked
    BY <1>3 DEF TypeOK, WakeUnasked, ring
  <1>4. CASE UNCHANGED vars
    BY <1>4 DEF TypeOK, vars, ring
  <1>. QED  BY <1>1, <1>2, <1>3, <1>4, StepCases

(* The variables keep their types, and the indices stay inside the ring,   *)
(* whatever is put and taken by how many threads.                          *)
THEOREM TypeCorrect == Spec => []TypeOK
  <1>1. Init => TypeOK
    BY QueueAssumption DEF Init, TypeOK, Slots
  <1>2. TypeOK /\ [Next]_vars => TypeOK'
    BY TypeStep
  <1>. QED  BY <1>1, <1>2, PTL DEF Spec

-----------------------------------------------------------------------------
(* The ring *)

(* LiveSlotsHoldItems is not inductive: push_back writes to one of two     *)
(* places.  Both are the slot after the youngest item.                     *)
RingInv ==
    /\ endIndex_ = Slot(size_)
    /\ count_ < Capacity => endIndex_ = count_
    /\ LiveSlotsHoldItems

\* Either way of push_back writes the slot after the youngest item.
LEMMA PushWritesEnd ==
    ASSUME TypeOK, RingInv, NEW x \in Items, push_back(x)
    PROVE  vec_' = [vec_ EXCEPT ![Slot(size_)] = x]
  BY DEF RingInv, push_back, TypeOK

\* push_back adds the slot it writes to the live ones.
LEMMA PushKeepsRing ==
    ASSUME TypeOK, RingInv, NEW x \in Items, ~full, push_back(x)
    PROVE  RingInv'
  <1>. USE QueueAssumption
  <1>1. /\ beginIndex_ \in Slots /\ size_ \in 0 .. Capacity - 1
        /\ beginIndex_' = beginIndex_ /\ size_' = size_ + 1
    BY DEF TypeOK, push_back, full
  <1>2. \A i \in 0 .. Capacity : Slot(i)' = Slot(i)
    BY <1>1 DEF Slot
  <1>3. endIndex_' = Slot(size_)'
    <2>1. endIndex_' = After(After(beginIndex_, size_), 1)
      BY SlotIsAfter DEF RingInv, push_back, After
    <2>2. /\ size_ \in 0 .. Capacity /\ 1 \in 0 .. Capacity
          /\ size_ + 1 \in 0 .. Capacity
      BY <1>1
    <2>3. After(beginIndex_, size_) \in Slots
      BY <1>1, <2>2, AfterType
    <2>4. After(After(beginIndex_, size_), 1) = After(beginIndex_, size_ + 1)
      <3>1. After(beginIndex_, size_) =
                IF beginIndex_ + size_ < Capacity
                THEN beginIndex_ + size_ ELSE beginIndex_ + size_ - Capacity
        BY <1>1, <2>2, AfterValue
      <3>2. After(After(beginIndex_, size_), 1) =
                IF After(beginIndex_, size_) + 1 < Capacity
                THEN After(beginIndex_, size_) + 1
                ELSE After(beginIndex_, size_) + 1 - Capacity
        BY <2>2, <2>3, AfterValue
      <3>3. After(beginIndex_, size_ + 1) =
                IF beginIndex_ + (size_ + 1) < Capacity
                THEN beginIndex_ + (size_ + 1)
                ELSE beginIndex_ + (size_ + 1) - Capacity
        BY <1>1, <2>2, AfterValue
      <3>. QED  BY <1>1, <2>3, <3>1, <3>2, <3>3 DEF Slots
    <2>. QED  BY <1>1, <2>1, <2>4 DEF Slot, After
  <1>4. count_' < Capacity => endIndex_' = count_'
    <2>1. SUFFICES ASSUME count_' < Capacity PROVE endIndex_' = count_'
      OBVIOUS
    <2>2. count_ < Capacity /\ count_' = count_ + 1
      BY <2>1 DEF push_back, TypeOK
    <2>3. endIndex_' = (count_ + 1) % Capacity
      BY <2>2 DEF RingInv, push_back
    <2>. QED  BY <2>1, <2>2, <2>3 DEF TypeOK
  <1>5. LiveSlotsHoldItems'
    <2>1. Slot(size_) \in Slots
      BY DEF RingInv, TypeOK
    <2>2. vec_' = [vec_ EXCEPT ![Slot(size_)] = x]
      BY PushWritesEnd
    <2>3. {s \in Slots : vec_'[s] # NoItem} =
              {s \in Slots : vec_[s] # NoItem} \union {Slot(size_)}
      BY <2>1, <2>2 DEF TypeOK
    <2>4. {Slot(i)' : i \in 0 .. size_' - 1} =
              {Slot(i) : i \in 0 .. size_ - 1} \union {Slot(size_)}
      <3>1. 0 .. size_' - 1 = (0 .. size_ - 1) \union {size_}
        BY <1>1
      <3>2. \A i \in 0 .. size_' - 1 : Slot(i)' = Slot(i)
        BY <1>1, <1>2
      <3>. QED  BY <3>1, <3>2, Zenon
    <2>. QED  BY <2>3, <2>4 DEF RingInv, LiveSlotsHoldItems
  <1>. QED  BY <1>3, <1>4, <1>5 DEF RingInv

\* pop_front makes the second oldest item the oldest.
LEMMA PopShiftsSlots ==
    ASSUME TypeOK, pop_front, NEW i \in 0 .. Capacity - 1
    PROVE  Slot(i)' = Slot(i + 1)
  <1>1. Slot(i)' = After(After(beginIndex_, 1), i)
    BY DEF Slot, After, pop_front, PopFrontTo
  <1>2. After(After(beginIndex_, 1), i) = After(beginIndex_, i + 1)
    BY AfterNext DEF TypeOK
  <1>. QED  BY <1>1, <1>2, SlotIsAfter

\* pop_front takes the slot it leaves from the live ones.
LEMMA PopKeepsRing ==
    ASSUME TypeOK, RingInv, ~empty, pop_front
    PROVE  RingInv'
  <1>. USE QueueAssumption
  <1>1. /\ beginIndex_ \in Slots /\ size_ \in 1 .. Capacity
        /\ size_' = size_ - 1 /\ endIndex_' = endIndex_ /\ count_' = count_
        /\ vec_' = [vec_ EXCEPT ![beginIndex_] = NoItem]
    BY DEF TypeOK, pop_front, PopFrontTo, empty
  <1>2. \A i \in 0 .. size_ - 1 : Slot(i)' = Slot(i + 1)
    BY <1>1, PopShiftsSlots
  <1>3. endIndex_' = Slot(size_)'
    <2>1. PICK k \in 0 .. Capacity - 1 : k = size_ - 1
      BY <1>1
    <2>2. Slot(k)' = Slot(k + 1)
      BY PopShiftsSlots
    <2>3. k + 1 = size_ /\ k = size_'
      BY <1>1, <2>1
    <2>. QED  BY <1>1, <2>2, <2>3 DEF RingInv, Slot
  <1>4. beginIndex_ = Slot(0)
    BY <1>1 DEF Slot, Slots
  <1>5. \A j \in 1 .. size_ - 1 : Slot(j) # beginIndex_
    <2>1. SUFFICES ASSUME NEW j \in 1 .. size_ - 1, Slot(j) = Slot(0)
                   PROVE  FALSE
      BY <1>4
    <2>2. j \in 0 .. Capacity - 1 /\ 0 \in 0 .. Capacity - 1
      BY <1>1
    <2>3. j = 0
      BY <1>1, <2>1, <2>2, AfterInjective, SlotIsAfter
    <2>. QED  BY <2>3
  <1>6. LiveSlotsHoldItems'
    <2>1. {s \in Slots : vec_'[s] # NoItem} =
              {s \in Slots : vec_[s] # NoItem} \ {beginIndex_}
      BY <1>1 DEF TypeOK
    <2>2. {Slot(i) : i \in 0 .. size_ - 1} =
              {Slot(j) : j \in 1 .. size_ - 1} \union {beginIndex_}
      <3>1. 0 .. size_ - 1 = (1 .. size_ - 1) \union {0}
        BY <1>1
      <3>. QED  BY <1>4, <3>1, Zenon
    <2>3. {Slot(i)' : i \in 0 .. size_' - 1} = {Slot(j) : j \in 1 .. size_ - 1}
      <3>1. \A i \in 0 .. size_' - 1 :
                i + 1 \in 1 .. size_ - 1 /\ Slot(i)' = Slot(i + 1)
        BY <1>1, <1>2
      <3>2. \A j \in 1 .. size_ - 1 :
                \E i \in 0 .. size_' - 1 : Slot(i)' = Slot(j)
        <4>1. TAKE j \in 1 .. size_ - 1
        <4>2. j - 1 \in 0 .. size_' - 1 /\ j - 1 + 1 = j
          BY <1>1, <4>1
        <4>. QED  BY <1>1, <1>2, <4>2
      <3>. QED  BY <3>1, <3>2, Zenon
    <2>. QED
      BY <1>5, <2>1, <2>2, <2>3, Zenon DEF RingInv, LiveSlotsHoldItems
  <1>. QED  BY <1>1, <1>3, <1>6 DEF RingInv

\* Each step keeps the ring in order.
LEMMA RingStep ==
    ASSUME TypeOK, RingInv, [Next]_vars
    PROVE  RingInv'
  <1>1. UNCHANGED ring => RingInv'
    BY DEF RingInv, LiveSlotsHoldItems, Slot, ring
  <1>2. ASSUME NEW p \in Producers, NEW x \in Items, PutStep(p, x)
        PROVE  RingInv'
    BY <1>1, <1>2, PushKeepsRing DEF PutStep, PutLocked
  <1>3. ASSUME NEW c \in Consumers, TakeStep(c)
        PROVE  RingInv'
    BY <1>1, <1>3, PopKeepsRing DEF TakeStep, TakeLocked
  <1>. QED  BY <1>1, <1>2, <1>3, StepCases DEF WakeUnasked, vars

\* The ring is in order in every reachable state.
LEMMA RingInvariant == Spec => []RingInv
  <1>1. Init => RingInv
    <2>1. SUFFICES ASSUME Init PROVE RingInv
      OBVIOUS
    <2>2. endIndex_ = Slot(size_) /\ endIndex_ = count_
      BY <2>1, QueueAssumption DEF Init, Slot
    <2>3. {s \in Slots : vec_[s] # NoItem} = {}
      BY <2>1 DEF Init
    <2>4. {Slot(i) : i \in 0 .. size_ - 1} = {}
      <3>1. 0 .. size_ - 1 = {}
        BY <2>1 DEF Init
      <3>. QED  BY <3>1, Zenon
    <2>. QED  BY <2>2, <2>3, <2>4 DEF RingInv, LiveSlotsHoldItems
  <1>2. TypeOK /\ RingInv /\ [Next]_vars => RingInv'
    BY RingStep
  <1>. QED  BY <1>1, <1>2, TypeCorrect, PTL DEF Spec

(* No Take returns a slot that was moved from or does not exist, and no    *)
(* Put overwrites an item, for rings of any size.                          *)
THEOREM LiveSlotsHold == Spec => []LiveSlotsHoldItems
  <1>1. RingInv => LiveSlotsHoldItems
    BY DEF RingInv
  <1>. QED  BY <1>1, RingInvariant, PTL

-----------------------------------------------------------------------------
(* Signals *)

\* There are finitely many woken threads, so they can be counted.
LEMMA WokenFinite ==
    ASSUME TypeOK
    PROVE  IsFiniteSet(WokenProducers) /\ IsFiniteSet(WokenConsumers)
  <1>1. WokenProducers \subseteq Producers /\ WokenConsumers \subseteq Consumers
    BY DEF TypeOK, WokenProducers, WokenConsumers
  <1>. QED  BY <1>1, FS_Subset, QueueAssumption

\* A Put that stores its item wakes a consumer for it, if any blocks.
LEMMA PutKeepsSignals ==
    ASSUME TypeOK, NoneForgotten, NEW p \in Producers, NEW x \in Items,
           PutStep(p, x)
    PROVE  NoneForgotten'
  <1>. USE QueueAssumption DEF PutStep, PutLocked
  <1>1. CASE full
    <2>1. notEmpty_' = notEmpty_ /\ size_' = size_ /\ taking' = taking
      BY <1>1 DEF ring
    <2>2. WokenConsumers' = WokenConsumers
      BY <2>1 DEF WokenConsumers
    <2>3. Capacity - size_' = 0
      BY <1>1, <2>1 DEF full
    <2>4. Cardinality(WokenProducers') \in Nat
      <3>1. WokenProducers' \subseteq Producers
        BY DEF WokenProducers
      <3>. QED  BY <3>1, FS_Subset, FS_CardinalityType
    <2>. QED  BY <2>1, <2>2, <2>3, <2>4 DEF NoneForgotten
  <1>2. CASE ~full
    <2>1. /\ size_ \in Nat /\ size_' = size_ + 1
          /\ notFull_' = notFull_ /\ NotifyConsumer /\ taking' = taking
          /\ putting' = [putting EXCEPT ![p] = NoItem]
      BY <1>2 DEF push_back, TypeOK
    <2>2. notFull_' # {} => Capacity - size_' <= Cardinality(WokenProducers')
      <3>1. WokenProducers' = WokenProducers \ {p}
        BY <2>1 DEF WokenProducers, TypeOK
      <3>2. Cardinality(WokenProducers) - 1 <= Cardinality(WokenProducers')
        BY <3>1, OneLess, WokenFinite
      <3>3. /\ Cardinality(WokenProducers) \in Nat
            /\ Cardinality(WokenProducers') \in Nat
        BY <3>1, WokenFinite, FS_RemoveElement, FS_CardinalityType
      <3>. QED  BY <2>1, <3>2, <3>3 DEF NoneForgotten
    <2>3. notEmpty_' # {} => size_' <= Cardinality(WokenConsumers')
      <3>1. SUFFICES ASSUME notEmpty_' # {}
                     PROVE  size_' <= Cardinality(WokenConsumers')
        OBVIOUS
      <3>2. PICK t \in notEmpty_ : notEmpty_' = notEmpty_ \ {t}
        BY <2>1, <3>1 DEF NotifyConsumer, Notify
      <3>3. WokenConsumers' = WokenConsumers \union {t} /\ t \notin WokenConsumers
        BY <2>1, <3>2 DEF WokenConsumers, TypeOK
      <3>4. Cardinality(WokenConsumers') = Cardinality(WokenConsumers) + 1
        BY <3>3, WokenFinite, FS_AddElement
      <3>5. Cardinality(WokenConsumers) \in Nat
        BY WokenFinite, FS_CardinalityType
      <3>. QED  BY <2>1, <3>2, <3>4, <3>5 DEF NoneForgotten
    <2>. QED  BY <2>2, <2>3 DEF NoneForgotten
  <1>. QED  BY <1>1, <1>2

\* A Take that frees a slot wakes a producer for it, if any blocks.
LEMMA TakeKeepsSignals ==
    ASSUME TypeOK, NoneForgotten, NEW c \in Consumers, TakeStep(c)
    PROVE  NoneForgotten'
  <1>. USE QueueAssumption DEF TakeStep, TakeLocked
  <1>1. CASE empty
    <2>1. /\ notFull_' = notFull_ /\ size_' = size_ /\ putting' = putting
          /\ taking' \subseteq Consumers
      BY <1>1 DEF ring, TypeOK
    <2>2. WokenProducers' = WokenProducers
      BY <2>1 DEF WokenProducers
    <2>3. size_' = 0
      BY <1>1, <2>1 DEF empty
    <2>4. Cardinality(WokenConsumers') \in Nat
      <3>1. WokenConsumers' \subseteq Consumers
        BY <2>1 DEF WokenConsumers
      <3>. QED  BY <3>1, FS_Subset, FS_CardinalityType
    <2>. QED  BY <2>1, <2>2, <2>3, <2>4 DEF NoneForgotten
  <1>2. CASE ~empty
    <2>1. /\ size_ \in Nat /\ size_' = size_ - 1
          /\ notEmpty_' = notEmpty_ /\ NotifyProducer /\ putting' = putting
          /\ taking' = taking \ {c}
      BY <1>2 DEF pop_front, PopFrontTo, TypeOK
    <2>2. notEmpty_' # {} => size_' <= Cardinality(WokenConsumers')
      <3>1. WokenConsumers' = WokenConsumers \ {c}
        BY <2>1 DEF WokenConsumers
      <3>2. Cardinality(WokenConsumers) - 1 <= Cardinality(WokenConsumers')
        BY <3>1, OneLess, WokenFinite
      <3>3. /\ Cardinality(WokenConsumers) \in Nat
            /\ Cardinality(WokenConsumers') \in Nat
        BY <3>1, WokenFinite, FS_RemoveElement, FS_CardinalityType
      <3>. QED  BY <2>1, <3>2, <3>3 DEF NoneForgotten
    <2>3. notFull_' # {} => Capacity - size_' <= Cardinality(WokenProducers')
      <3>1. SUFFICES ASSUME notFull_' # {}
                     PROVE  Capacity - size_' <= Cardinality(WokenProducers')
        OBVIOUS
      <3>2. PICK t \in notFull_ : notFull_' = notFull_ \ {t}
        BY <2>1, <3>1 DEF NotifyProducer, Notify
      <3>3. WokenProducers' = WokenProducers \union {t} /\ t \notin WokenProducers
        BY <2>1, <3>2 DEF WokenProducers, TypeOK
      <3>4. Cardinality(WokenProducers') = Cardinality(WokenProducers) + 1
        BY <3>3, WokenFinite, FS_AddElement
      <3>5. Cardinality(WokenProducers) \in Nat
        BY WokenFinite, FS_CardinalityType
      <3>. QED  BY <2>1, <3>2, <3>4, <3>5 DEF NoneForgotten
    <2>. QED  BY <2>2, <2>3 DEF NoneForgotten
  <1>. QED  BY <1>1, <1>2

\* More woken threads than needed do no harm.
LEMMA WakeKeepsSignals ==
    ASSUME TypeOK, NoneForgotten, WakeUnasked
    PROVE  NoneForgotten'
  <1>1. /\ notFull_' \subseteq notFull_ /\ notEmpty_' \subseteq notEmpty_
        /\ size_' = size_ /\ putting' = putting /\ taking' = taking
    BY DEF WakeUnasked, ring
  <1>2. /\ WokenProducers \subseteq WokenProducers'
        /\ WokenConsumers \subseteq WokenConsumers'
        /\ WokenProducers' \subseteq Producers
        /\ WokenConsumers' \subseteq Consumers
    BY <1>1 DEF WokenProducers, WokenConsumers, TypeOK
  <1>3. /\ IsFiniteSet(WokenProducers') /\ IsFiniteSet(WokenConsumers')
    BY <1>2, FS_Subset, QueueAssumption
  <1>4. /\ Cardinality(WokenProducers) <= Cardinality(WokenProducers')
        /\ Cardinality(WokenConsumers) <= Cardinality(WokenConsumers')
        /\ Cardinality(WokenProducers) \in Nat
        /\ Cardinality(WokenProducers') \in Nat
        /\ Cardinality(WokenConsumers) \in Nat
        /\ Cardinality(WokenConsumers') \in Nat
    BY <1>2, <1>3, FS_Subset, FS_CardinalityType
  <1>. QED  BY <1>1, <1>4, QueueAssumption DEF NoneForgotten, TypeOK

(* One signal per item and per slot is enough for any number of threads:   *)
(* none blocks while an item, or a slot, is left that nobody is on the way *)
(* to.  The invariant counts the woken threads; that there is one at all   *)
(* would not be inductive.                                                 *)
THEOREM NoSignalLost == Spec => []NoneForgotten
  <1>1. Init => NoneForgotten
    BY DEF Init, NoneForgotten
  <1>2. TypeOK /\ NoneForgotten /\ [Next]_vars => NoneForgotten'
    <2>1. SUFFICES ASSUME TypeOK, NoneForgotten, [Next]_vars
                   PROVE  NoneForgotten'
      OBVIOUS
    <2>2. CASE UNCHANGED vars
      BY <2>1, <2>2
         DEF NoneForgotten, WokenProducers, WokenConsumers, vars, ring
    <2>. QED  BY <2>1, <2>2, StepCases, PutKeepsSignals, TakeKeepsSignals,
                 WakeKeepsSignals
  <1>. QED  BY <1>1, <1>2, TypeCorrect, PTL DEF Spec

-----------------------------------------------------------------------------
(* The queue as the threads see it *)

\* The contents of the queue are size_ items.
LEMMA ContentsType ==
    ASSUME TypeOK, RingInv
    PROVE  Contents \in Seq(Items) /\ Len(Contents) = size_
  <1>1. ASSUME NEW i \in 1 .. size_ PROVE vec_[Slot(i - 1)] \in Items
    <2>1. i - 1 \in 0 .. size_ - 1
      BY DEF TypeOK
    <2>2. Slot(i - 1) \in {s \in Slots : vec_[s] # NoItem}
      BY <2>1 DEF RingInv, LiveSlotsHoldItems
    <2>. QED  BY <2>2 DEF TypeOK
  <1>2. size_ \in Nat
    BY DEF TypeOK
  <1>. QED  BY <1>1, <1>2 DEF Contents

\* push_back appends its argument to the contents.
LEMMA PutAppends ==
    ASSUME TypeOK, RingInv, NEW x \in Items, ~full, push_back(x)
    PROVE  Contents' = Append(Contents, x)
  <1>. USE QueueAssumption
  <1>1. /\ beginIndex_ \in Slots /\ size_ \in 0 .. Capacity - 1
        /\ beginIndex_' = beginIndex_ /\ size_' = size_ + 1
    BY DEF TypeOK, push_back, full
  <1>2. vec_' = [vec_ EXCEPT ![Slot(size_)] = x] /\ Slot(size_) \in Slots
    BY PushWritesEnd DEF RingInv, TypeOK
  <1>3. Contents' = [i \in 1 .. size_ + 1 |-> vec_'[Slot(i - 1)]]
    BY <1>1 DEF Contents, Slot
  <1>4. ASSUME NEW i \in 1 .. size_
        PROVE  vec_'[Slot(i - 1)] = vec_[Slot(i - 1)]
    <2>1. /\ i - 1 \in 0 .. Capacity - 1 /\ i - 1 \in 0 .. Capacity
          /\ i - 1 # size_
      BY <1>1
    <2>2. Slot(i - 1) # Slot(size_)
      BY <1>1, <2>1, AfterInjective, SlotIsAfter
    <2>3. Slot(i - 1) \in Slots
      BY <1>1, <2>1, AfterType, SlotIsAfter
    <2>. QED  BY <1>2, <2>2, <2>3 DEF TypeOK
  <1>5. vec_'[Slot(size_ + 1 - 1)] = x
    BY <1>1, <1>2 DEF TypeOK
  <1>6. Append(Contents, x) =
            [i \in 1 .. size_ + 1 |->
                IF i = size_ + 1 THEN x ELSE Contents[i]]
    BY <1>1, ContentsType, AppendAsFunction
  <1>7. \A i \in 1 .. size_ : Contents[i] = vec_[Slot(i - 1)]
    BY DEF Contents
  <1>. QED  BY <1>1, <1>3, <1>4, <1>5, <1>6, <1>7

\* Take returns the first of the contents and pop_front removes it.
LEMMA TakeRemovesFirst ==
    ASSUME TypeOK, RingInv, ~empty, pop_front
    PROVE  /\ Contents # <<>>
           /\ front = Head(Contents)
           /\ Contents' = Tail(Contents)
  <1>. USE QueueAssumption
  <1>1. /\ beginIndex_ \in Slots /\ size_ \in 1 .. Capacity
        /\ size_' = size_ - 1
        /\ vec_' = [vec_ EXCEPT ![beginIndex_] = NoItem]
    BY DEF TypeOK, pop_front, PopFrontTo, empty
  <1>2. Contents \in Seq(Items) /\ Len(Contents) = size_
    BY ContentsType
  <1>3. Slot(0) = beginIndex_
    BY <1>1 DEF Slot, Slots
  <1>4. Head(Contents) = vec_[Slot(1 - 1)]
    BY <1>1, <1>2 DEF Contents
  <1>5. ASSUME NEW i \in 1 .. size_ - 1
        PROVE  vec_'[Slot(i - 1)'] = vec_[Slot(i + 1 - 1)]
    <2>1. /\ i - 1 \in 0 .. Capacity - 1 /\ i \in 0 .. Capacity - 1
          /\ 0 \in 0 .. Capacity - 1 /\ i \in 0 .. Capacity
          /\ i - 1 + 1 = i /\ i + 1 - 1 = i /\ i # 0
      BY <1>1
    <2>2. Slot(i - 1)' = Slot(i)
      BY <2>1, PopShiftsSlots
    <2>3. Slot(i) # beginIndex_
      BY <1>1, <1>3, <2>1, AfterInjective, SlotIsAfter
    <2>4. Slot(i) \in Slots
      BY <1>1, <2>1, AfterType, SlotIsAfter
    <2>. QED  BY <1>1, <2>1, <2>2, <2>3, <2>4 DEF TypeOK
  <1>6. Contents' = [i \in 1 .. size_ - 1 |-> vec_'[Slot(i - 1)']]
    BY <1>1 DEF Contents
  <1>7. Tail(Contents) = [i \in 1 .. size_ - 1 |-> Contents[i + 1]]
    BY <1>1, <1>2, TailAsFunction
  <1>8. \A i \in 1 .. size_ - 1 : Contents[i + 1] = vec_[Slot(i + 1 - 1)]
    <2>1. \A j \in 1 .. size_ : Contents[j] = vec_[Slot(j - 1)]
      BY DEF Contents
    <2>2. \A i \in 1 .. size_ - 1 : i + 1 \in 1 .. size_
      BY <1>1
    <2>. QED  BY <2>1, <2>2
  <1>9. Contents' = Tail(Contents)
    BY <1>5, <1>6, <1>7, <1>8, Zenon
  <1>. QED  BY <1>1, <1>2, <1>3, <1>4, <1>9 DEF front

(* Any number of producers and consumers, woken in any order, see a        *)
(* bounded queue: what a Take returns is what was put first, each item is  *)
(* taken once, and a Put happens only when there is room.                  *)
THEOREM QueueImplementsFifo == Spec => ImplementsFifo
  <1>1. Init => Fifo!Init
    BY DEF Init, Fifo!Init, Contents
  <1>2. TypeOK /\ RingInv /\ [Next]_vars => [Fifo!Next]_Fifo!vars
    <2>1. SUFFICES ASSUME TypeOK, RingInv, [Next]_vars
                   PROVE  Fifo!Next \/ UNCHANGED Fifo!vars
      BY DEF Fifo!vars
    <2>2. UNCHANGED <<ring, result>> => UNCHANGED Fifo!vars
      BY DEF Fifo!vars, Contents, Slot, ring
    <2>3. ASSUME NEW p \in Producers, NEW x \in Items, PutStep(p, x)
          PROVE  Fifo!Next \/ UNCHANGED Fifo!vars
      <3>1. CASE full
        BY <2>2, <2>3, <3>1 DEF PutStep, PutLocked
      <3>2. CASE ~full
        <4>1. Contents' = Append(Contents, x) /\ result' = result
          BY <2>1, <2>3, <3>2, PutAppends DEF PutStep, PutLocked
        <4>2. Len(Contents) < Capacity
          BY <2>1, <3>2, ContentsType, QueueAssumption DEF full, TypeOK
        <4>. QED  BY <4>1, <4>2 DEF Fifo!Next, Fifo!Put
      <3>. QED  BY <3>1, <3>2
    <2>4. ASSUME NEW c \in Consumers, TakeStep(c)
          PROVE  Fifo!Next \/ UNCHANGED Fifo!vars
      <3>1. CASE empty
        BY <2>2, <2>4, <3>1 DEF TakeStep, TakeLocked
      <3>2. CASE ~empty
        <4>1. /\ Contents # <<>> /\ Contents' = Tail(Contents)
              /\ result' = [result EXCEPT ![c] = Head(Contents)]
          BY <2>1, <2>4, <3>2, TakeRemovesFirst DEF TakeStep, TakeLocked
        <4>. QED  BY <4>1 DEF Fifo!Next, Fifo!Take
      <3>. QED  BY <3>1, <3>2
    <2>. QED  BY <2>1, <2>2, <2>3, <2>4, StepCases DEF WakeUnasked, vars
  <1>. QED
    BY <1>1, <1>2, TypeCorrect, RingInvariant, PTL
       DEF Spec, ImplementsFifo, Fifo!Spec
=============================================================================
