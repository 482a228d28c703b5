--------------------------- MODULE SpscRingProofs ---------------------------
(***************************************************************************)
(* Proofs about SpscRing for every Capacity and every index width: the     *)
(* slots are free of data races, the threads never share a slot, and the   *)
(* ring implements BoundedFifo.                                            *)
(***************************************************************************)
EXTENDS SpscRing, Arithmetic, SequenceTheorems, TLAPS

-----------------------------------------------------------------------------
(* Indices and slots. *)

\* push and pop may index with i & mask: every index has a slot.
LEMMA SlotOfType == \A i \in Index : SlotOf(i) \in Slot
BY CapacityAssumption, Division DEF Index, Slot, SlotOf

\* Two indices less than Capacity apart use different slots, also when the
\* index wraps between them.
LEMMA SlotsDiffer ==
    ASSUME NEW i \in Index, NEW j \in Index, Minus(j, i) \in 1 .. Capacity - 1
    PROVE  SlotOf(i) # SlotOf(j)
<1> SUFFICES ASSUME i % Capacity = j % Capacity PROVE FALSE
  BY DEF SlotOf
<1> DEFINE m == IndexModulus \div Capacity
           qi == i \div Capacity
           qj == j \div Capacity
           r == i % Capacity
<1>0. Capacity \in Nat /\ Capacity > 0 /\ IndexModulus \in Nat
  BY CapacityAssumption
<1>1. IndexModulus = Capacity * m /\ m \in Nat
  BY Division, CapacityAssumption
<1>2. i = Capacity * qi + r /\ qi \in Nat /\ r \in Nat
  BY Division, <1>0 DEF Index
<1>3. j = Capacity * qj + r /\ qj \in Nat
  BY Division, <1>0 DEF Index
<1> HIDE DEF m, qi, qj, r
<1>4. CASE j >= i
  <2>1. Capacity * qj - Capacity * qi \in 1 .. Capacity - 1
    BY <1>0, <1>2, <1>3, <1>4 DEF Minus, Index
  <2> QED BY <2>1, <1>0, <1>2, <1>3, MultiplesApart
<1>5. CASE j < i
  <2>1. Capacity * (qj + m) = Capacity * qj + Capacity * m
    BY <1>0, <1>1, <1>3
  <2>2. Capacity * (qj + m) - Capacity * qi \in 1 .. Capacity - 1
    BY <1>0, <1>1, <1>2, <1>3, <1>5, <2>1 DEF Minus, Index
  <2> DEFINE x == qj + m
  <2>3. x \in Int /\ Capacity * x - Capacity * qi \in 1 .. Capacity - 1
    BY <2>2, <1>1, <1>3
  <2> HIDE DEF x
  <2> QED BY <2>3, <1>0, <1>2, MultiplesApart
<1> QED BY <1>0, <1>2, <1>3, <1>4, <1>5

\* CapacityAssumption leaves at least two index values beyond Capacity.
LEMMA RoomBeyondCapacity == IndexModulus >= Capacity + 2
<1>1. IndexModulus = Capacity * (IndexModulus \div Capacity)
      /\ IndexModulus \div Capacity \in Nat
  BY Division, CapacityAssumption
<1> DEFINE m == IndexModulus \div Capacity
<1> HIDE DEF m
<1>2. IndexModulus = Capacity * m /\ m \in Nat
  BY <1>1 DEF m
<1>3. m # 0 /\ m # 1
  BY <1>2, CapacityAssumption
<1>4. Capacity * m >= Capacity * 2
  BY <1>2, <1>3, CapacityAssumption
<1> QED BY <1>2, <1>4, CapacityAssumption

-----------------------------------------------------------------------------
\* What relates the two threads' views. Reading around the ring, the indices
\* stand in the order cached_tail, tail, cached_head, head, and from the first
\* to the last it is never more than Capacity: a cached index is old but safe.
\* The equations about the release and acquire clocks say that both loads and
\* both stores carry the orders that push and pop rely on.
Order ==
    /\ head_rel = head /\ tail_rel = tail
    /\ p_sync = cached_tail /\ c_sync = cached_head
    /\ Minus(head, cached_tail) <= Capacity
    /\ Minus(head, tail) <= Minus(head, cached_tail)
    /\ Minus(head, cached_head) <= Minus(head, tail)

\* What a push past its test knows, and what it has done so far.
PushInv ==
    /\ ppc \in {"write", "publish"} => Minus(head, cached_tail) < Capacity
    /\ ppc = "publish" => buffer[SlotOf(head)] = p_item
    /\ IF ppc = "idle" THEN p_item = NoItem ELSE p_item \in Item

\* The same for a pop.
PopInv ==
    /\ cpc \in {"read", "publish"} => tail # cached_head
    /\ cpc = "publish" => c_out = buffer[SlotOf(tail)]

\* The inductive invariant.
IInv == TypeOK /\ Order /\ PushInv /\ PopInv

\* The empty ring satisfies the invariant.
LEMMA InitIInv == Init => IInv
<1> SUFFICES ASSUME Init PROVE IInv
  OBVIOUS
<1>1. TypeOK
  BY CapacityAssumption DEF Init, TypeOK, Index, Slot
<1>2. Order
  BY CapacityAssumption DEF Init, Order, Minus
<1> QED BY <1>1, <1>2 DEF Init, PushInv, PopInv, IInv

\* Every step of push and of pop keeps the invariant.
LEMMA StepIInv == IInv /\ [Next]_vars => IInv'
<1> SUFFICES ASSUME IInv, [Next]_vars PROVE IInv'
  OBVIOUS
<1> USE CapacityAssumption, RoomBeyondCapacity
<1>1. ASSUME NEW item \in Item, PushBegin(item) PROVE IInv'
  <2>1. TypeOK' /\ Order'
    BY <1>1 DEF PushBegin, cvars, IInv, TypeOK, Order, Minus
  <2>2. PushInv'
    BY <1>1 DEF PushBegin, cvars, IInv, TypeOK, Order, PushInv, LooksFull, Minus, Inc, Index
  <2>3. PopInv'
    BY <1>1 DEF PushBegin, cvars, IInv, PopInv, SlotOf
  <2> QED BY <2>1, <2>2, <2>3 DEF IInv
<1>2. CASE PushReload
  <2>0. TypeOK'
    BY <1>2, Zenon DEF PushReload, cvars, IInv, TypeOK
  <2>1. Order'
    BY <1>2 DEF PushReload, cvars, IInv, TypeOK, Order, Minus, Index
  <2>2. PushInv'
    BY <1>2 DEF PushReload, cvars, IInv, TypeOK, Order, PushInv, LooksFull, Minus, Inc, Index
  <2>3. PopInv'
    BY <1>2 DEF PushReload, cvars, IInv, PopInv, SlotOf
  <2> QED BY <2>0, <2>1, <2>2, <2>3 DEF IInv
<1>3. CASE PushWrite
  <2>1. TypeOK' /\ Order'
    BY <1>3 DEF PushWrite, cvars, IInv, TypeOK, Order, Minus
  <2>2. PushInv'
    BY <1>3, SlotOfType DEF PushWrite, cvars, IInv, TypeOK, PushInv, Minus, SlotOf
  <2>3. ASSUME cpc = "publish" PROVE SlotOf(tail) # SlotOf(head)
    <3>1. Minus(head, tail) \in 1 .. Capacity - 1
      BY <1>3, <2>3 DEF PushWrite, IInv, TypeOK, Order, PushInv, PopInv, Minus, Index
    <3> QED BY <3>1, SlotsDiffer DEF IInv, TypeOK
  <2>4. PopInv'
    BY <1>3, <2>3, SlotOfType DEF PushWrite, cvars, IInv, TypeOK, PopInv, SlotOf
  <2> QED BY <2>1, <2>2, <2>4 DEF IInv
<1>4. CASE PushPublish
  <2>1. TypeOK'
    BY <1>4 DEF PushPublish, cvars, IInv, TypeOK, Inc, Index
  <2>2. Order'
    BY <1>4 DEF PushPublish, cvars, IInv, TypeOK, Order, PushInv, Minus, Inc, Index
  <2>3. PushInv' /\ PopInv'
    BY <1>4 DEF PushPublish, cvars, IInv, PushInv, PopInv, SlotOf
  <2> QED BY <2>1, <2>2, <2>3 DEF IInv
<1>5. CASE PopBegin
  <2>1. TypeOK' /\ Order'
    BY <1>5 DEF PopBegin, pvars, IInv, TypeOK, Order, Minus
  <2>2. PushInv' /\ PopInv'
    BY <1>5 DEF PopBegin, pvars, IInv, PushInv, PopInv, SlotOf, Minus
  <2> QED BY <2>1, <2>2 DEF IInv
<1>6. CASE PopReload
  <2>1. TypeOK'
    BY <1>6 DEF PopReload, pvars, IInv, TypeOK
  <2>2. Order'
    BY <1>6 DEF PopReload, pvars, IInv, TypeOK, Order, Minus, Index
  <2>3. PushInv' /\ PopInv'
    BY <1>6 DEF PopReload, pvars, IInv, PushInv, PopInv, SlotOf, Minus
  <2> QED BY <2>1, <2>2, <2>3 DEF IInv
<1>7. CASE PopRead
  <2>1. TypeOK'
    BY <1>7, SlotOfType DEF PopRead, pvars, IInv, TypeOK
  <2>2. Order' /\ PushInv'
    BY <1>7 DEF PopRead, pvars, IInv, Order, PushInv, SlotOf, Minus
  <2>3. PopInv'
    BY <1>7 DEF PopRead, pvars, IInv, PopInv, SlotOf
  <2> QED BY <2>1, <2>2, <2>3 DEF IInv
<1>8. CASE PopPublish
  <2>1. TypeOK'
    BY <1>8 DEF PopPublish, pvars, IInv, TypeOK, Inc, Index
  <2>2. Order'
    BY <1>8 DEF PopPublish, pvars, IInv, TypeOK, Order, PopInv, Minus, Inc, Index
  <2>3. PushInv' /\ PopInv'
    BY <1>8 DEF PopPublish, pvars, IInv, PushInv, PopInv, SlotOf, Minus
  <2> QED BY <2>1, <2>2, <2>3 DEF IInv
<1>9. CASE UNCHANGED vars
  BY <1>9 DEF vars, IInv, TypeOK, Order, PushInv, PopInv, SlotOf, Minus
<1> QED
  BY <1>1, <1>2, <1>3, <1>4, <1>5, <1>6, <1>7, <1>8, <1>9 DEF Next, Push, Pop

\* The inductive invariant holds throughout.
THEOREM Invariant == Spec => []IInv
BY InitIInv, StepIInv, PTL DEF Spec

\* The ring's fields and calls keep their types, for every Capacity and width.
THEOREM TypeCorrect == Spec => []TypeOK
<1>1. IInv => TypeOK
  BY DEF IInv
<1> QED BY <1>1, Invariant, PTL

\* push and pop never race on a slot under the C++ memory model, for every
\* Capacity and every index width.
THEOREM DataRaceFree == Spec => []NoDataRace
<1>1. IInv => NoDataRace
  <2> SUFFICES ASSUME IInv PROVE NoDataRace
    OBVIOUS
  <2>1. ASSUME cpc = "read" PROVE Minus(c_sync, tail) \in 1 .. Capacity
    BY <2>1, CapacityAssumption DEF IInv, TypeOK, Order, PopInv, Minus, Index
  <2> QED BY <2>1 DEF IInv, Order, PushInv, NoDataRace
<1> QED BY <1>1, Invariant, PTL

\* The two threads are never inside the same slot, for every Capacity and every
\* index width.
THEOREM SlotsExclusive == Spec => []NoSharedSlot
<1>1. IInv => NoSharedSlot
  <2> SUFFICES ASSUME IInv, ppc = "write", cpc \in {"read", "publish"}
               PROVE  SlotOf(tail) # SlotOf(head)
    BY DEF NoSharedSlot
  <2>1. Minus(head, tail) \in 1 .. Capacity - 1
    BY CapacityAssumption DEF IInv, TypeOK, Order, PushInv, PopInv, Minus, Index
  <2> QED BY <2>1, SlotsDiffer DEF IInv, TypeOK
<1> QED BY <1>1, Invariant, PTL

-----------------------------------------------------------------------------
(* The ring implements the bounded queue. *)

\* The indices from tail up to head stay indices, k-th from the oldest.
LEMMA PlusIndex ==
    ASSUME TypeOK, NEW k \in 1 .. Minus(head, tail)
    PROVE  /\ Plus(tail, k - 1) \in Index
           /\ Minus(head, Plus(tail, k - 1)) = Minus(head, tail) - k + 1
BY CapacityAssumption DEF TypeOK, Plus, Minus, Index

\* Content is a sequence with one item for each index from tail up to head.
LEMMA ContentSeq ==
    ASSUME IInv
    PROVE  /\ Content \in Seq(Item \cup {NoItem})
           /\ Len(Content) = Minus(head, tail)
           /\ Minus(head, tail) \in 0 .. Capacity
           /\ \A k \in 1 .. Minus(head, tail) :
                 Content[k] = buffer[SlotOf(Plus(tail, k - 1))]
<1>1. Minus(head, tail) \in 0 .. Capacity
  BY CapacityAssumption DEF IInv, TypeOK, Order, Minus, Index
<1>2. \A k \in 1 .. Minus(head, tail) :
        buffer[SlotOf(Plus(tail, k - 1))] \in Item \cup {NoItem}
  BY PlusIndex, SlotOfType DEF IInv, TypeOK
<1> QED BY <1>1, <1>2, CapacityAssumption DEF Content

\* A step that moves neither index and no slot in between leaves Content alone.
LEMMA ContentUnchanged ==
    ASSUME UNCHANGED <<head, tail, buffer>>
    PROVE  Content' = Content
BY DEF Content, Minus, Plus, SlotOf

\* push writes outside Content.
LEMMA WriteKeepsContent ==
    ASSUME IInv, PushWrite
    PROVE  Content' = Content
<1>1. Minus(head, tail) < Capacity
  BY CapacityAssumption DEF PushWrite, IInv, TypeOK, Order, PushInv, Minus, Index
<1>2. ASSUME NEW k \in 1 .. Minus(head, tail)
      PROVE  buffer'[SlotOf(Plus(tail, k - 1))] = buffer[SlotOf(Plus(tail, k - 1))]
  <2> DEFINE j == Plus(tail, k - 1)
  <2>1. j \in Index /\ Minus(head, j) = Minus(head, tail) - k + 1
    BY PlusIndex DEF IInv
  <2>2. Minus(head, tail) \in Nat
    BY ContentSeq
  <2> HIDE DEF j
  <2>3. Minus(head, j) \in 1 .. Capacity - 1
    BY <2>1, <2>2, <1>1, CapacityAssumption
  <2>4. SlotOf(j) # SlotOf(head)
    BY <2>1, <2>3, SlotsDiffer DEF IInv, TypeOK
  <2>5. buffer'[SlotOf(j)] = buffer[SlotOf(j)]
    BY <2>1, <2>4, SlotOfType DEF PushWrite, IInv, TypeOK
  <2> QED BY <2>5 DEF j
<1>3. head' = head /\ tail' = tail
  BY DEF PushWrite, cvars
<1> QED BY <1>2, <1>3 DEF Content, Minus, Plus, SlotOf

\* How to recognise Append and Tail element by element.
LEMMA AppendOf ==
    ASSUME NEW S, NEW s \in Seq(S), NEW e \in S, NEW t \in Seq(S),
           Len(t) = Len(s) + 1, t[Len(s) + 1] = e,
           \A k \in 1 .. Len(s) : t[k] = s[k]
    PROVE  t = Append(s, e)
<1>1. /\ Append(s, e) \in Seq(S) /\ Len(Append(s, e)) = Len(s) + 1
      /\ \A k \in 1 .. Len(s) : Append(s, e)[k] = s[k]
      /\ Append(s, e)[Len(s) + 1] = e
  OBVIOUS
<1>2. Len(s) \in Nat
  OBVIOUS
<1>3. \A k \in 1 .. Len(s) + 1 : k \in 1 .. Len(s) \/ k = Len(s) + 1
  BY <1>2
<1>4. \A k \in 1 .. Len(t) : t[k] = Append(s, e)[k]
  BY <1>1, <1>3, Zenon
<1> QED BY <1>1, <1>4, SeqEqual

\* A sequence without its first element, element by element, is its tail.
LEMMA TailOf ==
    ASSUME NEW S, NEW s \in Seq(S), NEW t \in Seq(S), s # <<>>,
           Len(t) = Len(s) - 1, \A k \in 1 .. Len(t) : t[k] = s[k + 1]
    PROVE  t = Tail(s)
<1>1. /\ Tail(s) \in Seq(S) /\ Len(Tail(s)) = Len(s) - 1
      /\ \A k \in 1 .. Len(Tail(s)) : Tail(s)[k] = s[k + 1]
  BY HeadTailProperties
<1>2. \A k \in 1 .. Len(t) : t[k] = Tail(s)[k]
  BY <1>1
<1> QED BY <1>1, <1>2, SeqEqual

\* One more index between tail and head after a push, also across the wrap.
LEMMA MinusAfterPush ==
    ASSUME NEW h \in Index, NEW t \in Index, Minus(h, t) \in 0 .. Capacity - 1
    PROVE  Minus(Inc(h), t) = Minus(h, t) + 1
BY CapacityAssumption, RoomBeyondCapacity DEF Minus, Inc, Index

\* One index less after a pop.
LEMMA MinusAfterPop ==
    ASSUME NEW h \in Index, NEW t \in Index, Minus(h, t) \in 1 .. Capacity
    PROVE  Minus(h, Inc(t)) = Minus(h, t) - 1
BY CapacityAssumption, RoomBeyondCapacity DEF Minus, Inc, Index

\* Publishing head appends the item in flight.
LEMMA PublishAppends ==
    ASSUME IInv, IInv', PushPublish
    PROVE  Len(Content) < Capacity /\ Content' = Append(Content, p_item)
<1> DEFINE n == Minus(head, tail)
           T == Item \cup {NoItem}
<1>1. n \in 0 .. Capacity - 1 /\ Minus(head', tail') = n + 1
  <2>1. /\ head \in Index /\ tail \in Index /\ head' = Inc(head) /\ tail' = tail
        /\ Minus(head, cached_tail) < Capacity
        /\ Minus(head, tail) <= Minus(head, cached_tail)
    BY DEF PushPublish, cvars, IInv, TypeOK, Order, PushInv
  <2>2. Minus(head, tail) \in Nat /\ Minus(head, cached_tail) \in Nat
    BY CapacityAssumption DEF IInv, TypeOK, Minus, Index
  <2>3. Minus(head, tail) \in 0 .. Capacity - 1
    BY <2>1, <2>2, CapacityAssumption
  <2> QED BY <2>1, <2>3, MinusAfterPush
<1>2. Plus(tail, n) = head
  BY CapacityAssumption DEF IInv, TypeOK, Minus, Plus, Index
<1>3. /\ buffer' = buffer /\ tail' = tail /\ buffer[SlotOf(head)] = p_item
      /\ p_item \in T
  BY DEF PushPublish, cvars, IInv, TypeOK, PushInv
<1>4. /\ Content \in Seq(T) /\ Len(Content) = n
      /\ \A k \in 1 .. n : Content[k] = buffer[SlotOf(Plus(tail, k - 1))]
  BY ContentSeq
<1>5. (IInv => /\ Content \in Seq(T) /\ Len(Content) = Minus(head, tail)
               /\ \A k \in 1 .. Minus(head, tail) :
                     Content[k] = buffer[SlotOf(Plus(tail, k - 1))])'
  BY ContentSeq, PTL
<1>6. /\ Content' \in Seq(T) /\ Len(Content') = n + 1
      /\ \A k \in 1 .. n + 1 : Content'[k] = buffer[SlotOf(Plus(tail, k - 1))]
  <2>1. Minus(head', tail') = n + 1
    BY <1>1
  <2>2. /\ Content' \in Seq(T) /\ Len(Content') = Minus(head', tail')
        /\ \A k \in 1 .. Minus(head', tail') :
              Content'[k] = buffer'[SlotOf(Plus(tail', k - 1))]
    BY <1>5 DEF Minus, Plus, SlotOf
  <2> HIDE DEF n, T
  <2> QED BY <1>3, <2>1, <2>2
<1> HIDE DEF n, T
<1>7. Content'[n + 1] = p_item
  BY <1>1, <1>2, <1>3, <1>6
<1>8. \A k \in 1 .. n : Content'[k] = Content[k]
  BY <1>1, <1>4, <1>6
<1>9. Content' = Append(Content, p_item)
  BY <1>3, <1>4, <1>6, <1>7, <1>8, AppendOf
<1> QED BY <1>1, <1>4, <1>9, CapacityAssumption

\* Publishing tail drops the oldest item, which is the one read.
LEMMA PublishDrops ==
    ASSUME IInv, IInv', PopPublish
    PROVE  Content # <<>> /\ c_out = Head(Content) /\ Content' = Tail(Content)
<1> DEFINE n == Minus(head, tail)
           T == Item \cup {NoItem}
<1>1. n \in 1 .. Capacity /\ Minus(head', tail') = n - 1
  <2>1. /\ head \in Index /\ tail \in Index /\ cached_head \in Index
        /\ head' = head /\ tail' = Inc(tail) /\ tail # cached_head
        /\ Minus(head, cached_head) <= Minus(head, tail)
        /\ Minus(head, tail) <= Minus(head, cached_tail)
        /\ Minus(head, cached_tail) <= Capacity
    BY DEF PopPublish, pvars, IInv, TypeOK, Order, PopInv
  <2>2. Minus(head, tail) \in Nat /\ Minus(head, cached_tail) \in Nat
    BY CapacityAssumption DEF IInv, TypeOK, Minus, Index
  <2>3. Minus(head, tail) # 0
    BY <2>1, CapacityAssumption DEF Minus, Index
  <2>4. Minus(head, tail) \in 1 .. Capacity
    BY <2>1, <2>2, <2>3, CapacityAssumption
  <2> QED BY <2>1, <2>4, MinusAfterPop
<1>2. \A k \in 1 .. n - 1 : Plus(Inc(tail), k - 1) = Plus(tail, k)
  BY <1>1, CapacityAssumption DEF IInv, TypeOK, Inc, Plus, Index
<1>3. Plus(tail, 0) = tail
  BY CapacityAssumption DEF IInv, TypeOK, Plus, Index
<1>4. buffer' = buffer /\ tail' = Inc(tail) /\ c_out = buffer[SlotOf(tail)]
  BY DEF PopPublish, pvars, IInv, PopInv
<1>5. /\ Content \in Seq(T) /\ Len(Content) = n
      /\ \A k \in 1 .. n : Content[k] = buffer[SlotOf(Plus(tail, k - 1))]
  BY ContentSeq
<1>6. (IInv => /\ Content \in Seq(T) /\ Len(Content) = Minus(head, tail)
               /\ \A k \in 1 .. Minus(head, tail) :
                     Content[k] = buffer[SlotOf(Plus(tail, k - 1))])'
  BY ContentSeq, PTL
<1>7. /\ Content' \in Seq(T) /\ Len(Content') = n - 1
      /\ \A k \in 1 .. n - 1 : Content'[k] = buffer[SlotOf(Plus(Inc(tail), k - 1))]
  <2>1. Minus(head', tail') = n - 1
    BY <1>1
  <2>2. /\ Content' \in Seq(T) /\ Len(Content') = Minus(head', tail')
        /\ \A k \in 1 .. Minus(head', tail') :
              Content'[k] = buffer'[SlotOf(Plus(tail', k - 1))]
    BY <1>6 DEF Minus, Plus, SlotOf
  <2> HIDE DEF n, T
  <2> QED BY <1>4, <2>1, <2>2
<1> HIDE DEF n, T
<1>8. \A k \in 1 .. n - 1 : Content'[k] = Content[k + 1]
  <2> SUFFICES ASSUME NEW k \in 1 .. n - 1 PROVE Content'[k] = Content[k + 1]
    OBVIOUS
  <2>1. k + 1 \in 1 .. n /\ (k + 1) - 1 = k
    BY <1>1
  <2>2. Content[k + 1] = buffer[SlotOf(Plus(tail, k))]
    BY <1>5, <2>1
  <2>3. Content'[k] = buffer[SlotOf(Plus(Inc(tail), k - 1))]
    BY <1>7
  <2> QED BY <1>2, <2>2, <2>3
<1>9. Content # <<>> /\ Head(Content) = Content[1] /\ Content[1] = buffer[SlotOf(tail)]
  BY <1>1, <1>3, <1>5
<1>10. Content' = Tail(Content)
  BY <1>5, <1>7, <1>8, <1>9, TailOf
<1> QED BY <1>4, <1>9, <1>10

\* A fresh ring is an empty queue.
LEMMA InitFifo == Init => Fifo!Init
<1> SUFFICES ASSUME Init PROVE Fifo!Init
  OBVIOUS
<1>1. IInv /\ Minus(head, tail) = 0
  BY InitIInv DEF Init, Minus
<1>2. Content = <<>>
  BY <1>1, ContentSeq
<1> QED BY <1>2 DEF Init, Fifo!Init

\* Every step of the ring is a step of the queue, or none of its business.
LEMMA StepFifo == IInv /\ IInv' /\ [Next]_vars => [Fifo!Next]_(Fifo!vars)
<1> SUFFICES ASSUME IInv, IInv', [Next]_vars PROVE [Fifo!Next]_(Fifo!vars)
  OBVIOUS
<1>1. ASSUME NEW item \in Item, PushBegin(item) PROVE Fifo!CallPush(item)
  <2>1. Content' = Content
    BY <1>1, ContentUnchanged DEF PushBegin, cvars
  <2> QED BY <1>1, <2>1 DEF PushBegin, cvars, IInv, PushInv, Fifo!CallPush
<1>2. CASE PushReload
  <2>1. Content' = Content
    BY <1>2, ContentUnchanged DEF PushReload, cvars
  <2>2. p_item # NoItem
    BY <1>2, NoItemAssumption DEF PushReload, IInv, PushInv
  <2>3. CASE LooksFull(tail)
    <3>a. /\ head \in Index /\ tail \in Index /\ cached_tail \in Index
          /\ Minus(head, cached_tail) <= Capacity
          /\ Minus(head, tail) <= Minus(head, cached_tail)
      BY DEF IInv, TypeOK, Order
    <3>b. Minus(head, tail) \in Nat /\ Minus(head, cached_tail) \in Nat
      BY <3>a, CapacityAssumption DEF Minus, Index
    <3>c. Minus(head, tail) <= Capacity
      BY <3>a, <3>b, CapacityAssumption
    <3>1. Minus(head, tail) = Capacity
      BY <2>3, <3>a, <3>c, CapacityAssumption
      DEF LooksFull, Minus, Inc, Index
    <3>2. Len(Content) = Capacity
      BY <3>1, ContentSeq
    <3> QED BY <1>2, <2>1, <2>2, <2>3, <3>2 DEF PushReload, cvars, Fifo!Next, Fifo!RefuseFull
  <2>4. CASE ~LooksFull(tail)
    BY <1>2, <2>1, <2>4 DEF PushReload, cvars, Fifo!vars
  <2> QED BY <2>3, <2>4
<1>3. CASE PushWrite
  BY <1>3, WriteKeepsContent DEF PushWrite, cvars, Fifo!vars
<1>4. CASE PushPublish
  <2>1. p_item # NoItem
    BY <1>4, NoItemAssumption DEF PushPublish, IInv, PushInv
  <2> QED BY <1>4, <2>1, PublishAppends DEF PushPublish, cvars, Fifo!Next, Fifo!Enqueue
<1>5. CASE PopBegin
  <2>1. Content' = Content
    BY <1>5, ContentUnchanged DEF PopBegin, pvars
  <2> QED BY <1>5, <2>1 DEF PopBegin, pvars, Fifo!Next, Fifo!CallPop
<1>6. CASE PopReload
  <2>1. Content' = Content
    BY <1>6, ContentUnchanged DEF PopReload, pvars
  <2>2. CASE tail = head
    <3>1. Minus(head, tail) = 0
      BY <2>2 DEF IInv, TypeOK, Minus, Index
    <3>2. Content = <<>>
      BY <3>1, ContentSeq
    <3> QED BY <1>6, <2>1, <2>2, <3>2 DEF PopReload, pvars, Fifo!Next, Fifo!FindEmpty
  <2>3. CASE tail # head
    BY <1>6, <2>1, <2>3 DEF PopReload, pvars, Fifo!vars
  <2> QED BY <2>2, <2>3
<1>7. CASE PopRead
  <2>1. Content' = Content
    BY <1>7, ContentUnchanged DEF PopRead, pvars
  <2> QED BY <1>7, <2>1 DEF PopRead, pvars, Fifo!vars
<1>8. CASE PopPublish
  BY <1>8, PublishDrops DEF PopPublish, pvars, Fifo!Next, Fifo!Dequeue
<1>9. CASE UNCHANGED vars
  <2>1. Content' = Content
    BY <1>9, ContentUnchanged DEF vars
  <2> QED BY <1>9, <2>1 DEF vars, Fifo!vars
<1>10. ASSUME NEW item \in Item, PushBegin(item) PROVE Fifo!Next
  BY <1>1, <1>10 DEF Fifo!Next
<1> QED
  BY <1>2, <1>3, <1>4, <1>5, <1>6, <1>7, <1>8, <1>9, <1>10 DEF Next, Push, Pop

\* The lock-free ring implements the bounded first-in first-out queue, for every
\* Capacity, every index width and every set of items.
THEOREM RingImplementsFifo == Spec => RefinesFifo
BY InitFifo, StepFifo, Invariant, PTL DEF Spec, RefinesFifo, Fifo!Spec

=============================================================================
