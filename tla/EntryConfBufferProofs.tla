----------------------- MODULE EntryConfBufferProofs -----------------------
(* For every capacity and any number of entries: with acks in order the    *)
(* ring of entryConfBuffer is the bounded queue ConfQueue.                 *)
EXTENDS EntryConfBuffer, TLAPS

\* Slots are inside the ring, and counting on from head wraps at Capacity.
LEMMA SlotOf ==
  ASSUME head \in Slots, NEW i \in 0..Capacity
  PROVE  Slot(i) = IF head + i < Capacity THEN head + i ELSE head + i - Capacity
<1> USE ConfBufferAssumption DEF Slots
<1>1. CASE head + i < Capacity
  BY <1>1 DEF Slot
<1>2. CASE head + i >= Capacity
  <2>1. head + i < Capacity + Capacity
    OBVIOUS
  <2> QED BY <1>2, <2>1 DEF Slot
<1> QED BY <1>1, <1>2

\* Different offsets below Capacity are different slots.
LEMMA SlotInjective ==
  ASSUME head \in Slots, NEW i \in Slots, NEW j \in Slots, i # j
  PROVE  Slot(i) \in Slots /\ Slot(i) # Slot(j)
BY SlotOf, ConfBufferAssumption DEF Slots

\* A queue whose first element is id loses exactly that element.
LEMMA WithoutHead ==
  ASSUME NEW s \in Seq(1..MaxId), s # <<>>,
         \A i, j \in 1..Len(s) : i < j => s[i] < s[j]
  PROVE  Without(s, Head(s)) = Tail(s)
<1>1. {k \in DOMAIN s : s[k] = Head(s)} = {1}
  BY ConfBufferAssumption
<1>2. (CHOOSE k \in {1} : TRUE) = 1
  OBVIOUS
<1>3. Without(s, Head(s)) = [i \in 1..(Len(s) - 1) |-> IF i < 1 THEN s[i] ELSE s[i + 1]]
  BY <1>1, <1>2, Zenon DEF Without
<1>4. \A i \in 1..(Len(s) - 1) : (IF i < 1 THEN s[i] ELSE s[i + 1]) = Tail(s)[i]
  OBVIOUS
<1>5. Tail(s) = [i \in 1..(Len(s) - 1) |-> Tail(s)[i]]
  <2>1. Tail(s) \in Seq(1..MaxId) /\ Len(Tail(s)) = Len(s) - 1
    OBVIOUS
  <2>2. \A t \in Seq(1..MaxId) : t = [i \in 1..Len(t) |-> t[i]]
    OBVIOUS
  <2> QED BY <2>1, <2>2, Zenon
<1> QED BY <1>3, <1>4, <1>5, Zenon

\* A queue without id is left alone.
LEMMA WithoutOther ==
  ASSUME NEW s, NEW id, \A k \in DOMAIN s : s[k] # id
  PROVE  Without(s, id) = s
BY DEF Without

\* While the invariant holds no slot of the window is nil, so
\* outstandingEntries() walks all of it.
LEMMA OutstandingWindow ==
  ASSUME RingInv
  PROVE  Outstanding = wanted
<1> USE ConfBufferAssumption
<1>1. {i \in 0..(count - 1) : buff[Slot(i)] = Nil} = {}
  <2> SUFFICES ASSUME NEW i \in 0..(count - 1) PROVE buff[Slot(i)] # Nil
    OBVIOUS
  <2>1. i + 1 \in 1..count /\ (i + 1) - 1 = i
    BY DEF RingInv, TypeOK
  <2>2. buff[Slot(i)] = wanted[i + 1]
    BY <2>1 DEF RingInv
  <2>3. wanted[i + 1] \in 1..MaxId
    BY <2>1 DEF RingInv, TypeOK
  <2> QED BY <2>2, <2>3 DEF Nil
<1>2. Outstanding = [i \in 1..count |-> buff[Slot(i - 1)]]
  BY <1>1, Zenon DEF Outstanding
<1>3. wanted = [i \in 1..count |-> wanted[i]]
  BY DEF RingInv, TypeOK
<1> QED BY <1>2, <1>3 DEF RingInv

\* Confirm of an ID older than everything unconfirmed finds nothing.
LEMMA NotFound ==
  ASSUME RingInv, count > 0, NEW id \in 1..MaxId, id < Head(wanted)
  PROVE  /\ {i \in head..(count - 1) : buff[i] \in {Nil, id}} = {}
         /\ \A k \in DOMAIN wanted : wanted[k] # id
<1> USE ConfBufferAssumption
<1>1. \A k \in 1..count : wanted[k] # id /\ wanted[k] # Nil
  <2>1. wanted[1] = Head(wanted) /\ 1 \in 1..count
    BY DEF RingInv, TypeOK
  <2>2. \A k \in 1..count : wanted[k] >= wanted[1] /\ wanted[k] \in 1..MaxId
    <3> SUFFICES ASSUME NEW k \in 1..count
                 PROVE  wanted[k] >= wanted[1] /\ wanted[k] \in 1..MaxId
      OBVIOUS
    <3>0. wanted \in Seq(1..MaxId) /\ Len(wanted) = count
      BY DEF RingInv, TypeOK
    <3>1. wanted[k] \in 1..MaxId /\ wanted[1] \in 1..MaxId
      BY <2>1, <3>0
    <3>2. 1 < k => wanted[1] < wanted[k]
      BY <2>1 DEF RingInv
    <3> QED BY <3>1, <3>2
  <2> QED BY <2>1, <2>2 DEF Nil
<1>2. ASSUME NEW i \in head..(count - 1) PROVE buff[i] \notin {Nil, id}
  <2>1. /\ i - head \in 0..Capacity /\ head \in Slots
        /\ (i - head) + 1 \in 1..count /\ ((i - head) + 1) - 1 = i - head
        /\ head + (i - head) = i /\ i < Capacity
    BY SMTT(60) DEF RingInv, TypeOK, Slots
  <2>2. Slot(i - head) = i
    BY <2>1, SlotOf
  <2>3. buff[Slot(i - head)] = wanted[(i - head) + 1]
    BY <2>1 DEF RingInv
  <2> QED BY <1>1, <2>1, <2>2, <2>3
<1>3. DOMAIN wanted = 1..count
  BY DEF RingInv, TypeOK
<1> QED BY <1>1, <1>2, <1>3

\* What Confirm does when acks come in order: the queue loses its head, or
\* the ID is unknown and nothing changes.
LEMMA ConfirmCases ==
  ASSUME RingInv, InOrder, NEW id \in 1..sent, Confirm(id)
  PROVE  \/ count = 0 /\ err' = "empty" /\ UNCHANGED <<buff, head, count, wanted>>
         \/ count > 0 /\ err' = "unknown" /\ UNCHANGED <<buff, head, count, wanted>>
         \/ count > 0 /\ popHead /\ wanted' = Tail(wanted)
<1> USE ConfBufferAssumption
<1>1. id \in 1..MaxId /\ head \in Slots /\ count \in Nat /\ Len(wanted) = count
  BY DEF RingInv, TypeOK
<1>2. CASE count = 0
  <2>1. \A k \in DOMAIN wanted : wanted[k] # id
    BY <1>1, <1>2 DEF RingInv, TypeOK
  <2>2. wanted' = wanted
    BY <2>1, WithoutOther DEF Confirm
  <2> QED BY <1>2, <2>2 DEF Confirm
<1>3. CASE count > 0
  <2>1. wanted # <<>> /\ id <= Head(wanted)
    BY <1>1, <1>3 DEF Confirm
  <2>2. Slot(0) = head /\ 1 \in 1..count
    BY <1>1, <1>3, SlotOf DEF Slots
  <2>3. buff[head] = Head(wanted) /\ Head(wanted) \in 1..MaxId
    <3>1. buff[Slot(1 - 1)] = wanted[1]
      BY <2>2 DEF RingInv
    <3> QED BY <2>1, <2>2, <3>1 DEF RingInv, TypeOK
  <2>4. CASE id = Head(wanted)
    <3>1. Without(wanted, id) = Tail(wanted)
      BY <2>1, <2>4, WithoutHead, Zenon DEF RingInv, TypeOK
    <3>2. wanted' = Tail(wanted)
      BY <3>1 DEF Confirm
    <3>3. popHead
      BY <1>1, <1>3, <2>3, <2>4 DEF Confirm, Nil
    <3> QED BY <1>3, <3>2, <3>3
  <2>5. CASE id < Head(wanted)
    <3>1. /\ {i \in head..(count - 1) : buff[i] \in {Nil, id}} = {}
          /\ \A k \in DOMAIN wanted : wanted[k] # id
      BY <1>1, <1>3, <2>5, NotFound
    <3>2. wanted' = wanted
      BY <3>1, WithoutOther DEF Confirm
    <3>3. buff[head] \notin {Nil, id}
      BY <2>3, <2>5, <1>1 DEF Nil
    <3>4. popUnalligned(id)
      BY <1>1, <1>3, <3>3 DEF Confirm
    <3>5. err' = "unknown" /\ UNCHANGED <<buff, head, count>>
      BY <3>1, <3>4, Zenon DEF popUnalligned
    <3> QED BY <1>3, <3>2, <3>5
  <2> QED BY <1>1, <2>1, <2>3, <2>4, <2>5
<1> QED BY <1>1, <1>2, <1>3

\* Add puts the entry behind the window without touching it.
LEMMA AddKeepsRing ==
  ASSUME RingInv, Add
  PROVE  RingInv'
<1> USE ConfBufferAssumption
<1>1. CASE Refuses /\ err' = "full" /\ UNCHANGED <<buff, count, wanted>>
  BY <1>1, SMTT(60) DEF Add, RingInv, TypeOK, Slot, Slots
<1>2. CASE /\ ~Refuses /\ err' = "ok"
           /\ buff' = [buff EXCEPT ![Slot(count)] = sent + 1]
           /\ count' = count + 1
           /\ wanted' = Append(wanted, sent + 1)
  <2>1. /\ head \in Slots /\ count \in Slots /\ sent + 1 \in 1..MaxId /\ sent' = sent + 1
        /\ head' = head /\ ejected' = ejected /\ count \in Nat /\ count + 1 < Capacity /\ sent \in Nat
        /\ wanted \in Seq(1..MaxId) /\ Len(wanted) = count
    BY <1>2 DEF Add, RingInv, TypeOK, Slots, Refuses
  <2>2. Slot(count) \in Slots
    BY <2>1, SlotOf DEF Slots
  <2>3. /\ wanted' \in Seq(1..MaxId) /\ Len(wanted') = count + 1
        /\ wanted'[count + 1] = sent + 1
        /\ \A i \in 1..count : wanted'[i] = wanted[i]
    BY <1>2, <2>1
  <2>4. TypeOK'
    BY <1>2, <2>1, <2>2, <2>3 DEF RingInv, TypeOK, Slots
  <2>5. ASSUME NEW i \in 1..(count + 1)
        PROVE  buff'[Slot(i - 1)'] = wanted'[i] /\ wanted'[i] <= sent + 1
    <3>0. Slot(i - 1)' = Slot(i - 1) /\ buff \in [Slots -> 0..MaxId]
      BY <2>1 DEF Slot, RingInv, TypeOK
    <3>1. CASE i = count + 1
      <4>1. i - 1 = count
        BY <2>1, <3>1
      <4> QED BY <1>2, <2>1, <2>2, <2>3, <3>0, <3>1, <4>1
    <3>2. CASE i \in 1..count
      <4>1. i - 1 \in Slots /\ i - 1 # count
        BY <2>1, <3>2 DEF Slots
      <4>2. Slot(i - 1) # Slot(count) /\ Slot(i - 1) \in Slots
        BY <2>1, <4>1, SlotInjective
      <4>3. buff[Slot(i - 1)] = wanted[i] /\ wanted[i] <= sent /\ wanted[i] \in 1..MaxId
        BY <3>2, <2>1 DEF RingInv
      <4>4. buff'[Slot(i - 1)] = buff[Slot(i - 1)]
        BY <1>2, <3>0, <4>2
      <4> QED BY <2>1, <2>3, <3>0, <3>2, <4>3, <4>4, SMTT(60)
    <3> QED BY <2>1, <3>1, <3>2
  <2>6. ASSUME NEW i \in 1..(count + 1), NEW j \in 1..(count + 1), i < j
        PROVE  wanted'[i] < wanted'[j]
    <3>1. i \in 1..count /\ wanted[i] <= sent /\ wanted[i] \in 1..MaxId /\ sent \in Nat
      BY <2>1, <2>6, SMTT(60) DEF RingInv, TypeOK
    <3>2. CASE j = count + 1
      BY <2>1, <2>3, <3>1, <3>2
    <3>3. CASE j \in 1..count
      BY <2>3, <2>6, <3>1, <3>3 DEF RingInv
    <3> QED BY <2>1, <3>2, <3>3
  <2> QED BY <1>2, <2>1, <2>3, <2>4, <2>5, <2>6, Zenon DEF RingInv
<1> QED BY <1>1, <1>2 DEF Add

\* popHead moves the head of the window on by one slot, wrapping at Capacity.
LEMMA PopKeepsRing ==
  ASSUME RingInv, count > 0, popHead, wanted' = Tail(wanted),
         UNCHANGED <<sent, ejected>>
  PROVE  RingInv'
<1> USE ConfBufferAssumption
<1>1. /\ head \in Slots /\ count \in Slots /\ count \in Nat /\ sent \in 0..MaxId
      /\ wanted \in Seq(1..MaxId) /\ Len(wanted) = count /\ buff \in [Slots -> 0..MaxId]
      /\ head' = (IF head + 1 = Capacity THEN 0 ELSE head + 1) /\ count' = count - 1
      /\ buff' = [buff EXCEPT ![head] = Nil] /\ err' = "ok"
  BY SMTT(60) DEF RingInv, TypeOK, Slots, popHead
<1>2. head' \in Slots /\ buff' \in [Slots -> 0..MaxId]
  BY <1>1 DEF Slots, Nil
<1>3. /\ wanted' \in Seq(1..MaxId) /\ Len(wanted') = count - 1
      /\ \A i \in 1..(count - 1) : wanted'[i] = wanted[i + 1]
  BY <1>1
<1>4. TypeOK'
  BY <1>1, <1>2, <1>3, SMTT(60) DEF RingInv, TypeOK, Slots
<1>5. ASSUME NEW i \in 1..(count - 1)
      PROVE  buff'[Slot(i - 1)'] = wanted'[i] /\ wanted'[i] <= sent
  <2>1. i \in 0..Capacity /\ i \in Slots /\ 0 \in Slots /\ 0 # i /\ (i + 1) - 1 = i /\ i + 1 \in 1..count
    BY <1>1 DEF Slots
  <2>2. Slot(0) = head
    BY <1>1, <2>1, SlotOf DEF Slots
  <2>3. Slot(i - 1)' = Slot(i)
    <3>1. Slot(i) = IF head + i < Capacity THEN head + i ELSE head + i - Capacity
      BY <1>1, <2>1, SlotOf
    <3>2. CASE head + 1 = Capacity
      <4>1. Slot(i - 1)' = (0 + (i - 1)) % Capacity
        BY <1>1, <3>2 DEF Slot
      <4>2. 0 + (i - 1) \in Nat /\ 0 + (i - 1) < Capacity /\ head + i - Capacity = 0 + (i - 1)
        BY <1>1, <3>2 DEF Slots
      <4>3. (0 + (i - 1)) % Capacity = 0 + (i - 1)
        BY <4>2
      <4> QED BY <1>1, <3>1, <3>2, <4>1, <4>2, <4>3 DEF Slots
    <3>3. CASE head + 1 # Capacity
      <4>1. Slot(i - 1)' = ((head + 1) + (i - 1)) % Capacity
        BY <1>1, <3>3 DEF Slot
      <4>2. (head + 1) + (i - 1) = head + i
        BY <1>1 DEF Slots
      <4> QED BY <4>1, <4>2 DEF Slot
    <3> QED BY <3>2, <3>3
  <2>4. Slot(i) \in Slots /\ Slot(i) # head
    BY <1>1, <2>1, <2>2, SlotInjective
  <2>5. buff[Slot(i)] = wanted[i + 1] /\ wanted[i + 1] <= sent
    <3>1. buff[Slot((i + 1) - 1)] = wanted[i + 1] /\ wanted[i + 1] <= sent
      BY <2>1 DEF RingInv
    <3> QED BY <2>1, <3>1
  <2> QED BY <1>1, <1>3, <2>3, <2>4, <2>5
<1>6. ASSUME NEW i \in 1..(count - 1), NEW j \in 1..(count - 1), i < j
      PROVE  wanted'[i] < wanted'[j]
  <2>1. i + 1 \in 1..count /\ j + 1 \in 1..count /\ i + 1 < j + 1
    BY <1>1, <1>6
  <2>2. wanted[i + 1] < wanted[j + 1]
    BY <2>1 DEF RingInv
  <2> QED BY <1>3, <2>2
<1> QED BY <1>1, <1>3, <1>4, <1>5, <1>6, Zenon DEF RingInv

\* Every operation keeps the ring invariant when acks come in order.
LEMMA RingStep ==
  ASSUME InOrder, RingInv, [Next]_vars
  PROVE  RingInv'
<1> USE ConfBufferAssumption
<1>1. CASE Add
  BY <1>1, AddKeepsRing
<1>2. ASSUME NEW id \in 1..sent, Confirm(id) PROVE RingInv'
  <2>0. UNCHANGED <<sent, ejected>>
    BY <1>2 DEF Confirm
  <2>1. CASE err' \in {"empty", "unknown"} /\ UNCHANGED <<buff, head, count, wanted>>
    BY <2>0, <2>1 DEF RingInv, TypeOK, Slot, Slots
  <2>2. CASE count > 0 /\ popHead /\ wanted' = Tail(wanted)
    BY <2>0, <2>2, PopKeepsRing
  <2> QED BY <1>2, <2>1, <2>2, ConfirmCases
<1>3. CASE ejectAll
  <2>1. ejected' \in Seq(1..MaxId)
    BY <1>3, OutstandingWindow DEF ejectAll, RingInv, TypeOK
  <2>2. TypeOK'
    BY <1>3, <2>1 DEF ejectAll, RingInv, TypeOK, Slots
  <2> QED BY <1>3, <2>2 DEF ejectAll, RingInv
<1>4. CASE UNCHANGED vars
  BY <1>4 DEF vars, RingInv, TypeOK, Slot, Slots
<1> QED BY <1>1, <1>2, <1>3, <1>4 DEF Next

LEMMA RingInductive ==
  ASSUME InOrder
  PROVE  Spec => []RingInv
<1>1. Init => RingInv
  BY ConfBufferAssumption DEF Init, RingInv, TypeOK, Slots, Nil
<1>2. RingInv /\ [Next]_vars => RingInv'
  BY RingStep
<1> QED BY <1>1, <1>2, PTL DEF Spec

\* For every capacity: head and count stay inside the ring.
THEOREM RingTypeCorrect == ASSUME InOrder PROVE Spec => []TypeOK
<1>1. RingInv => TypeOK
  BY DEF RingInv
<1> QED BY <1>1, RingInductive, PTL

\* For every capacity and any number of wraps, ejectAll() and
\* outstandingEntries() see exactly the unconfirmed entries, in order.
THEOREM EjectsTheUnconfirmed == ASSUME InOrder PROVE Spec => []OutstandingIsWanted
<1>1. RingInv => OutstandingIsWanted
  BY OutstandingWindow DEF OutstandingIsWanted
<1> QED BY <1>1, RingInductive, PTL

\* For every capacity the ring implements the bounded queue.
THEOREM RingRefinesQueue == ASSUME InOrder PROVE Spec => RefinesQueue
<1>1. Init => Queue!QInit
  <2> SUFFICES ASSUME Init PROVE Queue!QInit
    OBVIOUS
  <2>1. RingInv
    BY ConfBufferAssumption DEF Init, RingInv, TypeOK, Slots, Nil
  <2> QED BY <2>1, OutstandingWindow DEF Init, Queue!QInit
<1>2. RingInv => Outstanding = wanted
  BY OutstandingWindow
<1>3. RingInv' => (Outstanding = wanted)'
  BY <1>2, PTL
<1>4. RingInv /\ RingInv' /\ [Next]_vars => [Queue!QNext]_<<Outstanding, sent, err, ejected>>
  <2> SUFFICES ASSUME RingInv, RingInv', [Next]_vars
               PROVE  Queue!QNext \/ UNCHANGED <<Outstanding, sent, err, ejected>>
    OBVIOUS
  <2>0. Outstanding = wanted /\ Outstanding' = wanted' /\ Len(wanted) = count /\ count \in Nat
        /\ wanted \in Seq(1..MaxId)
    BY <1>2, <1>3, ConfBufferAssumption DEF RingInv, TypeOK
  <2>1. CASE Add
    BY <2>0, <2>1 DEF Add, Refuses, Queue!QNext, Queue!QAdd
  <2>2. ASSUME NEW id \in 1..sent, Confirm(id) PROVE Queue!QNext
    <3>0. UNCHANGED <<sent, ejected>>
      BY <2>2 DEF Confirm
    <3>1. CASE count = 0 /\ err' = "empty" /\ wanted' = wanted
      BY <2>0, <3>0, <3>1 DEF Queue!QNext, Queue!QUnknown
    <3>2. CASE count > 0 /\ err' = "unknown" /\ wanted' = wanted
      BY <2>0, <3>0, <3>2 DEF Queue!QNext, Queue!QUnknown
    <3>3. CASE count > 0 /\ popHead /\ wanted' = Tail(wanted)
      BY <2>0, <3>0, <3>3 DEF popHead, Queue!QNext, Queue!QConfirm
    <3> QED BY <2>2, <3>1, <3>2, <3>3, ConfirmCases
  <2>3. CASE ejectAll
    BY <2>0, <2>3 DEF ejectAll, Queue!QNext, Queue!QEjectAll
  <2>4. CASE UNCHANGED vars
    BY <2>0, <2>4 DEF vars
  <2> QED BY <2>1, <2>2, <2>3, <2>4 DEF Next
<1> QED BY <1>1, <1>4, RingInductive, PTL DEF Spec, RefinesQueue, Queue!QSpec
=============================================================================
