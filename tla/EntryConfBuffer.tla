-------------------------- MODULE EntryConfBuffer --------------------------
(***************************************************************************)
(* The confirmation buffer of an EntryWriter (ingest/entryConfBuffer.go):  *)
(* a ring of Capacity slots holding the entries that have been sent and    *)
(* not confirmed.  An entryConfirmation is its EntryID, a nil slot is 0    *)
(* (the writer numbers its entries from 1).                                *)
(***************************************************************************)
EXTENDS Integers, Sequences

CONSTANTS
  Capacity,  \* the size the writer was configured with
  MaxId,     \* bound on the entries sent
  InOrder    \* acks arrive in the order of the entries, as an EntryReader sends them

ASSUME ConfBufferAssumption ==
  Capacity \in Nat \ {0, 1} /\ MaxId \in Nat /\ InOrder \in BOOLEAN

VARIABLES
  buff, head, count,
  sent,    \* the last EntryID handed to Add
  wanted,  \* history: what was added and neither confirmed nor ejected, oldest first
  err,     \* what the last Add or Confirm returned
  ejected  \* what the last ejectAll() returned

vars == <<buff, head, count, sent, wanted, err, ejected>>

Nil == 0
Slots == 0..(Capacity - 1)

Init ==
  /\ buff = [i \in Slots |-> Nil] /\ head = 0 /\ count = 0
  /\ sent = 0 /\ wanted = <<>> /\ err = "ok" /\ ejected = <<>>

Slot(i) == (head + i) % Capacity

Full == count >= Capacity - 1

\* outstandingEntries() walks count slots from the head and stops at a nil one.
Outstanding ==
  LET nils == {i \in 0..(count - 1) : buff[Slot(i)] = Nil}
      len == IF nils = {} THEN count ELSE CHOOSE i \in nils : \A j \in nils : i <= j
  IN [i \in 1..len |-> buff[Slot(i - 1)]]

Refuses == count + 1 >= Capacity

\* Mutant of Add: the entry goes to the slot after the tail.
AddSkips ==
  /\ sent < MaxId
  /\ sent' = sent + 1
  /\ \/ Refuses /\ err' = "full" /\ UNCHANGED <<buff, count, wanted>>
     \/ /\ ~Refuses /\ err' = "ok"
        /\ buff' = [buff EXCEPT ![Slot(count + 1)] = sent + 1]
        /\ count' = count + 1
        /\ wanted' = Append(wanted, sent + 1)
  /\ UNCHANGED <<head, ejected>>

\* Add(ec), with the next EntryID of the writer.
Add ==
  /\ sent < MaxId
  /\ sent' = sent + 1
  /\ \/ Refuses /\ err' = "full" /\ UNCHANGED <<buff, count, wanted>>
     \/ /\ ~Refuses /\ err' = "ok"
        /\ buff' = [buff EXCEPT ![Slot(count)] = sent + 1]
        /\ count' = count + 1
        /\ wanted' = Append(wanted, sent + 1)
  /\ UNCHANGED <<head, ejected>>

\* Mutant of popHead: the head does not wrap.
popHeadNoWrap ==
  /\ err' = "ok"
  /\ buff' = [buff EXCEPT ![head] = Nil]
  /\ count' = count - 1
  /\ head' = IF head + 1 = Capacity THEN head ELSE head + 1

popHead ==
  /\ err' = "ok"
  /\ buff' = [buff EXCEPT ![head] = Nil]
  /\ count' = count - 1
  /\ head' = IF head + 1 = Capacity THEN 0 ELSE head + 1

\* popUnalligned(id): both loops run while i < count, so they look at the
\* slots head..count-1 and no others, and never reach the wrap-around tests.
popUnalligned(id) ==
  LET looked == {i \in head..(count - 1) : buff[i] \in {Nil, id}}
      hit == CHOOSE i \in looked : \A j \in looked : i <= j
  IN /\ UNCHANGED head
     /\ \/ looked = {} /\ err' = "unknown" /\ UNCHANGED <<buff, count>>
        \/ /\ looked # {} /\ buff[hit] = Nil
           /\ err' = "corrupt" /\ UNCHANGED <<buff, count>>
        \/ /\ looked # {} /\ buff[hit] = id
           /\ err' = "ok" /\ count' = count - 1
           /\ buff' = [i \in Slots |-> CASE i \in hit..(count - 1) -> buff[i + 1]
                                         [] i = count -> Nil
                                         [] OTHER -> buff[i]]

\* The queue s once id is confirmed.
Without(s, id) ==
  LET at == {k \in DOMAIN s : s[k] = id}
      k == CHOOSE k \in at : TRUE
  IN IF at = {} THEN s ELSE [i \in 1..(Len(s) - 1) |-> IF i < k THEN s[i] ELSE s[i + 1]]

\* Confirm(id), for an ID the writer has used.
Confirm(id) ==
  /\ InOrder /\ wanted # <<>> => id <= Head(wanted)
  /\ \/ count <= 0 /\ err' = "empty" /\ UNCHANGED <<buff, head, count>>
     \/ count > 0 /\ buff[head] = Nil /\ err' = "corrupt" /\ UNCHANGED <<buff, head, count>>
     \/ count > 0 /\ buff[head] = id /\ popHead
     \/ count > 0 /\ buff[head] \notin {Nil, id} /\ popUnalligned(id)
  /\ wanted' = Without(wanted, id)
  /\ UNCHANGED <<sent, ejected>>

\* ejectAll(): the slots keep their pointers, only head and count are reset.
ejectAll ==
  /\ ejected' = Outstanding
  /\ head' = 0 /\ count' = 0
  /\ wanted' = <<>>
  /\ UNCHANGED <<buff, sent, err>>

Next == Add \/ (\E id \in 1..sent : Confirm(id)) \/ ejectAll

Spec == Init /\ [][Next]_vars

-----------------------------------------------------------------------------
\* head and count stay inside the ring and one slot is always free.
TypeOK ==
  /\ buff \in [Slots -> 0..MaxId]
  /\ head \in Slots /\ count \in 0..(Capacity - 1)
  /\ sent \in 0..MaxId
  /\ wanted \in Seq(1..MaxId)
  /\ err \in {"ok", "full", "empty", "unknown", "corrupt"}
  /\ ejected \in Seq(1..MaxId)

\* Wherever head has come to rest after wrapping, and whatever stale
\* pointers ejectAll() left in the slots, outstandingEntries() lists exactly
\* the entries that were added and not confirmed, in the order of sending.
OutstandingIsWanted == Outstanding = wanted

\* The ring invariant: the window of count slots from head holds the
\* unconfirmed entries, whose IDs grow from the head on.
RingInv ==
  /\ TypeOK
  /\ Len(wanted) = count
  /\ \A i \in 1..count : buff[Slot(i - 1)] = wanted[i] /\ wanted[i] <= sent
  /\ \A i, j \in 1..count : i < j => wanted[i] < wanted[j]

Queue == INSTANCE ConfQueue WITH queue <- Outstanding

\* The ring behaves like the bounded queue: Add refuses only when one slot
\* is left, Confirm takes the oldest entry, ejectAll() returns all of them.
RefinesQueue == Queue!QSpec
=============================================================================
