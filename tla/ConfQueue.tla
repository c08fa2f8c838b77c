----------------------------- MODULE ConfQueue -----------------------------
(***************************************************************************)
(* What an entryConfBuffer promises its EntryWriter: a bounded queue of    *)
(* the entries that have been sent and not confirmed, oldest first.  An    *)
(* entry is named by the EntryID it was sent with.  err is what the last   *)
(* call of Add or Confirm returned, ejected what ejectAll() returned.      *)
(***************************************************************************)
EXTENDS Naturals, Sequences

CONSTANTS Capacity, MaxId

VARIABLES queue, sent, err, ejected

QInit == queue = <<>> /\ sent = 0 /\ err = "ok" /\ ejected = <<>>

\* Add: one slot is always left free.
QAdd ==
  /\ sent < MaxId
  /\ sent' = sent + 1
  /\ IF Len(queue) + 1 >= Capacity
       THEN err' = "full" /\ UNCHANGED queue
       ELSE err' = "ok" /\ queue' = Append(queue, sent + 1)
  /\ UNCHANGED ejected

\* Confirm of the oldest entry removes it.
QConfirm ==
  /\ queue # <<>>
  /\ queue' = Tail(queue) /\ err' = "ok"
  /\ UNCHANGED <<sent, ejected>>

\* Confirm of an ID that was confirmed before changes nothing.
QUnknown ==
  /\ err' = IF queue = <<>> THEN "empty" ELSE "unknown"
  /\ UNCHANGED <<queue, sent, ejected>>

\* ejectAll returns everything that is unconfirmed, in the order it was sent.
QEjectAll ==
  /\ ejected' = queue /\ queue' = <<>>
  /\ UNCHANGED <<sent, err>>

QNext == QAdd \/ QConfirm \/ QUnknown \/ QEjectAll

QSpec == QInit /\ [][QNext]_<<queue, sent, err, ejected>>
=============================================================================
