-------------------------- MODULE MuxerDataProofs --------------------------
(***************************************************************************)
(* What each step of Muxer does with the entries, for any number of        *)
(* indexers, entries and tags: whatever it takes from one place, channel,  *)
(* hand or connection, it puts into another.  Also where the relay and the *)
(* connection routine of an indexer can be at the same time.  The theorems *)
(* drawn from it are in MuxerProofs.                                       *)
(***************************************************************************)
EXTENDS Muxer, TLAPS

-----------------------------------------------------------------------------
\* The parts of the inductive invariant.

\* Where a relay and its connection routine can be at the same time: the token
\* that asks for a connection, the routine that makes it and the connection
\* itself are one thing that goes around.
Handshake(d) ==
  /\ rPc[d] \notin {"get", "exit"} => notif[d] = "empty" /\ csc[d] = "empty" /\ cPc[d] = "wait"
  /\ rPc[d] = "get" =>
       \/ notif[d] = "token" /\ csc[d] = "empty" /\ cPc[d] = "wait"
       \/ notif[d] = "empty" /\ csc[d] = "empty" /\ cPc[d] \in {"requeue", "connect", "identified"}
       \/ notif[d] = "empty" /\ csc[d] = "conn" /\ cPc[d] = "wait"
       \/ notif[d] = "empty" /\ csc[d] = "closed" /\ cPc[d] = "exit"
  /\ rPc[d] = "exit" =>
       /\ notif[d] = "closed"
       /\ \/ csc[d] = "empty" /\ cPc[d] \in {"wait", "requeue"}
          \/ csc[d] = "closed" /\ cPc[d] = "exit"
  /\ rPc[d] \in {"clear", "clearwrite"} => rNext[d] \in {"sync", "loop"}
  /\ rPc[d] \in {"close", "requeue"} => rNext[d] \in {"get", "exit"}
Handshakes == \A d \in Dests : Handshake(d)

\* The routines hold entries only while they are busy with them, and nobody
\* has a connection between two connections.
HoldsOnly(d) ==
  /\ rPc[d] \notin {"clearwrite", "write", "recycle", "requeue"} => rItem[d] = None
  /\ cPc[d] # "requeue" => cItem[d] = None
  /\ cPc[d] # "wait" => conn[d] = "none"
  /\ conn[d] = "none" => ecb[d] = <<>>
  /\ (rPc[d] \notin {"get", "exit"} \/ csc[d] = "conn") => conn[d] # "none"
Holds == \A d \in Dests : HoldsOnly(d)

WellFormed(it) == it.single => Len(it.ents) = 1
\* A single entry is one entry, and those an indexer has read are the oldest.
ItemsOK ==
  /\ \A it \in Range(eq) : WellFormed(it)
  /\ \A d \in Dests : WellFormed(rItem[d]) /\ WellFormed(cItem[d])
ReadOK ==
  \A d \in Dests : nread[d] <= Len(ecb[d]) /\ \A i \in 1..nread[d] : ecb[d][i].ent \in delivered

\* After Close() nothing moves.
AfterClose == state = "closed" => eq = <<>> /\ \A d \in Dests : cPc[d] = "exit"

Accounted == delivered \cup Queued \cup InQueue \cup InHand \cup Unconfirmed

\* TypeOK in parts, without connHot, whose bound follows from Hot.
WritesType ==
  /\ state \in {"running", "closing", "closed"} /\ accepted \subseteq Entries
  /\ tag \in [Entries -> Tags] /\ delivered \subseteq Entries /\ cut \subseteq Entries
  /\ breaks \in 0..MaxBreaks /\ fatal \in 0..MaxFatal
QueuesType == eChan \in Seq(Entries) /\ bChan \in Seq(Seq(Entries)) /\ eq \in Seq(ItemType)
ConnsType ==
  /\ conn \in [Dests -> {"none", "up", "broken", "closed"}]
  /\ ecb \in [Dests -> Seq(SentType)] /\ nread \in [Dests -> Nat]
PlacesType ==
  /\ rPc \in [Dests -> {"get", "clear", "clearwrite", "sync", "loop", "write", "recycle",
                        "close", "requeue", "exit"}]
  /\ rNext \in [Dests -> {"get", "sync", "loop", "exit"}]
  /\ cPc \in [Dests -> {"wait", "requeue", "connect", "identified", "exit"}]
  /\ notif \in [Dests -> {"empty", "token", "closed"}]
  /\ csc \in [Dests -> {"empty", "conn", "closed"}]
HandsType == rItem \in [Dests -> ItemType] /\ cItem \in [Dests -> ItemType]
Types == WritesType /\ QueuesType /\ ConnsType /\ PlacesType /\ HandsType

-----------------------------------------------------------------------------
\* The elements of sequences.

LEMMA RangeOfSeq ==
  ASSUME NEW S, NEW s \in Seq(S)
  PROVE  Range(s) \in SUBSET S
BY DEF Range

LEMMA RangeConcatenation ==
  ASSUME NEW S, NEW s \in Seq(S), NEW t \in Seq(S)
  PROVE  Range(s \o t) = Range(s) \cup Range(t)
<1>1. /\ DOMAIN s = 1..Len(s) /\ DOMAIN t = 1..Len(t) /\ Len(s) \in Nat /\ Len(t) \in Nat
      /\ DOMAIN (s \o t) = 1..(Len(s) + Len(t))
  OBVIOUS
<1>2. \A i \in 1..Len(s) : i \in 1..(Len(s) + Len(t)) /\ (s \o t)[i] = s[i]
  BY <1>1
<1>3. \A i \in 1..Len(t) : Len(s) + i \in 1..(Len(s) + Len(t)) /\ (s \o t)[Len(s) + i] = t[i]
  BY <1>1
<1>4. ASSUME NEW i \in 1..(Len(s) + Len(t))
      PROVE  i \in 1..Len(s) \/ \E j \in 1..Len(t) : i = Len(s) + j
  <2>1. CASE i \in 1..Len(s)
    BY <2>1
  <2>2. CASE i \notin 1..Len(s)
    <3>1. i - Len(s) \in 1..Len(t) /\ i = Len(s) + (i - Len(s))
      BY <1>1, <2>2
    <3> QED BY <3>1, Zenon
  <2> QED BY <2>1, <2>2
<1>5. ASSUME NEW x \in Range(s \o t)
      PROVE  x \in Range(s) \cup Range(t)
  <2>1. PICK i \in 1..(Len(s) + Len(t)) : x = (s \o t)[i]
    BY <1>1, Zenon DEF Range
  <2>2. CASE i \in 1..Len(s)
    BY <1>1, <1>2, <2>1, <2>2, Zenon DEF Range
  <2>3. CASE \E j \in 1..Len(t) : i = Len(s) + j
    BY <1>1, <1>3, <2>1, <2>3, Zenon DEF Range
  <2> QED BY <1>4, <2>2, <2>3, Zenon
<1>6. Range(s) \subseteq Range(s \o t)
  BY <1>1, <1>2, Zenon DEF Range
<1>7. Range(t) \subseteq Range(s \o t)
  BY <1>1, <1>3, Zenon DEF Range
<1> QED BY <1>5, <1>6, <1>7, Zenon

LEMMA RangeAppend ==
  ASSUME NEW S, NEW s \in Seq(S), NEW x \in S
  PROVE  Append(s, x) \in Seq(S) /\ Range(Append(s, x)) = Range(s) \cup {x}
<1>1. Append(s, x) = s \o <<x>> /\ <<x>> \in Seq(S)
  OBVIOUS
<1>2. Range(<<x>>) = {x}
  BY DEF Range
<1>3. Range(s \o <<x>>) = Range(s) \cup Range(<<x>>)
  BY <1>1, RangeConcatenation, ZenonT(60)
<1>4. Append(s, x) \in Seq(S)
  OBVIOUS
<1> QED BY <1>1, <1>2, <1>3, <1>4

LEMMA RangeHeadTail ==
  ASSUME NEW S, NEW s \in Seq(S), s # <<>>
  PROVE  Head(s) \in S /\ Tail(s) \in Seq(S) /\ Range(s) = {Head(s)} \cup Range(Tail(s))
<1>1. Head(s) \in S /\ Tail(s) \in Seq(S) /\ <<Head(s)>> \in Seq(S)
  OBVIOUS
<1>2. s = <<Head(s)>> \o Tail(s)
  OBVIOUS
<1>3. Range(<<Head(s)>>) = {Head(s)}
  BY DEF Range
<1>4. Range(<<Head(s)>> \o Tail(s)) = Range(<<Head(s)>>) \cup Range(Tail(s))
  BY <1>1, RangeConcatenation, ZenonT(60)
<1> QED BY <1>1, <1>2, <1>3, <1>4, Zenon

\* The first n elements and the rest.
LEMMA RangeRest ==
  ASSUME NEW S, NEW s \in Seq(S), NEW n \in 0..Len(s)
  PROVE  /\ SubSeq(s, n + 1, Len(s)) \in Seq(S) /\ Len(SubSeq(s, n + 1, Len(s))) = Len(s) - n
         /\ Range(s) = {s[i] : i \in 1..n} \cup Range(SubSeq(s, n + 1, Len(s)))
<1> DEFINE r == SubSeq(s, n + 1, Len(s))
<1>1. Len(s) \in Nat /\ DOMAIN s = 1..Len(s) /\ n \in Nat /\ n <= Len(s)
  OBVIOUS
<1>2. \A i \in (n + 1)..Len(s) : s[i] \in S
  BY <1>1
<1>3. /\ r \in Seq(S) /\ Len(r) = IF n + 1 <= Len(s) THEN Len(s) - (n + 1) + 1 ELSE 0
      /\ \A i \in 1..(Len(s) - (n + 1) + 1) : r[i] = s[(n + 1) + i - 1]
  BY <1>1, <1>2
<1> HIDE DEF r
<1>4. Len(r) = Len(s) - n /\ DOMAIN r = 1..(Len(s) - n) /\ \A i \in 1..(Len(s) - n) : r[i] = s[n + i]
  <2>1. Len(s) - (n + 1) + 1 = Len(s) - n /\ \A i \in Nat : (n + 1) + i - 1 = n + i
    BY <1>1
  <2>2. DOMAIN r = 1..Len(r)
    BY <1>3
  <2>3. n + 1 <= Len(s) \/ Len(s) - n = 0
    <3>1. \A k, m \in Nat : k <= m => k + 1 <= m \/ m - k = 0
      OBVIOUS
    <3> QED BY <1>1, <3>1, Zenon
  <2>4. Len(r) = Len(s) - n
    BY <1>3, <2>1, <2>3, Zenon
  <2>5. ASSUME NEW i \in 1..(Len(s) - n)
        PROVE  r[i] = s[n + i]
    <3>1. i \in 1..(Len(s) - (n + 1) + 1) /\ (n + 1) + i - 1 = n + i
      BY <1>1, <2>1
    <3>2. r[i] = s[(n + 1) + i - 1]
      BY <1>3, <3>1, Zenon
    <3> QED BY <3>1, <3>2, Zenon
  <2> QED BY <2>2, <2>4, <2>5
<1>5. ASSUME NEW i \in 1..Len(s)
      PROVE  i \in 1..n \/ (i - n \in 1..(Len(s) - n) /\ r[i - n] = s[i])
  BY <1>1, <1>4
<1>6. ASSUME NEW i \in 1..(Len(s) - n)
      PROVE  n + i \in 1..Len(s) /\ r[i] = s[n + i]
  BY <1>1, <1>4
<1>7. 1..n \subseteq 1..Len(s)
  BY <1>1
<1>8. Range(s) \subseteq {s[i] : i \in 1..n} \cup Range(r)
  BY <1>1, <1>4, <1>5 DEF Range
<1>9. Range(r) \subseteq Range(s)
  BY <1>1, <1>4, <1>6 DEF Range
<1>10. {s[i] : i \in 1..n} \subseteq Range(s)
  BY <1>1, <1>7 DEF Range
<1>11. Range(s) = {s[i] : i \in 1..n} \cup Range(r)
  BY <1>8, <1>9, <1>10
<1> QED BY <1>3, <1>4, <1>11 DEF r

-----------------------------------------------------------------------------
\* Where the routines are.

LEMMA PlacesInit == Init => PlacesType /\ Handshakes
BY DEF Init, PlacesType, Handshakes, Handshake

LEMMA PlacesStep ==
  ASSUME PlacesType, Handshakes, [Next]_vars
  PROVE  PlacesType' /\ Handshakes'
<1> USE DEF PlacesType, Handshakes, Handshake
<1>1. CASE UNCHANGED <<relayVars, routineVars, notif, csc>>
  BY <1>1 DEF relayVars, routineVars
<1>2. ASSUME NEW d \in Dests, Relay(d)
      PROVE  PlacesType' /\ Handshakes'
  <2>1. CASE getNewConnSet(d)
    BY <2>1 DEF getNewConnSet, routineVars
  <2>2. CASE ClearPop(d)
    BY <2>2 DEF ClearPop, routineVars
  <2>3. CASE ClearWrite(d)
    <3>1. /\ rPc[d] = "clearwrite" /\ UNCHANGED <<cPc, csc>>
          /\ \/ rPc' = [rPc EXCEPT ![d] = "clear"] /\ UNCHANGED <<rNext, notif>>
             \/ rPc' = [rPc EXCEPT ![d] = "get"] /\ Signal(d) /\ UNCHANGED rNext
             \/ /\ rPc' = [rPc EXCEPT ![d] = "close"] /\ rNext' = [rNext EXCEPT ![d] = "get"]
                /\ UNCHANGED notif
      BY <2>3, Zenon DEF ClearWrite, routineVars
    <3> QED BY <3>1 DEF Signal
  <2>4. CASE RelaySync(d)
    BY <2>4 DEF RelaySync, Signal, routineVars
  <2>5. CASE TakeEntry(d)
    BY <2>5 DEF TakeEntry, routineVars
  <2>6. CASE TakeBatch(d)
    BY <2>6 DEF TakeBatch, routineVars
  <2>7. CASE RelayWrite(d)
    BY <2>7 DEF RelayWrite, routineVars
  <2>8. CASE RelayRecycle(d)
    BY <2>8 DEF RelayRecycle, routineVars
  <2>9. CASE RelayTick(d)
    BY <2>9 DEF RelayTick, routineVars
  <2>10. CASE RelayDone(d)
    BY <2>10 DEF RelayDone, routineVars
  <2>11. CASE RelayClose(d)
    BY <2>11 DEF RelayClose, routineVars
  <2>12. CASE RelayRequeue(d)
    BY <2>12 DEF RelayRequeue, Signal, routineVars
  <2> QED BY <1>2, <2>1, <2>2, <2>3, <2>4, <2>5, <2>6, <2>7, <2>8, <2>9, <2>10, <2>11, <2>12, Zenon DEF Relay
<1>3. ASSUME NEW d \in Dests, Routine(d)
      PROVE  PlacesType' /\ Handshakes'
  <2>1. CASE ConnWait(d)
    BY <2>1 DEF ConnWait, relayVars
  <2>2. CASE ConnRequeue(d)
    BY <2>2 DEF ConnRequeue, relayVars
  <2>3. CASE ConnIdentify(d)
    BY <2>3 DEF ConnIdentify, relayVars
  <2>4. CASE ConnConnect(d)
    BY <2>4 DEF ConnConnect, relayVars
  <2>5. CASE ConnFailed(d)
    BY <2>5 DEF ConnFailed, relayVars
  <2> QED BY <1>3, <2>1, <2>2, <2>3, <2>4, <2>5 DEF Routine
<1>4. ASSUME NEW d \in Dests, Network(d)
      PROVE  UNCHANGED <<relayVars, routineVars, notif, csc>>
  BY <1>4 DEF Network, IndexerReads, Confirm, Break
<1>5. CASE CloseCall \/ CloseDrain \/ Finished \/ UNCHANGED vars
  BY <1>5, <1>1 DEF CloseCall, CloseDrain, Finished, vars
<1>6. ASSUME NEW e, WriteEntry(e) \/ WriteBatch(e)
      PROVE  UNCHANGED <<relayVars, routineVars, notif, csc>>
  BY <1>6 DEF WriteEntry, WriteBatch
<1> QED BY <1>1, <1>2, <1>3, <1>4, <1>5, <1>6 DEF Next

-----------------------------------------------------------------------------
\* What they hold.

LEMMA TagTypes ==
  ASSUME WritesType, NEW d \in Dests
  PROVE  /\ \A t \in Tags : translate(d, t) \in Tags /\ reverse(d, t) \in Tags
         /\ \A S : Retag(translate, d, S) \in [Entries -> Tags]
         /\ \A S : Retag(reverse, d, S) \in [Entries -> Tags]
<1>1. \A t \in Tags : translate(d, t) \in Tags
  BY MuxerAssumption DEF translate
<1>2. ASSUME NEW t \in Tags
      PROVE  reverse(d, t) \in Tags
  BY MuxerAssumption DEF reverse
<1>3. tag \in [Entries -> Tags]
  BY DEF WritesType
<1> QED BY <1>1, <1>2, <1>3 DEF Retag

\* Items: the one for an ejected buffer, and None.
LEMMA EjectType ==
  ASSUME ConnsType, NEW d \in Dests
  PROVE  /\ Eject(d) \in Seq(Entries) /\ Range(Eject(d)) = Sent(d)
         /\ Item(FALSE, Eject(d)) \in ItemType /\ WellFormed(Item(FALSE, Eject(d)))
         /\ None \in ItemType /\ WellFormed(None) /\ Range(None.ents) = {}
<1>1. ecb[d] \in Seq(SentType)
  BY DEF ConnsType
<1>2. /\ DOMAIN ecb[d] = 1..Len(ecb[d]) /\ Len(ecb[d]) \in Nat
      /\ \A i \in DOMAIN ecb[d] : ecb[d][i] \in SentType
  BY <1>1
<1>3. \A x \in SentType : x.ent \in Entries
  BY DEF SentType
<1>4. Eject(d) \in Seq(Entries)
  BY <1>2, <1>3 DEF Eject
<1>5. Range(Eject(d)) = Sent(d)
  BY Zenon DEF Range, Eject, Sent
<1>6. <<>> \in Seq(Entries) /\ Range(<<>>) = {}
  BY DEF Range
<1> QED BY <1>4, <1>5, <1>6 DEF Item, None, ItemType, WellFormed

\* What recycle() and recycleEjected() do to the queues.
LEMMA RecycleEffect ==
  ASSUME QueuesType, \A x \in Range(eq) : WellFormed(x),
         NEW it \in ItemType, WellFormed(it), recycle(it)
  PROVE  /\ QueuesType' /\ \A x \in Range(eq') : WellFormed(x)
         /\ Queued' \cup InQueue' = Queued \cup InQueue \cup Range(it.ents)
<1> USE DEF QueuesType
<1>1. CASE eq' = Append(eq, it) /\ UNCHANGED <<eChan, bChan>>
  <2>1. eq' \in Seq(ItemType) /\ Range(eq') = Range(eq) \cup {it}
    BY <1>1, RangeAppend
  <2>2. InQueue' = InQueue \cup Range(it.ents)
    BY <2>1, Zenon DEF InQueue
  <2>3. Queued' = Queued
    BY <1>1 DEF Queued
  <2> QED BY <1>1, <2>1, <2>2, <2>3
<1>2. CASE it.single /\ eChan' = Append(eChan, it.ents[1]) /\ UNCHANGED <<bChan, eq>>
  <2>1. it.ents \in Seq(Entries) /\ Len(it.ents) = 1
    BY <1>2 DEF ItemType, WellFormed
  <2>2. it.ents[1] \in Entries /\ Range(it.ents) = {it.ents[1]}
    BY <2>1 DEF Range
  <2>3. eChan' \in Seq(Entries) /\ Range(eChan') = Range(eChan) \cup {it.ents[1]}
    BY <1>2, <2>2, RangeAppend
  <2>4. InQueue' = InQueue
    BY <1>2 DEF InQueue
  <2> QED BY <1>2, <2>2, <2>3, <2>4 DEF Queued
<1>3. CASE ~it.single /\ bChan' = Append(bChan, it.ents) /\ UNCHANGED <<eChan, eq>>
  <2>1. it.ents \in Seq(Entries)
    BY DEF ItemType
  <2>2. bChan' \in Seq(Seq(Entries)) /\ Range(bChan') = Range(bChan) \cup {it.ents}
    BY <1>3, <2>1, RangeAppend
  <2>3. InQueue' = InQueue
    BY <1>3 DEF InQueue
  <2>4. Queued' = Queued \cup Range(it.ents)
    BY <1>3, <2>2, Zenon DEF Queued
  <2> QED BY <1>3, <2>2, <2>3, <2>4
<1> QED BY <1>1, <1>2, <1>3, Zenon DEF recycle

LEMMA RecycleEjectedEffect ==
  ASSUME QueuesType, \A x \in Range(eq) : WellFormed(x),
         NEW it \in ItemType, WellFormed(it), recycleEjected(it)
  PROVE  /\ QueuesType' /\ \A x \in Range(eq') : WellFormed(x)
         /\ Queued' \cup InQueue' = Queued \cup InQueue \cup Range(it.ents)
<1>1. CASE it.ents = <<>> /\ UNCHANGED queueVars
  <2>1. Range(it.ents) = {}
    BY <1>1 DEF Range
  <2>2. UNCHANGED <<eChan, bChan, eq>>
    BY <1>1 DEF queueVars
  <2> QED BY <2>1, <2>2 DEF QueuesType, Queued, InQueue
<1>2. CASE recycle(it)
  BY <1>2, RecycleEffect
<1> QED BY <1>1, <1>2 DEF recycleEjected

\* Entries that leave one place for another.
LEMMA RelayHand ==
  ASSUME HandsType, NEW d \in Dests, NEW x \in ItemType,
         rItem' = [rItem EXCEPT ![d] = x], UNCHANGED cItem
  PROVE  /\ HandsType' /\ InHand \subseteq InHand' \cup Range(rItem[d].ents)
         /\ Range(x.ents) \subseteq InHand'
         /\ \A c \in Dests \ {d} : rItem'[c] = rItem[c]
<1>1. rItem'[d] = x /\ \A c \in Dests \ {d} : rItem'[c] = rItem[c]
  BY DEF HandsType
<1>2. HandsType'
  BY DEF HandsType
<1>3. ASSUME NEW e \in InHand, e \notin Range(rItem[d].ents)
      PROVE  e \in InHand'
  <2>1. PICK c \in Dests : e \in Range(rItem[c].ents) \cup Range(cItem[c].ents)
    BY <1>3, Zenon DEF InHand
  <2>2. e \in Range(rItem'[c].ents) \cup Range(cItem'[c].ents)
    BY <1>1, <1>3, <2>1, Zenon
  <2> QED BY <2>2, Zenon DEF InHand
<1>4. Range(x.ents) \subseteq InHand'
  <2>1. Range(rItem'[d].ents) \subseteq InHand'
    BY DEF InHand
  <2> QED BY <1>1, <2>1
<1> QED BY <1>1, <1>2, <1>3, <1>4

LEMMA RoutineHand ==
  ASSUME HandsType, NEW d \in Dests, NEW x \in ItemType,
         cItem' = [cItem EXCEPT ![d] = x], UNCHANGED rItem
  PROVE  /\ HandsType' /\ InHand \subseteq InHand' \cup Range(cItem[d].ents)
         /\ Range(x.ents) \subseteq InHand'
         /\ \A c \in Dests \ {d} : cItem'[c] = cItem[c]
<1>1. cItem'[d] = x /\ \A c \in Dests \ {d} : cItem'[c] = cItem[c]
  BY DEF HandsType
<1>2. HandsType'
  BY DEF HandsType
<1>3. ASSUME NEW e \in InHand, e \notin Range(cItem[d].ents)
      PROVE  e \in InHand'
  <2>1. PICK c \in Dests : e \in Range(rItem[c].ents) \cup Range(cItem[c].ents)
    BY <1>3, Zenon DEF InHand
  <2>2. e \in Range(rItem'[c].ents) \cup Range(cItem'[c].ents)
    BY <1>1, <1>3, <2>1, Zenon
  <2> QED BY <2>2, Zenon DEF InHand
<1>4. Range(x.ents) \subseteq InHand'
  <2>1. Range(cItem'[d].ents) \subseteq InHand'
    BY DEF InHand
  <2> QED BY <1>1, <2>1
<1> QED BY <1>1, <1>2, <1>3, <1>4

BufferType == ecb \in [Dests -> Seq(SentType)] /\ nread \in [Dests -> Nat]

LEMMA BufferChange ==
  ASSUME BufferType, NEW d \in Dests, NEW q \in Seq(SentType), ecb' = [ecb EXCEPT ![d] = q]
  PROVE  /\ ecb' \in [Dests -> Seq(SentType)]
         /\ ecb'[d] = q /\ \A c \in Dests \ {d} : ecb'[c] = ecb[c]
         /\ Unconfirmed \subseteq Unconfirmed' \cup Sent(d)
         /\ {x.ent : x \in Range(q)} \subseteq Unconfirmed'
<1>1. /\ ecb' \in [Dests -> Seq(SentType)]
      /\ ecb'[d] = q /\ \A c \in Dests \ {d} : ecb'[c] = ecb[c]
  BY DEF BufferType
<1> QED BY <1>1, Zenon DEF Unconfirmed, Sent

LEMMA Emptied ==
  ASSUME BufferType, ReadOK, NEW d \in Dests, delivered \subseteq delivered',
         ecb' = [ecb EXCEPT ![d] = <<>>], nread' = [nread EXCEPT ![d] = 0]
  PROVE  BufferType' /\ ReadOK' /\ Unconfirmed \subseteq Unconfirmed' \cup Sent(d)
<1>1. <<>> \in Seq(SentType) /\ Len(<<>>) = 0
  OBVIOUS
<1>2. /\ ecb' \in [Dests -> Seq(SentType)] /\ Unconfirmed \subseteq Unconfirmed' \cup Sent(d)
      /\ ecb'[d] = <<>> /\ \A c \in Dests \ {d} : ecb'[c] = ecb[c]
  BY <1>1, BufferChange, Zenon
<1>3. /\ nread' \in [Dests -> Nat] /\ nread'[d] = 0
      /\ \A c \in Dests \ {d} : nread'[c] = nread[c]
  BY DEF BufferType
<1>4. ASSUME NEW c \in Dests
      PROVE  nread'[c] <= Len(ecb'[c]) /\ \A i \in 1..nread'[c] : ecb'[c][i].ent \in delivered'
  <2>1. CASE c = d
    BY <1>1, <1>2, <1>3, <2>1
  <2>2. CASE c # d
    BY <1>2, <1>3, <2>2 DEF ReadOK
  <2> QED BY <2>1, <2>2
<1> QED BY <1>2, <1>3, <1>4 DEF BufferType, ReadOK

LEMMA SentEntries ==
  ASSUME BufferType, NEW d \in Dests
  PROVE  /\ Sent(d) \subseteq Entries /\ Sent(d) \subseteq Unconfirmed
         /\ \A i \in DOMAIN ecb[d] : ecb[d][i].ent \in Sent(d)
<1>1. ecb[d] \in Seq(SentType)
  BY DEF BufferType
<1>2. Range(ecb[d]) \subseteq SentType
  BY <1>1, RangeOfSeq
<1>3. Sent(d) \subseteq Entries
  BY <1>2 DEF Sent, SentType
<1>4. \A i \in DOMAIN ecb[d] : ecb[d][i].ent \in Sent(d)
  BY DEF Sent, Range
<1> QED BY <1>3, <1>4 DEF Unconfirmed

LEMMA SyncedEffect ==
  ASSUME BufferType, ReadOK, NEW d \in Dests, delivered \subseteq Entries, Synced(d)
  PROVE  /\ BufferType' /\ ReadOK' /\ delivered' \subseteq Entries /\ delivered \subseteq delivered'
         /\ Unconfirmed \subseteq Unconfirmed' \cup delivered'
<1>1. delivered \subseteq delivered' /\ Sent(d) \subseteq delivered' /\ delivered' \subseteq Entries
  BY SentEntries DEF Synced
<1> QED BY <1>1, Emptied, Zenon DEF Synced

LEMMA WrittenEffect ==
  ASSUME WritesType, BufferType, ReadOK, NEW d \in Dests, NEW ents \in Seq(Entries),
         NEW n \in 0..Len(ents), Written(d, ents, n), UNCHANGED <<nread, delivered>>
  PROVE  /\ BufferType' /\ ReadOK' /\ Unconfirmed \subseteq Unconfirmed'
         /\ {ents[i] : i \in 1..n} \subseteq Unconfirmed'
         /\ \A c \in Dests \ {d} : ecb'[c] = ecb[c]
<1> DEFINE w == [i \in 1..n |-> [ent |-> ents[i], tag |-> translate(d, tag[ents[i]])]]
           q == ecb[d] \o w
<1>1. n \in Nat /\ 1..n \subseteq DOMAIN ents /\ \A i \in 1..n : ents[i] \in Entries
  OBVIOUS
<1>2. \A i \in 1..n : w[i] \in SentType
  BY <1>1, TagTypes, Zenon DEF SentType, WritesType
<1>3. w \in Seq(SentType) /\ DOMAIN w = 1..n
  BY <1>1, <1>2
<1>4. ecb[d] \in Seq(SentType) /\ Len(ecb[d]) \in Nat /\ nread[d] \in Nat /\ nread[d] <= Len(ecb[d])
  BY DEF BufferType, ReadOK
<1>5. q \in Seq(SentType) /\ Range(q) = Range(ecb[d]) \cup Range(w)
  <2> HIDE DEF w
  <2>1. q \in Seq(SentType)
    BY <1>3, <1>4
  <2>2. Range(q) = Range(ecb[d]) \cup Range(w)
    BY <1>3, <1>4, RangeConcatenation
  <2> QED BY <2>1, <2>2
<1>6. Len(q) = Len(ecb[d]) + Len(w) /\ Len(w) \in Nat /\ \A i \in 1..Len(ecb[d]) : q[i] = ecb[d][i]
  BY <1>3, <1>4
<1>7. \A i \in 1..n : w[i] \in Range(w) /\ w[i].ent = ents[i]
  BY <1>3, Zenon DEF Range
<1>8. ecb' = [ecb EXCEPT ![d] = q]
  BY DEF Written
<1> HIDE DEF w, q
<1>9. /\ ecb' \in [Dests -> Seq(SentType)]
      /\ ecb'[d] = q /\ \A c \in Dests \ {d} : ecb'[c] = ecb[c]
      /\ Unconfirmed \subseteq Unconfirmed' \cup Sent(d)
      /\ {x.ent : x \in Range(q)} \subseteq Unconfirmed'
  BY <1>5, <1>8, BufferChange, ZenonT(60)
<1>10. Sent(d) \subseteq {x.ent : x \in Range(q)}
  BY <1>5, Zenon DEF Sent
<1>11. {ents[i] : i \in 1..n} \subseteq {x.ent : x \in Range(q)}
  BY <1>5, <1>7, Zenon
<1>12. ASSUME NEW c \in Dests
       PROVE  nread'[c] <= Len(ecb'[c]) /\ \A i \in 1..nread'[c] : ecb'[c][i].ent \in delivered'
  <2>1. CASE c = d
    <3>1. nread'[d] = nread[d] /\ ecb'[d] = q /\ nread[d] <= Len(q) /\ 1..nread[d] \subseteq 1..Len(ecb[d])
      BY <1>4, <1>6, <1>9
    <3>2. \A i \in 1..nread[d] : q[i] = ecb[d][i] /\ ecb[d][i].ent \in delivered
      BY <1>6, <3>1 DEF ReadOK
    <3> QED BY <2>1, <3>1, <3>2
  <2>2. CASE c # d
    BY <1>9, <2>2 DEF ReadOK
  <2> QED BY <2>1, <2>2
<1> QED BY <1>9, <1>10, <1>11, <1>12, Zenon DEF BufferType, ReadOK

-----------------------------------------------------------------------------
\* What the queues, the connections and the routines hold after each action.

Data == WritesType /\ QueuesType /\ ConnsType /\ HandsType /\ ItemsOK /\ ReadOK
Kept == Accounted \subseteq Accounted'

LEMMA DataParts ==
  ASSUME Data
  PROVE  /\ BufferType /\ delivered \subseteq Entries
         /\ \A d \in Dests : /\ rItem[d] \in ItemType /\ rItem[d].ents \in Seq(Entries)
                             /\ cItem[d] \in ItemType /\ cItem[d].ents \in Seq(Entries)
<1>1. BufferType /\ delivered \subseteq Entries
  BY DEF Data, ConnsType, BufferType, WritesType
<1>2. ASSUME NEW d \in Dests
      PROVE  rItem[d] \in ItemType /\ cItem[d] \in ItemType
  BY DEF Data, HandsType
<1>3. \A x \in ItemType : x.ents \in Seq(Entries)
  BY DEF ItemType
<1> QED BY <1>1, <1>2, <1>3

LEMMA WriteData ==
  ASSUME Data, (\E e \in Singles : WriteEntry(e)) \/ (\E b \in Blocks : WriteBatch(b))
  PROVE  Data' /\ Kept /\ accepted' \subseteq accepted \cup Accounted'
<1>1. CASE \E e \in Singles : WriteEntry(e)
  <2>1. PICK e \in Singles : WriteEntry(e)
    BY <1>1
  <2>2. e \in Entries
    BY DEF Entries
  <2>3. eChan' \in Seq(Entries) /\ Range(eChan') = Range(eChan) \cup {e}
    BY <2>1, <2>2, RangeAppend DEF WriteEntry, Data, QueuesType
  <2>4. /\ UNCHANGED <<state, tag, bChan, eq, conn, ecb, nread, delivered, breaks, rItem, cItem, fatal, cut>>
        /\ accepted' = accepted \cup {e}
    BY <2>1 DEF WriteEntry, connVars, relayVars, routineVars
  <2>5. Data'
    BY <2>2, <2>3, <2>4 DEF Data, WritesType, QueuesType, ConnsType, HandsType, ItemsOK, ReadOK
  <2>6. InQueue' = InQueue /\ InHand' = InHand /\ Unconfirmed' = Unconfirmed /\ Queued' = Queued \cup {e}
    BY <2>3, <2>4 DEF InQueue, InHand, Unconfirmed, Sent, Queued
  <2> QED BY <2>4, <2>5, <2>6 DEF Kept, Accounted
<1>2. CASE \E b \in Blocks : WriteBatch(b)
  <2>1. PICK b \in Blocks : WriteBatch(b)
    BY <1>2
  <2>2. b \in Seq(Entries) /\ Range(b) \subseteq Entries
    BY MuxerAssumption DEF Entries
  <2>3. bChan' \in Seq(Seq(Entries)) /\ Range(bChan') = Range(bChan) \cup {b}
    BY <2>1, <2>2, RangeAppend DEF WriteBatch, Data, QueuesType
  <2>4. /\ UNCHANGED <<state, tag, eChan, eq, conn, ecb, nread, delivered, breaks, rItem, cItem, fatal, cut>>
        /\ accepted' = accepted \cup Range(b)
    BY <2>1 DEF WriteBatch, connVars, relayVars, routineVars
  <2>5. Data'
    BY <2>2, <2>3, <2>4 DEF Data, WritesType, QueuesType, ConnsType, HandsType, ItemsOK, ReadOK
  <2>6. InQueue' = InQueue /\ InHand' = InHand /\ Unconfirmed' = Unconfirmed
    BY <2>3, <2>4 DEF InQueue, InHand, Unconfirmed, Sent
  <2>7. Queued' = Queued \cup Range(b)
    BY <2>3, <2>4, Zenon DEF Queued
  <2> QED BY <2>4, <2>5, <2>6, <2>7 DEF Kept, Accounted
<1> QED BY <1>1, <1>2

\* An ack removes the oldest entry, which the indexer has read.
LEMMA NetworkData ==
  ASSUME Data, NEW d \in Dests, Network(d)
  PROVE  Data' /\ Kept /\ accepted' = accepted
<1>1. UNCHANGED <<state, accepted, tag, eChan, bChan, eq, rItem, cItem, fatal, cut>>
  BY Zenon DEF Network, IndexerReads, Confirm, Break, queueVars, relayVars, routineVars
<1>2. Queued' = Queued /\ InQueue' = InQueue /\ InHand' = InHand
  BY <1>1 DEF Queued, InQueue, InHand
<1>3. QueuesType' /\ HandsType' /\ ItemsOK'
  BY <1>1 DEF Data, QueuesType, HandsType, ItemsOK
<1>4. /\ BufferType /\ ecb[d] \in Seq(SentType) /\ nread[d] \in Nat /\ Len(ecb[d]) \in Nat
      /\ DOMAIN ecb[d] = 1..Len(ecb[d]) /\ nread[d] <= Len(ecb[d])
  BY DataParts DEF Data, BufferType, ReadOK
<1>5. CASE IndexerReads(d)
  <2>1. nread[d] + 1 \in DOMAIN ecb[d]
    <3>1. nread[d] < Len(ecb[d])
      BY <1>5, Zenon DEF IndexerReads
    <3>2. \A k, m \in Nat : k < m => k + 1 \in 1..m
      OBVIOUS
    <3> QED BY <1>4, <3>1, <3>2, Zenon
  <2>2. ecb[d][nread[d] + 1].ent \in Entries
    BY <1>4, <2>1, SentEntries, ZenonT(60)
  <2>3. /\ UNCHANGED <<conn, ecb, breaks>> /\ nread' = [nread EXCEPT ![d] = nread[d] + 1]
        /\ delivered' = delivered \cup {ecb[d][nread[d] + 1].ent}
    BY <1>5 DEF IndexerReads
  <2>4. WritesType' /\ ConnsType'
    BY <1>1, <1>4, <2>2, <2>3 DEF Data, WritesType, ConnsType
  <2>5. Unconfirmed' = Unconfirmed
    BY <2>3 DEF Unconfirmed, Sent
  <2>6. ASSUME NEW c \in Dests
        PROVE  nread'[c] <= Len(ecb'[c]) /\ \A i \in 1..nread'[c] : ecb'[c][i].ent \in delivered'
    <3>1. CASE c = d
      <4>1. nread'[d] = nread[d] + 1 /\ ecb'[d] = ecb[d] /\ nread[d] + 1 <= Len(ecb[d])
        BY <1>4, <2>1, <2>3 DEF BufferType
      <4>2. \A i \in 1..(nread[d] + 1) : i \in 1..nread[d] \/ i = nread[d] + 1
        BY <1>4
      <4>3. \A i \in 1..(nread[d] + 1) : ecb[d][i].ent \in delivered'
        BY <2>3, <4>2 DEF Data, ReadOK
      <4> QED BY <3>1, <4>1, <4>3
    <3>2. CASE c # d
      BY <1>4, <2>3, <3>2 DEF Data, ReadOK, BufferType
    <3> QED BY <3>1, <3>2
  <2>7. ReadOK'
    BY <2>6 DEF ReadOK
  <2> QED BY <1>1, <1>2, <1>3, <2>3, <2>4, <2>5, <2>7, Zenon DEF Data, Kept, Accounted
<1>6. CASE Confirm(d)
  <2>1. ecb[d] # <<>> /\ nread[d] - 1 \in Nat /\ Len(ecb[d]) > 0
    BY <1>4, <1>6 DEF Confirm
  <2>2. /\ UNCHANGED <<conn, delivered, breaks>> /\ nread' = [nread EXCEPT ![d] = nread[d] - 1]
        /\ ecb' = [ecb EXCEPT ![d] = Tail(ecb[d])]
    BY <1>6 DEF Confirm
  <2>3. Tail(ecb[d]) \in Seq(SentType) /\ Range(ecb[d]) = {Head(ecb[d])} \cup Range(Tail(ecb[d]))
    BY <1>4, <2>1, RangeHeadTail
  <2>4. Head(ecb[d]) = ecb[d][1] /\ ecb[d][1].ent \in delivered
    BY <1>4, <2>1 DEF Data, ReadOK
  <2>5. /\ ecb' \in [Dests -> Seq(SentType)]
        /\ ecb'[d] = Tail(ecb[d]) /\ \A c \in Dests \ {d} : ecb'[c] = ecb[c]
        /\ Unconfirmed \subseteq Unconfirmed' \cup Sent(d)
        /\ {x.ent : x \in Range(Tail(ecb[d]))} \subseteq Unconfirmed'
    BY <1>4, <2>2, <2>3, BufferChange, Zenon
  <2>6. Sent(d) \subseteq {x.ent : x \in Range(Tail(ecb[d]))} \cup delivered
    BY <2>3, <2>4, Zenon DEF Sent
  <2>7. WritesType' /\ ConnsType'
    BY <1>1, <1>4, <2>1, <2>2, <2>5, ZenonT(60) DEF Data, WritesType, ConnsType
  <2>8. ASSUME NEW c \in Dests
        PROVE  nread'[c] <= Len(ecb'[c]) /\ \A i \in 1..nread'[c] : ecb'[c][i].ent \in delivered'
    <3>1. CASE c = d
      <4>1. nread'[d] = nread[d] - 1 /\ nread[d] - 1 <= Len(Tail(ecb[d]))
        BY <1>4, <2>1, <2>2 DEF BufferType
      <4>2. \A i \in 1..(nread[d] - 1) : Tail(ecb[d])[i] = ecb[d][i + 1] /\ i + 1 \in 1..nread[d]
        BY <1>4, <2>1
      <4>3. \A i \in 1..(nread[d] - 1) : Tail(ecb[d])[i].ent \in delivered
        BY <4>2, ZenonT(60) DEF Data, ReadOK
      <4> QED BY <2>2, <2>5, <3>1, <4>1, <4>3, ZenonT(60)
    <3>2. CASE c # d
      BY <1>4, <2>2, <2>5, <3>2, Zenon DEF Data, ReadOK, BufferType
    <3> QED BY <3>1, <3>2
  <2>9. ReadOK'
    BY <2>8 DEF ReadOK
  <2> QED BY <1>1, <1>2, <1>3, <2>2, <2>5, <2>6, <2>7, <2>9, ZenonT(60) DEF Data, Kept, Accounted
<1>7. CASE Break(d)
  <2>1. /\ UNCHANGED <<ecb, nread, delivered>> /\ conn' = [conn EXCEPT ![d] = "broken"]
        /\ breaks' \in 0..MaxBreaks
    BY <1>7, MuxerAssumption DEF Break, Data, WritesType
  <2>2. Unconfirmed' = Unconfirmed
    BY <2>1 DEF Unconfirmed, Sent
  <2>3. WritesType' /\ ConnsType' /\ ReadOK'
    BY <1>1, <2>1 DEF Data, WritesType, ConnsType, ReadOK
  <2> QED BY <1>1, <1>2, <1>3, <2>1, <2>2, <2>3 DEF Data, Kept, Accounted
<1> QED BY <1>5, <1>6, <1>7 DEF Network

\* Actions that move no entry.
LEMMA DataFrame ==
  ASSUME Data, UNCHANGED <<accepted, tag, queueVars, conn, ecb, nread, delivered, breaks, rItem, cItem, cut>>,
         state' \in {"running", "closing", "closed"}, fatal' \in 0..MaxFatal
  PROVE  Data' /\ Kept /\ accepted' = accepted
<1>1. UNCHANGED <<eChan, bChan, eq>>
  BY DEF queueVars
<1>2. UNCHANGED <<Queued, InQueue, InHand, Unconfirmed>>
  BY <1>1 DEF Queued, InQueue, InHand, Unconfirmed, Sent
<1>3. Data'
  BY <1>1 DEF Data, WritesType, QueuesType, ConnsType, HandsType, ItemsOK, ReadOK
<1> QED BY <1>2, <1>3 DEF Kept, Accounted

\* Actions on the items of the relay: the parts of Data that they all keep.
LEMMA RelayItemData ==
  ASSUME Data, NEW d \in Dests, NEW x \in ItemType, WellFormed(x),
         rItem' = [rItem EXCEPT ![d] = x], UNCHANGED <<state, accepted, breaks, fatal, cItem>>,
         tag' \in [Entries -> Tags], delivered' \subseteq Entries, cut' \subseteq Entries,
         conn' \in [Dests -> {"none", "up", "broken", "closed"}], BufferType', ReadOK',
         QueuesType', \A it \in Range(eq') : WellFormed(it)
  PROVE  Data'
<1>1. /\ HandsType' /\ InHand \subseteq InHand' \cup Range(rItem[d].ents)
      /\ Range(x.ents) \subseteq InHand'
      /\ \A c \in Dests \ {d} : rItem'[c] = rItem[c]
  BY RelayHand, ZenonT(60) DEF Data
<1>2. rItem'[d] = x
  BY DEF Data, HandsType
<1>3. ItemsOK'
  BY <1>1, <1>2 DEF ItemsOK, Data
<1>4. WritesType' /\ ConnsType'
  BY DEF Data, WritesType, ConnsType, BufferType
<1> QED BY <1>1, <1>3, <1>4 DEF Data

\* An item is taken from a channel or from the emergency queue.
LEMMA TakeData ==
  ASSUME Data, NEW d \in Dests, HoldsOnly(d), ClearPop(d) \/ TakeEntry(d) \/ TakeBatch(d)
  PROVE  Data' /\ Kept /\ accepted' = accepted
<1>1. UNCHANGED <<state, accepted, tag, conn, ecb, nread, delivered, breaks, cItem, fatal, cut>>
  BY ZenonT(60) DEF ClearPop, TakeEntry, TakeBatch, connVars, routineVars
<1>2. BufferType' /\ ReadOK' /\ Unconfirmed' = Unconfirmed
  BY <1>1, DataParts, ZenonT(60) DEF Data, BufferType, ReadOK, Unconfirmed, Sent
<1>3. Range(None.ents) = {}
  BY DEF None, Item, Range
<1>4. QueuesType /\ HandsType /\ \A it \in Range(eq) : WellFormed(it)
  BY ZenonT(60) DEF Data, ItemsOK
<1>5. /\ tag' \in [Entries -> Tags] /\ delivered' \subseteq Entries /\ cut' \subseteq Entries
      /\ conn' \in [Dests -> {"none", "up", "broken", "closed"}]
  BY <1>1 DEF Data, WritesType, ConnsType
<1>6. CASE ClearPop(d) /\ eq = <<>>
  <2>1. UNCHANGED <<queueVars, rItem>>
    BY <1>6 DEF ClearPop, queueVars
  <2>2. state' \in {"running", "closing", "closed"} /\ fatal' \in 0..MaxFatal
    BY <1>1 DEF Data, WritesType
  <2> QED BY <1>1, <2>1, <2>2, DataFrame
<1>7. CASE ClearPop(d) /\ eq # <<>>
  <2>1. /\ rPc[d] = "clear" /\ rItem' = [rItem EXCEPT ![d] = Head(eq)] /\ eq' = Tail(eq)
        /\ UNCHANGED <<eChan, bChan>>
    BY <1>7 DEF ClearPop
  <2>2. Head(eq) \in ItemType /\ Tail(eq) \in Seq(ItemType) /\ Range(eq) = {Head(eq)} \cup Range(Tail(eq))
    BY <1>4, <1>7, RangeHeadTail DEF QueuesType
  <2>3. WellFormed(Head(eq)) /\ QueuesType' /\ \A it \in Range(eq') : WellFormed(it)
    BY <1>4, <2>1, <2>2 DEF QueuesType
  <2>4. Data'
    BY <1>1, <1>2, <1>5, <2>1, <2>2, <2>3, RelayItemData, ZenonT(60)
  <2>5. /\ InHand \subseteq InHand' \cup Range(rItem[d].ents)
        /\ Range(Head(eq).ents) \subseteq InHand'
    BY <1>1, <1>4, <2>1, <2>2, RelayHand, Zenon
  <2>6. rItem[d] = None
    BY <2>1, Zenon DEF HoldsOnly
  <2>7. InQueue \subseteq InQueue' \cup Range(Head(eq).ents)
    BY <2>1, <2>2, Zenon DEF InQueue
  <2>8. Queued' = Queued
    BY <2>1 DEF Queued
  <2> QED BY <1>1, <1>2, <1>3, <2>4, <2>5, <2>6, <2>7, <2>8, ZenonT(60) DEF Kept, Accounted
<1>8. CASE TakeEntry(d)
  <2> DEFINE x == Item(TRUE, <<Head(eChan)>>)
  <2>1. /\ rPc[d] = "loop" /\ rItem' = [rItem EXCEPT ![d] = x] /\ eChan' = Tail(eChan)
        /\ UNCHANGED <<bChan, eq>> /\ eChan # <<>>
    BY <1>8 DEF TakeEntry
  <2>2. Head(eChan) \in Entries /\ Tail(eChan) \in Seq(Entries) /\ Range(eChan) = {Head(eChan)} \cup Range(Tail(eChan))
    <3>1. eChan \in Seq(Entries)
      BY <1>4, Zenon DEF QueuesType
    <3> QED BY <2>1, <3>1, RangeHeadTail, Zenon
  <2>3. x \in ItemType /\ WellFormed(x) /\ Range(x.ents) = {Head(eChan)}
    <3>1. \A e \in Entries : /\ Item(TRUE, <<e>>) \in ItemType /\ WellFormed(Item(TRUE, <<e>>))
                             /\ Item(TRUE, <<e>>).ents = <<e>>
      BY DEF Item, ItemType, WellFormed
    <3>2. \A e \in Entries : Range(<<e>>) = {e}
      BY DEF Range
    <3> QED BY <2>2, <3>1, <3>2, Zenon
  <2> HIDE DEF x
  <2>4. QueuesType' /\ \A it \in Range(eq') : WellFormed(it)
    BY <1>4, <2>1, <2>2 DEF QueuesType
  <2>5. Data'
    BY <1>1, <1>2, <1>5, <2>1, <2>3, <2>4, RelayItemData, ZenonT(60)
  <2>6. /\ InHand \subseteq InHand' \cup Range(rItem[d].ents)
        /\ Range(x.ents) \subseteq InHand'
    BY <1>1, <1>4, <2>1, <2>3, RelayHand, Zenon
  <2>7. rItem[d] = None
    BY <2>1, ZenonT(60) DEF HoldsOnly
  <2>8. Queued \subseteq Queued' \cup Range(x.ents) /\ InQueue' = InQueue
    BY <2>1, <2>2, <2>3 DEF InQueue, Queued
  <2> QED BY <1>1, <1>2, <1>3, <2>5, <2>6, <2>7, <2>8, ZenonT(60) DEF Kept, Accounted
<1>9. CASE TakeBatch(d)
  <2> DEFINE x == Item(FALSE, Head(bChan))
  <2>1. /\ rPc[d] = "loop" /\ rItem' = [rItem EXCEPT ![d] = x] /\ bChan' = Tail(bChan)
        /\ UNCHANGED <<eChan, eq>> /\ bChan # <<>>
    BY <1>9 DEF TakeBatch
  <2>2. /\ Head(bChan) \in Seq(Entries) /\ Tail(bChan) \in Seq(Seq(Entries))
        /\ Range(bChan) = {Head(bChan)} \cup Range(Tail(bChan))
    <3>1. bChan \in Seq(Seq(Entries))
      BY <1>4, Zenon DEF QueuesType
    <3> QED BY <2>1, <3>1, RangeHeadTail, Zenon
  <2>3. x \in ItemType /\ WellFormed(x) /\ x.ents = Head(bChan)
    <3>1. \A s \in Seq(Entries) : /\ Item(FALSE, s) \in ItemType /\ WellFormed(Item(FALSE, s))
                                  /\ Item(FALSE, s).ents = s
      BY DEF Item, ItemType, WellFormed
    <3> QED BY <2>2, <3>1, Zenon
  <2> HIDE DEF x
  <2>4. QueuesType' /\ \A it \in Range(eq') : WellFormed(it)
    BY <1>4, <2>1, <2>2 DEF QueuesType
  <2>5. Data'
    BY <1>1, <1>2, <1>5, <2>1, <2>3, <2>4, RelayItemData, ZenonT(60)
  <2>6. /\ InHand \subseteq InHand' \cup Range(rItem[d].ents)
        /\ Range(x.ents) \subseteq InHand'
    BY <1>1, <1>4, <2>1, <2>3, RelayHand, Zenon
  <2>7. rItem[d] = None
    BY <2>1, Zenon DEF HoldsOnly
  <2>8. Queued \subseteq Queued' \cup Range(x.ents)
    BY <2>1, <2>2, <2>3, Zenon DEF Queued
  <2>9. InQueue' = InQueue
    BY <2>1 DEF InQueue
  <2> QED BY <1>1, <1>2, <1>3, <2>5, <2>6, <2>7, <2>8, <2>9, ZenonT(60) DEF Kept, Accounted
<1> QED BY <1>6, <1>7, <1>8, <1>9

\* An item is written, wholly or in part.
LEMMA WriteItemData ==
  ASSUME Data, NEW d \in Dests, ClearWrite(d) \/ RelayWrite(d)
  PROVE  Data' /\ Kept /\ accepted' = accepted
<1> DEFINE ents == rItem[d].ents
<1>1. UNCHANGED <<state, accepted, eChan, bChan, conn, nread, delivered, breaks, cItem, fatal>>
  BY DEF ClearWrite, RelayWrite, queueVars, routineVars
<1>2. /\ QueuesType /\ HandsType /\ WritesType /\ \A it \in Range(eq) : WellFormed(it)
      /\ BufferType /\ ReadOK /\ rItem[d] \in ItemType /\ WellFormed(rItem[d]) /\ ents \in Seq(Entries)
  BY DataParts, ZenonT(60) DEF Data, ItemsOK
<1>3. Len(ents) \in Nat /\ DOMAIN ents = 1..Len(ents) /\ Range(ents) \subseteq Entries
  <2>1. ents \in Seq(Entries)
    BY <1>2, Zenon
  <2>2. \A s \in Seq(Entries) : Len(s) \in Nat /\ DOMAIN s = 1..Len(s)
    OBVIOUS
  <2> QED BY <2>1, <2>2, RangeOfSeq, Zenon
<1>4. Taken(d, ents) \subseteq 0..Len(ents)
  BY <1>3 DEF Taken
<1>5. delivered' \subseteq Entries /\ conn' \in [Dests -> {"none", "up", "broken", "closed"}]
  BY <1>1 DEF Data, WritesType, ConnsType
<1>6. None \in ItemType /\ WellFormed(None)
  BY EjectType, ZenonT(60) DEF Data
<1>7. CASE ClearWrite(d)
  <2>1. PICK n \in Taken(d, ents) :
          /\ Written(d, ents, n)
          /\ \/ n = Len(ents) /\ tag' = Retag(translate, d, Range(ents)) /\ UNCHANGED <<eq, cut>>
             \/ /\ UNCHANGED tag /\ eq' = Append(eq, rItem[d])
                /\ cut' = cut \cup {ents[i] : i \in 1..n}
    BY <1>7, Zenon DEF ClearWrite
  <2>2. n \in 0..Len(ents) /\ 1..n \subseteq DOMAIN ents /\ {ents[i] : i \in 1..n} \subseteq Range(ents)
    <3>1. n \in 0..Len(ents)
      BY <1>4, Zenon
    <3>2. \A k \in Nat : \A j \in 0..k : 1..j \subseteq 1..k
      OBVIOUS
    <3>3. 1..n \subseteq DOMAIN ents
      BY <1>3, <3>1, <3>2, ZenonT(60)
    <3> QED BY <3>1, <3>3, Zenon DEF Range
  <2>3. /\ BufferType' /\ ReadOK' /\ Unconfirmed \subseteq Unconfirmed'
        /\ {ents[i] : i \in 1..n} \subseteq Unconfirmed'
    BY <1>1, <1>2, <2>1, <2>2, WrittenEffect
  <2>4. rItem' = [rItem EXCEPT ![d] = None]
    BY <1>7, Zenon DEF ClearWrite
  <2>5. InHand \subseteq InHand' \cup Range(ents)
    BY <1>1, <1>2, <1>6, <2>4, RelayHand, Zenon
  <2>6. CASE n = Len(ents) /\ tag' = Retag(translate, d, Range(ents)) /\ UNCHANGED <<eq, cut>>
    <3>1. QueuesType' /\ (\A it \in Range(eq') : WellFormed(it)) /\ Queued' = Queued /\ InQueue' = InQueue
      BY <1>1, <1>2, <2>6 DEF QueuesType, Queued, InQueue
    <3>2. tag' \in [Entries -> Tags] /\ cut' \subseteq Entries
      BY <1>2, <2>6, TagTypes, ZenonT(60) DEF WritesType
    <3>3. Data'
      BY <1>1, <1>5, <1>6, <2>3, <2>4, <3>1, <3>2, RelayItemData, Zenon
    <3>4. Range(ents) \subseteq {ents[i] : i \in 1..n}
      BY <1>3, <2>6, ZenonT(60) DEF Range
    <3> QED BY <1>1, <2>3, <2>5, <3>1, <3>3, <3>4, ZenonT(60) DEF Kept, Accounted
  <2>7. CASE UNCHANGED tag /\ eq' = Append(eq, rItem[d]) /\ cut' = cut \cup {ents[i] : i \in 1..n}
    <3>1. eq' \in Seq(ItemType) /\ Range(eq') = Range(eq) \cup {rItem[d]}
      <4>1. eq \in Seq(ItemType) /\ rItem[d] \in ItemType
        BY <1>2, Zenon DEF QueuesType
      <4> QED BY <2>7, <4>1, RangeAppend, ZenonT(60)
    <3>2. QueuesType' /\ (\A it \in Range(eq') : WellFormed(it)) /\ Queued' = Queued
      BY <1>1, <1>2, <3>1 DEF QueuesType, Queued
    <3>3. InQueue' = InQueue \cup Range(ents)
      BY <3>1, Zenon DEF InQueue
    <3>4. tag' \in [Entries -> Tags] /\ cut' \subseteq Entries
      <4>1. Range(ents) \subseteq Entries /\ tag \in [Entries -> Tags] /\ cut \subseteq Entries
        BY <1>2, <1>3, Zenon DEF WritesType
      <4> QED BY <2>2, <2>7, <4>1, Zenon
    <3>5. Data'
      BY <1>1, <1>5, <1>6, <2>3, <2>4, <3>2, <3>4, RelayItemData, Zenon
    <3> QED BY <1>1, <2>3, <2>5, <3>2, <3>3, <3>5, ZenonT(60) DEF Kept, Accounted
  <2> QED BY <2>1, <2>6, <2>7, Zenon
<1>8. CASE RelayWrite(d)
  <2>1. PICK n \in Taken(d, ents) :
          /\ Written(d, ents, n) /\ tag' = Retag(translate, d, {ents[i] : i \in 1..n})
          /\ \/ n = Len(ents) /\ rItem' = [rItem EXCEPT ![d] = None]
             \/ n < Len(ents) /\ rItem' = [rItem EXCEPT ![d].ents = SubSeq(ents, n + 1, Len(ents))]
    BY <1>8, Zenon DEF RelayWrite
  <2>2. n \in 0..Len(ents)
    BY <1>4, <2>1
  <2>3. /\ BufferType' /\ ReadOK' /\ Unconfirmed \subseteq Unconfirmed'
        /\ {ents[i] : i \in 1..n} \subseteq Unconfirmed'
    BY <1>1, <1>2, <2>1, <2>2, WrittenEffect
  <2>4. UNCHANGED <<eq, cut>>
    BY <1>8 DEF RelayWrite, queueVars
  <2>5. QueuesType' /\ (\A it \in Range(eq') : WellFormed(it)) /\ Queued' = Queued /\ InQueue' = InQueue
    BY <1>1, <1>2, <2>4 DEF QueuesType, Queued, InQueue
  <2>6. tag' \in [Entries -> Tags] /\ cut' \subseteq Entries
    BY <1>2, <2>1, <2>4, TagTypes, ZenonT(60) DEF WritesType
  <2>7. CASE n = Len(ents) /\ rItem' = [rItem EXCEPT ![d] = None]
    <3>1. Data'
      BY <1>1, <1>5, <1>6, <2>3, <2>5, <2>6, <2>7, RelayItemData, Zenon
    <3>2. Range(ents) \subseteq {ents[i] : i \in 1..n}
      BY <1>3, <2>7, Zenon DEF Range
    <3>3. InHand \subseteq InHand' \cup Range(ents)
      BY <1>1, <1>2, <1>6, <2>7, RelayHand, Zenon
    <3> QED BY <1>1, <2>3, <2>5, <3>1, <3>2, <3>3 DEF Kept, Accounted
  <2>8. CASE n < Len(ents) /\ rItem' = [rItem EXCEPT ![d].ents = SubSeq(ents, n + 1, Len(ents))]
    <3> DEFINE rest == SubSeq(ents, n + 1, Len(ents))
               x == [rItem[d] EXCEPT !.ents = rest]
    <3>1. /\ rest \in Seq(Entries) /\ Len(rest) = Len(ents) - n
          /\ Range(ents) = {ents[i] : i \in 1..n} \cup Range(rest)
      BY <1>2, <2>2, RangeRest, ZenonT(60)
    <3>2. rItem' = [rItem EXCEPT ![d] = x]
      BY <2>8
    <3> HIDE DEF rest
    <3>3. x \in ItemType /\ x.ents = rest /\ x.single = rItem[d].single
      BY <1>2, <3>1 DEF ItemType
    <3>4. ASSUME x.single
          PROVE  Len(x.ents) = 1
      <4>1. Len(ents) = 1
        BY <1>2, <3>3, <3>4 DEF WellFormed
      <4>2. n = 0
        BY <2>2, <2>8, <4>1
      <4> QED BY <3>1, <3>3, <4>1, <4>2
    <3> HIDE DEF x
    <3>5. WellFormed(x)
      BY <3>4 DEF WellFormed
    <3>6. Data'
      BY <1>1, <1>5, <2>3, <2>5, <2>6, <3>2, <3>3, <3>5, RelayItemData, Zenon
    <3>7. InHand \subseteq InHand' \cup Range(ents) /\ Range(x.ents) \subseteq InHand'
      BY <1>1, <1>2, <3>2, <3>3, RelayHand, Zenon
    <3>8. Range(ents) \subseteq Unconfirmed' \cup InHand'
      BY <2>3, <3>1, <3>3, <3>7
    <3> QED BY <1>1, <2>3, <2>5, <3>6, <3>7, <3>8 DEF Kept, Accounted
  <2> QED BY <2>1, <2>7, <2>8
<1> QED BY <1>7, <1>8

\* A sync, a recycled item, and the end of a connection.
LEMMA RelaySyncData ==
  ASSUME Data, NEW d \in Dests, RelaySync(d) \/ RelayTick(d)
  PROVE  Data' /\ Kept /\ accepted' = accepted
<1>1. /\ UNCHANGED <<state, accepted, tag, queueVars, conn, breaks, rItem, cItem, fatal, cut>>
      /\ Synced(d) \/ UNCHANGED <<ecb, nread, delivered>>
  BY Zenon DEF RelaySync, RelayTick, routineVars
<1>2. state' \in {"running", "closing", "closed"} /\ fatal' \in 0..MaxFatal
  BY <1>1 DEF Data, WritesType
<1>3. CASE UNCHANGED <<ecb, nread, delivered>>
  BY <1>1, <1>2, <1>3, DataFrame
<1>4. CASE Synced(d)
  <2>1. /\ BufferType' /\ ReadOK' /\ delivered' \subseteq Entries /\ delivered \subseteq delivered'
        /\ Unconfirmed \subseteq Unconfirmed' \cup delivered'
    BY <1>4, DataParts, SyncedEffect DEF Data
  <2>2. UNCHANGED <<eChan, bChan, eq>>
    BY <1>1 DEF queueVars
  <2>3. QueuesType' /\ HandsType' /\ ItemsOK' /\ WritesType' /\ ConnsType'
    <3>1. QueuesType' /\ HandsType' /\ ItemsOK'
      BY <1>1, <2>2, Zenon DEF Data, QueuesType, HandsType, ItemsOK
    <3>2. WritesType' /\ ConnsType'
      BY <1>1, <2>1, Zenon DEF Data, WritesType, ConnsType, BufferType
    <3> QED BY <3>1, <3>2
  <2>4. Queued' = Queued /\ InQueue' = InQueue /\ InHand' = InHand
    BY <1>1, <2>2 DEF Queued, InQueue, InHand
  <2> QED BY <1>1, <2>1, <2>3, <2>4, Zenon DEF Data, Kept, Accounted
<1> QED BY <1>1, <1>3, <1>4

LEMMA RelayRecycleData ==
  ASSUME Data, NEW d \in Dests, RelayRecycle(d) \/ RelayRequeue(d)
  PROVE  Data' /\ Kept /\ accepted' = accepted
<1>1. /\ UNCHANGED <<state, accepted, tag, conn, ecb, nread, delivered, breaks, cItem, fatal, cut>>
      /\ rItem' = [rItem EXCEPT ![d] = None]
      /\ recycle(rItem[d]) \/ recycleEjected(rItem[d])
  BY DEF RelayRecycle, RelayRequeue, connVars, routineVars
<1>2. /\ QueuesType /\ HandsType /\ \A it \in Range(eq) : WellFormed(it)
      /\ rItem[d] \in ItemType /\ WellFormed(rItem[d])
  BY DataParts, Zenon DEF Data, ItemsOK
<1>3. /\ QueuesType' /\ \A it \in Range(eq') : WellFormed(it)
      /\ Queued' \cup InQueue' = Queued \cup InQueue \cup Range(rItem[d].ents)
  BY <1>1, <1>2, RecycleEffect, RecycleEjectedEffect
<1>4. None \in ItemType /\ WellFormed(None)
  BY EjectType, Zenon DEF Data
<1>5. BufferType' /\ ReadOK' /\ Unconfirmed' = Unconfirmed
  BY <1>1, DataParts, Zenon DEF Data, BufferType, ReadOK, Unconfirmed, Sent
<1>6. /\ tag' \in [Entries -> Tags] /\ delivered' \subseteq Entries /\ cut' \subseteq Entries
      /\ conn' \in [Dests -> {"none", "up", "broken", "closed"}]
  BY <1>1 DEF Data, WritesType, ConnsType
<1>7. Data'
  BY <1>1, <1>3, <1>4, <1>5, <1>6, RelayItemData, Zenon
<1>8. InHand \subseteq InHand' \cup Range(rItem[d].ents)
  BY <1>1, <1>2, <1>4, RelayHand, Zenon
<1> QED BY <1>1, <1>3, <1>5, <1>7, <1>8 DEF Kept, Accounted

\* EjectInto(), whoever calls it: x is what it leaves with the caller.
LEMMA EjectEffect ==
  ASSUME Data, NEW d \in Dests, NEW x,
         \/ SyncWorks(d) /\ Synced(d) /\ x = None /\ UNCHANGED tag
         \/ /\ x = Item(FALSE, Eject(d)) /\ tag' = Retag(reverse, d, Range(Eject(d)))
            /\ ecb' = [ecb EXCEPT ![d] = <<>>] /\ nread' = [nread EXCEPT ![d] = 0] /\ UNCHANGED delivered
  PROVE  /\ x \in ItemType /\ WellFormed(x) /\ tag' \in [Entries -> Tags]
         /\ BufferType' /\ ReadOK' /\ delivered' \subseteq Entries /\ delivered \subseteq delivered'
         /\ Unconfirmed \subseteq Unconfirmed' \cup delivered' \cup Range(x.ents)
<1>1. BufferType /\ ReadOK /\ delivered \subseteq Entries /\ WritesType /\ ConnsType
  BY DataParts, Zenon DEF Data
<1>2. /\ Range(Eject(d)) = Sent(d)
      /\ Item(FALSE, Eject(d)) \in ItemType /\ WellFormed(Item(FALSE, Eject(d)))
      /\ None \in ItemType /\ WellFormed(None)
  BY <1>1, EjectType, Zenon
<1>3. CASE Synced(d) /\ x = None /\ UNCHANGED tag
  <2>1. /\ BufferType' /\ ReadOK' /\ delivered' \subseteq Entries /\ delivered \subseteq delivered'
        /\ Unconfirmed \subseteq Unconfirmed' \cup delivered'
    BY <1>1, <1>3, SyncedEffect
  <2> QED BY <1>1, <1>2, <1>3, <2>1 DEF WritesType
<1>4. CASE /\ x = Item(FALSE, Eject(d)) /\ tag' = Retag(reverse, d, Range(Eject(d)))
           /\ ecb' = [ecb EXCEPT ![d] = <<>>] /\ nread' = [nread EXCEPT ![d] = 0] /\ UNCHANGED delivered
  <2>1. BufferType' /\ ReadOK' /\ Unconfirmed \subseteq Unconfirmed' \cup Sent(d)
    BY <1>1, <1>4, Emptied, Zenon
  <2>2. x.ents = Eject(d)
    BY <1>4 DEF Item
  <2>3. tag' \in [Entries -> Tags]
    BY <1>1, <1>4, TagTypes, Zenon
  <2> QED BY <1>1, <1>2, <1>4, <2>1, <2>2, <2>3, Zenon
<1> QED BY <1>3, <1>4, Zenon

LEMMA RelayCloseData ==
  ASSUME Data, NEW d \in Dests, HoldsOnly(d), RelayClose(d)
  PROVE  Data' /\ Kept /\ accepted' = accepted
<1>1. /\ UNCHANGED <<state, accepted, eChan, bChan, eq, breaks, cItem, fatal, cut>>
      /\ rPc[d] = "close" /\ conn' = [conn EXCEPT ![d] = "closed"]
  BY DEF RelayClose, queueVars, routineVars
<1>2. PICK x :
        /\ rItem' = [rItem EXCEPT ![d] = x]
        /\ \/ SyncWorks(d) /\ Synced(d) /\ x = None /\ UNCHANGED tag
           \/ /\ x = Item(FALSE, Eject(d)) /\ tag' = Retag(reverse, d, Range(Eject(d)))
              /\ ecb' = [ecb EXCEPT ![d] = <<>>] /\ nread' = [nread EXCEPT ![d] = 0] /\ UNCHANGED delivered
  BY Zenon DEF RelayClose, EjectInto
<1>3. /\ x \in ItemType /\ WellFormed(x) /\ tag' \in [Entries -> Tags]
      /\ BufferType' /\ ReadOK' /\ delivered' \subseteq Entries /\ delivered \subseteq delivered'
      /\ Unconfirmed \subseteq Unconfirmed' \cup delivered' \cup Range(x.ents)
  BY <1>2, EjectEffect, ZenonT(60)
<1>4. /\ QueuesType' /\ (\A it \in Range(eq') : WellFormed(it)) /\ cut' \subseteq Entries
      /\ conn' \in [Dests -> {"none", "up", "broken", "closed"}]
  BY <1>1, Zenon DEF Data, QueuesType, ItemsOK, WritesType, ConnsType
<1>5. Data'
  BY <1>1, <1>2, <1>3, <1>4, RelayItemData, Zenon
<1>6. rItem[d] = None /\ Range(None.ents) = {}
  <2>1. rItem[d] = None
    BY <1>1, Zenon DEF HoldsOnly
  <2>2. None.ents = <<>> /\ Range(<<>>) = {}
    BY DEF None, Item, Range
  <2> QED BY <2>1, <2>2, Zenon
<1>7. InHand \subseteq InHand' \cup Range(rItem[d].ents) /\ Range(x.ents) \subseteq InHand'
  BY <1>1, <1>2, <1>3, RelayHand, Zenon DEF Data
<1>8. Queued' = Queued /\ InQueue' = InQueue
  BY <1>1 DEF Queued, InQueue
<1> QED BY <1>1, <1>3, <1>5, <1>6, <1>7, <1>8, Zenon DEF Kept, Accounted

LEMMA RoutineItemData ==
  ASSUME Data, NEW d \in Dests, NEW x \in ItemType, WellFormed(x),
         cItem' = [cItem EXCEPT ![d] = x], UNCHANGED <<state, accepted, breaks, fatal, rItem, cut>>,
         tag' \in [Entries -> Tags], delivered' \subseteq Entries,
         conn' \in [Dests -> {"none", "up", "broken", "closed"}], BufferType', ReadOK',
         QueuesType', \A it \in Range(eq') : WellFormed(it)
  PROVE  Data'
<1>1. /\ HandsType' /\ \A c \in Dests \ {d} : cItem'[c] = cItem[c]
  BY RoutineHand, ZenonT(60) DEF Data
<1>2. cItem'[d] = x
  BY DEF Data, HandsType
<1>3. ItemsOK'
  BY <1>1, <1>2 DEF ItemsOK, Data
<1>4. WritesType' /\ ConnsType'
  BY DEF Data, WritesType, ConnsType, BufferType
<1> QED BY <1>1, <1>3, <1>4 DEF Data

LEMMA ConnWaitData ==
  ASSUME Data, NEW d \in Dests, HoldsOnly(d), ConnWait(d)
  PROVE  Data' /\ Kept /\ accepted' = accepted
<1>1. /\ UNCHANGED <<state, accepted, eChan, bChan, eq, breaks, rItem, fatal, cut>>
      /\ cPc[d] = "wait" /\ conn' = [conn EXCEPT ![d] = "none"]
  BY DEF ConnWait, queueVars, relayVars
<1>2. PICK x :
        /\ cItem' = [cItem EXCEPT ![d] = x]
        /\ \/ SyncWorks(d) /\ Synced(d) /\ x = None /\ UNCHANGED tag
           \/ /\ x = Item(FALSE, Eject(d)) /\ tag' = Retag(reverse, d, Range(Eject(d)))
              /\ ecb' = [ecb EXCEPT ![d] = <<>>] /\ nread' = [nread EXCEPT ![d] = 0] /\ UNCHANGED delivered
  BY ZenonT(60) DEF ConnWait, EjectInto
<1>3. /\ x \in ItemType /\ WellFormed(x) /\ tag' \in [Entries -> Tags]
      /\ BufferType' /\ ReadOK' /\ delivered' \subseteq Entries /\ delivered \subseteq delivered'
      /\ Unconfirmed \subseteq Unconfirmed' \cup delivered' \cup Range(x.ents)
  BY <1>2, EjectEffect, Zenon
<1>4. /\ QueuesType' /\ (\A it \in Range(eq') : WellFormed(it))
      /\ conn' \in [Dests -> {"none", "up", "broken", "closed"}]
  BY <1>1, Zenon DEF Data, QueuesType, ItemsOK, ConnsType
<1>5. Data'
  BY <1>1, <1>2, <1>3, <1>4, RoutineItemData, Zenon
<1>6. cItem[d] = None /\ Range(None.ents) = {}
  <2>1. cItem[d] = None
    BY <1>1, Zenon DEF HoldsOnly
  <2>2. None.ents = <<>> /\ Range(<<>>) = {}
    BY DEF None, Item, Range
  <2> QED BY <2>1, <2>2, Zenon
<1>7. InHand \subseteq InHand' \cup Range(cItem[d].ents) /\ Range(x.ents) \subseteq InHand'
  BY <1>1, <1>2, <1>3, RoutineHand, ZenonT(60) DEF Data
<1>8. Queued' = Queued /\ InQueue' = InQueue
  BY <1>1 DEF Queued, InQueue
<1> QED BY <1>1, <1>3, <1>5, <1>6, <1>7, <1>8, Zenon DEF Kept, Accounted

LEMMA ConnRequeueData ==
  ASSUME Data, NEW d \in Dests, ConnRequeue(d)
  PROVE  Data' /\ Kept /\ accepted' = accepted
<1>1. /\ UNCHANGED <<state, accepted, tag, conn, ecb, nread, delivered, breaks, rItem, fatal, cut>>
      /\ cItem' = [cItem EXCEPT ![d] = None] /\ recycleEjected(cItem[d])
  BY ZenonT(60) DEF ConnRequeue, connVars, relayVars
<1>2. /\ QueuesType /\ HandsType /\ \A it \in Range(eq) : WellFormed(it)
      /\ cItem[d] \in ItemType /\ WellFormed(cItem[d])
  BY DataParts, Zenon DEF Data, ItemsOK
<1>3. /\ QueuesType' /\ \A it \in Range(eq') : WellFormed(it)
      /\ Queued' \cup InQueue' = Queued \cup InQueue \cup Range(cItem[d].ents)
  BY <1>1, <1>2, RecycleEjectedEffect
<1>4. None \in ItemType /\ WellFormed(None)
  BY EjectType, Zenon DEF Data
<1>5. BufferType' /\ ReadOK' /\ Unconfirmed' = Unconfirmed
  BY <1>1, DataParts, Zenon DEF Data, BufferType, ReadOK, Unconfirmed, Sent
<1>6. /\ tag' \in [Entries -> Tags] /\ delivered' \subseteq Entries
      /\ conn' \in [Dests -> {"none", "up", "broken", "closed"}]
  BY <1>1 DEF Data, WritesType, ConnsType
<1>7. Data'
  BY <1>1, <1>3, <1>4, <1>5, <1>6, RoutineItemData, Zenon
<1>8. InHand \subseteq InHand' \cup Range(cItem[d].ents)
  BY <1>1, <1>2, <1>4, RoutineHand, Zenon
<1> QED BY <1>1, <1>3, <1>5, <1>7, <1>8 DEF Kept, Accounted

LEMMA ConnConnectData ==
  ASSUME Data, NEW d \in Dests, ConnConnect(d)
  PROVE  Data' /\ Kept /\ accepted' = accepted
<1>1. /\ UNCHANGED <<state, accepted, tag, eChan, bChan, eq, ecb, nread, delivered, breaks, rItem, cItem, fatal, cut>>
      /\ conn' = [conn EXCEPT ![d] = "up"]
  BY DEF ConnConnect, queueVars, relayVars
<1>2. UNCHANGED <<Queued, InQueue, InHand, Unconfirmed>>
  BY <1>1 DEF Queued, InQueue, InHand, Unconfirmed, Sent
<1>3. Data'
  BY <1>1 DEF Data, WritesType, QueuesType, ConnsType, HandsType, ItemsOK, ReadOK
<1> QED BY <1>1, <1>2, <1>3 DEF Kept, Accounted

LEMMA CloseDrainData ==
  ASSUME Data, CloseDrain, eq # <<>>
  PROVE  Data' /\ Kept /\ accepted' = accepted
<1> DEFINE h == Head(eq)
<1>1. UNCHANGED <<state, accepted, tag, conn, ecb, nread, delivered, breaks, rItem, cItem, fatal, cut>>
  BY DEF CloseDrain, connVars, relayVars, routineVars
<1>2. QueuesType /\ \A it \in Range(eq) : WellFormed(it)
  BY DEF Data, ItemsOK
<1>3. h \in ItemType /\ Tail(eq) \in Seq(ItemType) /\ Range(eq) = {h} \cup Range(Tail(eq))
  BY <1>2, RangeHeadTail DEF QueuesType
<1>4. WellFormed(h) /\ h.ents \in Seq(Entries) /\ eq' = Tail(eq)
  BY <1>2, <1>3 DEF ItemType, CloseDrain
<1>5. /\ \/ h.single /\ eChan' = Append(eChan, h.ents[1]) /\ UNCHANGED bChan
         \/ ~h.single /\ bChan' = Append(bChan, h.ents) /\ UNCHANGED eChan
  BY DEF CloseDrain
<1> HIDE DEF h
<1>6. (\A it \in Range(eq') : WellFormed(it)) /\ InQueue \subseteq InQueue' \cup Range(h.ents)
  BY <1>2, <1>3, <1>4, Zenon DEF InQueue
<1>7. QueuesType' /\ Queued \subseteq Queued' /\ Range(h.ents) \subseteq Queued'
  <2>1. CASE h.single /\ eChan' = Append(eChan, h.ents[1]) /\ UNCHANGED bChan
    <3>1. h.ents[1] \in Entries /\ Range(h.ents) = {h.ents[1]}
      BY <1>4, <2>1 DEF WellFormed, Range
    <3>2. eChan' \in Seq(Entries) /\ Range(eChan') = Range(eChan) \cup {h.ents[1]}
      BY <1>2, <2>1, <3>1, RangeAppend DEF QueuesType
    <3> QED BY <1>2, <1>3, <1>4, <2>1, <3>1, <3>2 DEF QueuesType, Queued
  <2>2. CASE ~h.single /\ bChan' = Append(bChan, h.ents) /\ UNCHANGED eChan
    <3>1. bChan' \in Seq(Seq(Entries)) /\ Range(bChan') = Range(bChan) \cup {h.ents}
      BY <1>2, <1>4, <2>2, RangeAppend DEF QueuesType
    <3>2. Queued \subseteq Queued' /\ Range(h.ents) \subseteq Queued'
      BY <2>2, <3>1, Zenon DEF Queued
    <3> QED BY <1>2, <1>3, <1>4, <2>2, <3>1, <3>2 DEF QueuesType
  <2> QED BY <1>5, <2>1, <2>2
<1>8. Unconfirmed' = Unconfirmed /\ InHand' = InHand
  BY <1>1 DEF Unconfirmed, Sent, InHand
<1>9. Data'
  BY <1>1, <1>6, <1>7, Zenon DEF Data, WritesType, ConnsType, HandsType, ItemsOK, ReadOK
<1> QED BY <1>1, <1>6, <1>7, <1>8, <1>9 DEF Kept, Accounted

LEMMA DataStep ==
  ASSUME Data, Holds, [Next]_vars
  PROVE  Data' /\ Kept /\ accepted' \subseteq accepted \cup Accounted'
<1> DEFINE Goal == Data' /\ Kept /\ accepted' \subseteq accepted \cup Accounted'
<1>1. state \in {"running", "closing", "closed"} /\ fatal \in 0..MaxFatal /\ MaxFatal \in Nat
  BY MuxerAssumption DEF Data, WritesType
<1>2. ASSUME NEW d \in Dests, Relay(d)
      PROVE  Goal
  <2>1. HoldsOnly(d)
    BY DEF Holds
  <2>2. CASE getNewConnSet(d) \/ RelayDone(d)
    <3>1. UNCHANGED <<state, accepted, tag, queueVars, conn, ecb, nread, delivered, breaks, rItem, cItem, fatal, cut>>
      BY <2>2 DEF getNewConnSet, RelayDone, connVars, routineVars
    <3> QED BY <1>1, <3>1, DataFrame
  <2>3. CASE ClearPop(d) \/ TakeEntry(d) \/ TakeBatch(d)
    BY <2>1, <2>3, TakeData
  <2>4. CASE ClearWrite(d) \/ RelayWrite(d)
    BY <2>4, WriteItemData
  <2>5. CASE RelaySync(d) \/ RelayTick(d)
    BY <2>5, RelaySyncData
  <2>6. CASE RelayRecycle(d) \/ RelayRequeue(d)
    BY <2>6, RelayRecycleData
  <2>7. CASE RelayClose(d)
    BY <2>1, <2>7, RelayCloseData
  <2> QED BY <1>2, <2>2, <2>3, <2>4, <2>5, <2>6, <2>7 DEF Relay
<1>3. ASSUME NEW d \in Dests, Routine(d)
      PROVE  Goal
  <2>1. HoldsOnly(d)
    BY DEF Holds
  <2>2. CASE ConnWait(d)
    BY <2>1, <2>2, ConnWaitData
  <2>3. CASE ConnRequeue(d)
    BY <2>3, ConnRequeueData
  <2>4. CASE ConnConnect(d)
    BY <2>4, ConnConnectData
  <2>5. CASE ConnIdentify(d) \/ ConnFailed(d)
    <3>1. /\ UNCHANGED <<state, accepted, tag, queueVars, conn, ecb, nread, delivered, breaks, rItem, cItem, cut>>
          /\ fatal' = fatal \/ (fatal < MaxFatal /\ fatal' = fatal + 1)
      BY <2>5 DEF ConnIdentify, ConnFailed, connVars, relayVars
    <3>2. fatal' \in 0..MaxFatal
      BY <1>1, <3>1
    <3> QED BY <1>1, <3>1, <3>2, DataFrame, Zenon
  <2> QED BY <1>3, <2>2, <2>3, <2>4, <2>5, Zenon DEF Routine
<1>4. ASSUME NEW d \in Dests, Network(d)
      PROVE  Goal
  BY <1>4, NetworkData, Zenon
<1>5. CASE CloseDrain /\ eq # <<>>
  BY <1>5, CloseDrainData, Zenon
<1>6. CASE CloseCall \/ (CloseDrain /\ eq = <<>>) \/ Finished \/ UNCHANGED vars
  <2>1. /\ UNCHANGED <<accepted, tag, queueVars, conn, ecb, nread, delivered, breaks, rItem, cItem, fatal, cut>>
        /\ state' \in {"running", "closing", "closed"}
    BY <1>1, <1>6 DEF CloseCall, CloseDrain, Finished, vars, connVars, relayVars, routineVars
  <2> QED BY <1>1, <2>1, DataFrame, Zenon
<1>7. CASE (\E e \in Singles : WriteEntry(e)) \/ (\E b \in Blocks : WriteBatch(b))
  BY <1>7, WriteData, Zenon
<1> QED BY <1>2, <1>3, <1>4, <1>5, <1>6, <1>7, Zenon DEF Next
=============================================================================
