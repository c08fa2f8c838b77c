------------------------------- MODULE Muxer -------------------------------
(***************************************************************************)
(* The way of an entry through the IngestMuxer (ingest/muxer.go): the two  *)
(* input channels, for each indexer a connRoutine that makes connections   *)
(* and a writeRelayRoutine that writes to the current one, the emergency   *)
(* queue, and Close() with a cache.                                        *)
(*                                                                         *)
(* A connection is what EntryTransport says of it: unconfirmed entries     *)
(* leave its confirmation buffer in order and only after the indexer has   *)
(* read them.  Entries are pointers: all places that hold an entry see the *)
(* same Tag field.  The cache is not modelled beyond its promise to keep   *)
(* what is in the channels (module ChanCacher).  All tags are known to all *)
(* connections.                                                            *)
(***************************************************************************)
EXTENDS Integers, Sequences, FiniteSets, Functions

CONSTANTS
  Dests,        \* the indexers
  Singles,      \* entries written with WriteEntry()
  Blocks,       \* batches written with WriteBatch(), sequences of entries
  Tags,         \* the tag numbers
  LocalTag,     \* the muxer's tag of an entry
  Remote,       \* the indexer's tag for each tag of the muxer
  ChanCap,      \* capacity of eChan and of bChan
  MaxBreaks,    \* bound on connections that break
  MaxFatal,     \* bound on connections that cannot be made for good
  MayClose      \* whether Close() may be called

Entries == Singles \cup UNION {Range(b) : b \in Blocks}

ASSUME MuxerAssumption ==
  /\ IsFiniteSet(Dests) /\ Blocks \subseteq Seq(Entries) /\ <<>> \notin Blocks
  /\ 0 \in Tags /\ LocalTag \in [Entries -> Tags] /\ Remote \in [Dests -> [Tags -> Tags]]
  /\ \A d \in Dests : \A s, t \in Tags : Remote[d][s] = Remote[d][t] => s = t
  /\ ChanCap \in Nat \ {0} /\ MaxBreaks \in Nat /\ MaxFatal \in Nat /\ MayClose \in BOOLEAN

VARIABLES
  state,              \* of the muxer: "running", "closing" or "closed"
  accepted,           \* history: the entries that a Write call has taken
  tag,                \* the Tag field of each entry
  eChan, bChan, eq,   \* the channels and the emergency queue
  conn,               \* of each indexer: "none", "up", "broken" or "closed"
  ecb,                \* its unconfirmed entries, each with the tag it was sent with
  nread,              \* how many of these the indexer has read
  connHot,
  rPc, rItem, rNext,  \* writeRelayRoutine, what it holds, and what it does after closing
  cPc, cItem,         \* connRoutine and what it holds
  notif, csc,         \* the channels between the two
  delivered,          \* history: the entries that an indexer has read
  cut,                \* history: entries of a block that clear() wrote in part
  breaks, fatal

queueVars == <<eChan, bChan, eq>>
connVars == <<conn, ecb, nread, delivered, breaks>>
relayVars == <<rPc, rItem, rNext>>
routineVars == <<cPc, cItem, connHot, fatal>>
vars == <<state, accepted, tag, queueVars, connVars, relayVars, routineVars, notif, csc, cut>>

\* What recycleEntry(), recycleEntryBatch() and the emergency queue handle.
Item(single, ents) == [single |-> single, ents |-> ents]
None == Item(FALSE, <<>>)

Init ==
  /\ state = "running" /\ accepted = {} /\ tag = LocalTag
  /\ eChan = <<>> /\ bChan = <<>> /\ eq = <<>>
  /\ conn = [d \in Dests |-> "none"] /\ ecb = [d \in Dests |-> <<>>]
  /\ nread = [d \in Dests |-> 0] /\ connHot = 0
  /\ rPc = [d \in Dests |-> "get"] /\ rItem = [d \in Dests |-> None]
  /\ rNext = [d \in Dests |-> "get"]
  /\ cPc = [d \in Dests |-> "wait"] /\ cItem = [d \in Dests |-> None]
  /\ notif = [d \in Dests |-> "token"] /\ csc = [d \in Dests |-> "empty"]
  /\ delivered = {} /\ cut = {} /\ breaks = 0 /\ fatal = 0

-----------------------------------------------------------------------------
\* tagTrans

translate(d, t) == Remote[d][t]
reverse(d, t) == IF \E i \in Tags : Remote[d][i] = t THEN CHOOSE i \in Tags : Remote[d][i] = t ELSE 0

\* The Tag fields after f has been applied to those of the entries in S.
Retag(f(_, _), d, S) == [e \in Entries |-> IF e \in S THEN f(d, tag[e]) ELSE tag[e]]

-----------------------------------------------------------------------------
\* The Write calls.

WriteEntry(e) ==
  /\ state = "running" /\ e \notin accepted /\ Len(eChan) < ChanCap
  /\ eChan' = Append(eChan, e) /\ accepted' = accepted \cup {e}
  /\ UNCHANGED <<state, tag, bChan, eq, connVars, relayVars, routineVars, notif, csc, cut>>

WriteBatch(b) ==
  /\ state = "running" /\ Range(b) \cap accepted = {} /\ Len(bChan) < ChanCap
  /\ bChan' = Append(bChan, b) /\ accepted' = accepted \cup Range(b)
  /\ UNCHANGED <<state, tag, eChan, eq, connVars, relayVars, routineVars, notif, csc, cut>>

-----------------------------------------------------------------------------
\* The connections.

Sent(d) == {x.ent : x \in Range(ecb[d])}

IndexerReads(d) ==
  /\ conn[d] \in {"up", "broken"} /\ nread[d] < Len(ecb[d])
  /\ nread' = [nread EXCEPT ![d] = @ + 1]
  /\ delivered' = delivered \cup {ecb[d][nread[d] + 1].ent}
  /\ UNCHANGED <<state, accepted, tag, queueVars, conn, ecb, breaks, relayVars, routineVars, notif, csc, cut>>

\* An ack is serviced.
Confirm(d) ==
  /\ conn[d] \in {"up", "broken"} /\ nread[d] > 0
  /\ nread' = [nread EXCEPT ![d] = @ - 1]
  /\ ecb' = [ecb EXCEPT ![d] = Tail(@)]
  /\ UNCHANGED <<state, accepted, tag, queueVars, conn, delivered, breaks, relayVars, routineVars, notif, csc, cut>>

Break(d) ==
  /\ conn[d] = "up" /\ breaks < MaxBreaks
  /\ conn' = [conn EXCEPT ![d] = "broken"] /\ breaks' = breaks + 1
  /\ UNCHANGED <<state, accepted, tag, queueVars, ecb, nread, delivered, relayVars, routineVars, notif, csc, cut>>

\* A sync works while the connection does and the muxer has not cancelled its
\* context: every entry is then read and confirmed.
SyncWorks(d) == conn[d] = "up" /\ state = "running"
Synced(d) ==
  /\ delivered' = delivered \cup Sent(d)
  /\ ecb' = [ecb EXCEPT ![d] = <<>>] /\ nread' = [nread EXCEPT ![d] = 0]

\* The first n entries of ents are written: they wait for their acks.
Written(d, ents, n) ==
  ecb' = [ecb EXCEPT ![d] = @ \o [i \in 1..n |-> [ent |-> ents[i], tag |-> translate(d, tag[ents[i]])]]]

\* How many entries of a write are taken: all of them or, when the connection
\* is broken or its context cancelled, possibly only the first few.
Taken(d, ents) == IF conn[d] = "broken" \/ state # "running" THEN 0..Len(ents) ELSE {Len(ents)}

Eject(d) == [i \in DOMAIN ecb[d] |-> ecb[d][i].ent]

-----------------------------------------------------------------------------
\* recycleEntry() and recycleEntryBatch(): back into a channel or, when nothing
\* makes room there in time, into the emergency queue.
recycle(it) ==
  \/ eq' = Append(eq, it) /\ UNCHANGED <<eChan, bChan>>
  \/ /\ it.single /\ Cardinality(Dests) > 1 /\ connHot > 0 /\ Len(eChan) < ChanCap
     /\ eChan' = Append(eChan, it.ents[1]) /\ UNCHANGED <<bChan, eq>>
  \/ /\ ~it.single /\ Len(bChan) < ChanCap
     /\ bChan' = Append(bChan, it.ents) /\ UNCHANGED <<eChan, eq>>

recycleEjected(it) ==
  \/ it.ents = <<>> /\ UNCHANGED queueVars
  \/ it.ents # <<>> /\ recycle(it)

\* The unconfirmed entries of a connection that is closed, after a last sync.
EjectInto(d, item) ==
  IF SyncWorks(d)
    THEN Synced(d) /\ item' = [item EXCEPT ![d] = None] /\ UNCHANGED tag
    ELSE /\ item' = [item EXCEPT ![d] = Item(FALSE, Eject(d))]
         /\ tag' = Retag(reverse, d, Range(Eject(d)))
         /\ ecb' = [ecb EXCEPT ![d] = <<>>] /\ nread' = [nread EXCEPT ![d] = 0]
         /\ UNCHANGED delivered

\* connFailure <- shouldSleep, which does not wait.
Signal(d) == notif' = IF notif[d] = "empty" THEN [notif EXCEPT ![d] = "token"] ELSE notif

-----------------------------------------------------------------------------
\* writeRelayRoutine

getNewConnSet(d) ==
  /\ rPc[d] = "get"
  /\ \/ /\ csc[d] = "conn" /\ csc' = [csc EXCEPT ![d] = "empty"]
        /\ rPc' = [rPc EXCEPT ![d] = "clear"] /\ rNext' = [rNext EXCEPT ![d] = "sync"]
        /\ UNCHANGED notif
     \/ /\ csc[d] = "closed" /\ rPc' = [rPc EXCEPT ![d] = "exit"]
        /\ notif' = [notif EXCEPT ![d] = "closed"] /\ UNCHANGED <<csc, rNext>>
  /\ UNCHANGED <<state, accepted, tag, queueVars, connVars, rItem, routineVars, cut>>

\* eq.clear(), for a new connection or for a tick.
ClearPop(d) ==
  /\ rPc[d] = "clear"
  /\ \/ /\ eq = <<>> /\ rPc' = [rPc EXCEPT ![d] = rNext[d]] /\ UNCHANGED <<eq, rItem>>
     \/ /\ eq # <<>> /\ rPc' = [rPc EXCEPT ![d] = "clearwrite"]
        /\ rItem' = [rItem EXCEPT ![d] = Head(eq)] /\ eq' = Tail(eq)
  /\ UNCHANGED <<state, accepted, tag, eChan, bChan, connVars, rNext, routineVars, notif, csc, cut>>

ClearWrite(d) ==
  /\ rPc[d] = "clearwrite"
  /\ LET ents == rItem[d].ents
     IN \E n \in Taken(d, ents) :
          /\ Written(d, ents, n)
          /\ \/ /\ n = Len(ents) /\ tag' = Retag(translate, d, Range(ents))
                /\ rPc' = [rPc EXCEPT ![d] = "clear"] /\ UNCHANGED <<eq, rNext, notif, cut>>
             \* the tags of the whole block are translated and reversed again
             \/ /\ n < Len(ents) /\ UNCHANGED tag
                /\ eq' = Append(eq, rItem[d]) /\ cut' = cut \cup {ents[i] : i \in 1..n}
                /\ IF rNext[d] = "sync"
                     THEN rPc' = [rPc EXCEPT ![d] = "get"] /\ Signal(d) /\ UNCHANGED rNext
                     ELSE /\ rPc' = [rPc EXCEPT ![d] = "close"]
                          /\ rNext' = [rNext EXCEPT ![d] = "get"] /\ UNCHANGED notif
  /\ rItem' = [rItem EXCEPT ![d] = None]
  /\ UNCHANGED <<state, accepted, eChan, bChan, conn, nread, delivered, breaks, routineVars, csc>>

\* Mutant: without the "continue", a connection that fails its first sync is used.
RelaySyncNoContinue(d) ==
  /\ rPc[d] = "sync" /\ rPc' = [rPc EXCEPT ![d] = "loop"]
  /\ \/ SyncWorks(d) /\ Synced(d) /\ UNCHANGED notif
     \/ ~SyncWorks(d) /\ Signal(d) /\ UNCHANGED <<ecb, nread, delivered>>
  /\ UNCHANGED <<state, accepted, tag, queueVars, conn, breaks, rItem, rNext, routineVars, csc, cut>>

RelaySync(d) ==
  /\ rPc[d] = "sync"
  /\ \/ SyncWorks(d) /\ Synced(d) /\ rPc' = [rPc EXCEPT ![d] = "loop"] /\ UNCHANGED notif
     \/ /\ ~SyncWorks(d) /\ Signal(d) /\ rPc' = [rPc EXCEPT ![d] = "get"]
        /\ UNCHANGED <<ecb, nread, delivered>>
  /\ UNCHANGED <<state, accepted, tag, queueVars, conn, breaks, rItem, rNext, routineVars, csc, cut>>

\* inputLoop: an entry or a batch is taken and written.
TakeEntry(d) ==
  /\ rPc[d] = "loop" /\ eChan # <<>>
  /\ rItem' = [rItem EXCEPT ![d] = Item(TRUE, <<Head(eChan)>>)] /\ eChan' = Tail(eChan)
  /\ rPc' = [rPc EXCEPT ![d] = "write"]
  /\ UNCHANGED <<state, accepted, tag, bChan, eq, connVars, rNext, routineVars, notif, csc, cut>>

TakeBatch(d) ==
  /\ rPc[d] = "loop" /\ bChan # <<>>
  /\ rItem' = [rItem EXCEPT ![d] = Item(FALSE, Head(bChan))] /\ bChan' = Tail(bChan)
  /\ rPc' = [rPc EXCEPT ![d] = "write"]
  /\ UNCHANGED <<state, accepted, tag, eChan, eq, connVars, rNext, routineVars, notif, csc, cut>>

\* Mutant: one entry too few is recycled after a failed write.
RelayWriteSkips(d) ==
  /\ rPc[d] = "write"
  /\ LET ents == rItem[d].ents
     IN \E n \in Taken(d, ents) :
          /\ Written(d, ents, n)
          /\ tag' = Retag(translate, d, {ents[i] : i \in 1..n})
          /\ \/ /\ n >= Len(ents) - 1
                /\ rItem' = [rItem EXCEPT ![d] = None] /\ rPc' = [rPc EXCEPT ![d] = "loop"]
             \/ /\ n < Len(ents) - 1
                /\ rItem' = [rItem EXCEPT ![d].ents = SubSeq(ents, n + 2, Len(ents))]
                /\ rPc' = [rPc EXCEPT ![d] = "recycle"]
  /\ UNCHANGED <<state, accepted, queueVars, conn, nread, delivered, breaks, rNext, routineVars, notif, csc, cut>>

\* Mutant: the entries that were not written keep the indexer's tag.
RelayWriteNoReverse(d) ==
  /\ rPc[d] = "write"
  /\ LET ents == rItem[d].ents
     IN \E n \in Taken(d, ents) :
          /\ Written(d, ents, n)
          /\ tag' = Retag(translate, d, Range(ents))
          /\ \/ /\ n = Len(ents)
                /\ rItem' = [rItem EXCEPT ![d] = None] /\ rPc' = [rPc EXCEPT ![d] = "loop"]
             \/ /\ n < Len(ents)
                /\ rItem' = [rItem EXCEPT ![d].ents = SubSeq(ents, n + 1, Len(ents))]
                /\ rPc' = [rPc EXCEPT ![d] = "recycle"]
  /\ UNCHANGED <<state, accepted, queueVars, conn, nread, delivered, breaks, rNext, routineVars, notif, csc, cut>>

RelayWrite(d) ==
  /\ rPc[d] = "write"
  /\ LET ents == rItem[d].ents
     IN \E n \in Taken(d, ents) :
          /\ Written(d, ents, n)
          /\ tag' = Retag(translate, d, {ents[i] : i \in 1..n})
          /\ \/ /\ n = Len(ents)
                /\ rItem' = [rItem EXCEPT ![d] = None] /\ rPc' = [rPc EXCEPT ![d] = "loop"]
             \/ /\ n < Len(ents)
                /\ rItem' = [rItem EXCEPT ![d].ents = SubSeq(ents, n + 1, Len(ents))]
                /\ rPc' = [rPc EXCEPT ![d] = "recycle"]
  /\ UNCHANGED <<state, accepted, queueVars, conn, nread, delivered, breaks, rNext, routineVars, notif, csc, cut>>

RelayRecycle(d) ==
  /\ rPc[d] = "recycle"
  /\ recycle(rItem[d]) /\ rItem' = [rItem EXCEPT ![d] = None]
  /\ rPc' = [rPc EXCEPT ![d] = "close"] /\ rNext' = [rNext EXCEPT ![d] = "get"]
  /\ UNCHANGED <<state, accepted, tag, connVars, routineVars, notif, csc, cut>>

\* Mutant: the emergency queue is only cleared into new connections.
RelayTickNoClear(d) ==
  /\ rPc[d] = "loop"
  /\ \/ SyncWorks(d) /\ Synced(d) /\ UNCHANGED <<rPc, rNext>>
     \/ /\ ~SyncWorks(d) /\ UNCHANGED <<ecb, nread, delivered>>
        /\ rPc' = [rPc EXCEPT ![d] = "close"] /\ rNext' = [rNext EXCEPT ![d] = "get"]
  /\ UNCHANGED <<state, accepted, tag, queueVars, conn, breaks, rItem, routineVars, notif, csc, cut>>

RelayTick(d) ==
  /\ rPc[d] = "loop"
  /\ \/ /\ SyncWorks(d) /\ Synced(d)
        /\ rPc' = [rPc EXCEPT ![d] = "clear"] /\ rNext' = [rNext EXCEPT ![d] = "loop"]
     \/ /\ ~SyncWorks(d) /\ UNCHANGED <<ecb, nread, delivered>>
        /\ rPc' = [rPc EXCEPT ![d] = "close"] /\ rNext' = [rNext EXCEPT ![d] = "get"]
  /\ UNCHANGED <<state, accepted, tag, queueVars, conn, breaks, rItem, routineVars, notif, csc, cut>>

RelayDone(d) ==
  /\ rPc[d] = "loop" /\ state # "running"
  /\ rPc' = [rPc EXCEPT ![d] = "close"] /\ rNext' = [rNext EXCEPT ![d] = "exit"]
  /\ UNCHANGED <<state, accepted, tag, queueVars, connVars, rItem, routineVars, notif, csc, cut>>

\* syncAndCloseConnection()
RelayClose(d) ==
  /\ rPc[d] = "close"
  /\ EjectInto(d, rItem) /\ conn' = [conn EXCEPT ![d] = "closed"]
  /\ rPc' = [rPc EXCEPT ![d] = "requeue"]
  /\ UNCHANGED <<state, accepted, queueVars, breaks, rNext, routineVars, notif, csc, cut>>

RelayRequeue(d) ==
  /\ rPc[d] = "requeue"
  /\ recycleEjected(rItem[d]) /\ rItem' = [rItem EXCEPT ![d] = None]
  /\ rPc' = [rPc EXCEPT ![d] = rNext[d]]
  /\ IF rNext[d] = "get" THEN Signal(d) ELSE notif' = [notif EXCEPT ![d] = "closed"]
  /\ UNCHANGED <<state, accepted, tag, connVars, rNext, routineVars, csc, cut>>

-----------------------------------------------------------------------------
\* connRoutine

ConnWait(d) ==
  /\ cPc[d] = "wait" /\ notif[d] # "empty"
  /\ notif' = IF notif[d] = "token" THEN [notif EXCEPT ![d] = "empty"] ELSE notif
  /\ EjectInto(d, cItem) /\ conn' = [conn EXCEPT ![d] = "none"]
  /\ connHot' = IF conn[d] = "none" THEN connHot ELSE connHot - 1
  /\ cPc' = [cPc EXCEPT ![d] = "requeue"]
  /\ UNCHANGED <<state, accepted, queueVars, breaks, relayVars, fatal, csc, cut>>

ConnRequeue(d) ==
  /\ cPc[d] = "requeue"
  /\ recycleEjected(cItem[d]) /\ cItem' = [cItem EXCEPT ![d] = None]
  /\ \/ /\ notif[d] = "closed" /\ cPc' = [cPc EXCEPT ![d] = "exit"]
        /\ csc' = [csc EXCEPT ![d] = "closed"]
     \/ notif[d] # "closed" /\ cPc' = [cPc EXCEPT ![d] = "connect"] /\ UNCHANGED csc
  /\ UNCHANGED <<state, accepted, tag, connVars, relayVars, connHot, fatal, notif, cut>>

\* getConnection() up to IdentifyIngester(), which fails once the muxer closes.
ConnIdentify(d) ==
  /\ cPc[d] = "connect" /\ state = "running" /\ cPc' = [cPc EXCEPT ![d] = "identified"]
  /\ UNCHANGED <<state, accepted, tag, queueVars, connVars, relayVars, cItem, connHot, fatal, notif, csc, cut>>

\* The rest of it, which gives a connection even if the muxer closes meanwhile.
ConnConnect(d) ==
  /\ cPc[d] = "identified"
  /\ conn' = [conn EXCEPT ![d] = "up"] /\ connHot' = connHot + 1
  /\ csc' = [csc EXCEPT ![d] = "conn"] /\ cPc' = [cPc EXCEPT ![d] = "wait"]
  /\ UNCHANGED <<state, accepted, tag, queueVars, ecb, nread, delivered, breaks, relayVars, cItem, fatal, notif, cut>>

\* getConnection() fails for good: the muxer closes, or the error is fatal.
ConnFailed(d) ==
  /\ cPc[d] \in {"connect", "identified"}
  /\ \/ state # "running" /\ UNCHANGED fatal
     \/ state = "running" /\ fatal < MaxFatal /\ fatal' = fatal + 1
  /\ csc' = [csc EXCEPT ![d] = "closed"] /\ cPc' = [cPc EXCEPT ![d] = "exit"]
  /\ UNCHANGED <<state, accepted, tag, queueVars, connVars, relayVars, cItem, connHot, notif, cut>>

-----------------------------------------------------------------------------
\* Close(), with a cache: what is in the channels then is committed to disk.

CloseCall ==
  /\ MayClose /\ state = "running" /\ state' = "closing"
  /\ UNCHANGED <<accepted, tag, queueVars, connVars, relayVars, routineVars, notif, csc, cut>>

\* Mutant: Close() commits the channels without the emergency queue.
CloseDrainNot ==
  /\ state = "closing" /\ \A d \in Dests : cPc[d] = "exit"
  /\ state' = "closed"
  /\ UNCHANGED <<accepted, tag, queueVars, connVars, relayVars, routineVars, notif, csc, cut>>

CloseDrain ==
  /\ state = "closing" /\ \A d \in Dests : cPc[d] = "exit"
  /\ \/ eq = <<>> /\ state' = "closed" /\ UNCHANGED queueVars
     \/ /\ eq # <<>> /\ Head(eq).single
        /\ eChan' = Append(eChan, Head(eq).ents[1]) /\ eq' = Tail(eq) /\ UNCHANGED <<state, bChan>>
     \/ /\ eq # <<>> /\ ~Head(eq).single
        /\ bChan' = Append(bChan, Head(eq).ents) /\ eq' = Tail(eq) /\ UNCHANGED <<state, eChan>>
  /\ UNCHANGED <<accepted, tag, connVars, relayVars, routineVars, notif, csc, cut>>

-----------------------------------------------------------------------------
Relay(d) ==
  \/ getNewConnSet(d) \/ ClearPop(d) \/ ClearWrite(d) \/ RelaySync(d)
  \/ TakeEntry(d) \/ TakeBatch(d) \/ RelayWrite(d) \/ RelayRecycle(d)
  \/ RelayTick(d) \/ RelayDone(d) \/ RelayClose(d) \/ RelayRequeue(d)

Routine(d) == ConnWait(d) \/ ConnRequeue(d) \/ ConnIdentify(d) \/ ConnConnect(d) \/ ConnFailed(d)

Network(d) == IndexerReads(d) \/ Confirm(d) \/ Break(d)

Finished == state = "closed" /\ UNCHANGED vars

Next ==
  \/ \E e \in Singles : WriteEntry(e)
  \/ \E b \in Blocks : WriteBatch(b)
  \/ \E d \in Dests : Relay(d) \/ Routine(d) \/ Network(d)
  \/ CloseCall \/ CloseDrain \/ Finished

Spec == Init /\ [][Next]_vars

\* The goroutines are scheduled, and a select that finds a channel ready over
\* and over takes from it at some point.
Fairness ==
  /\ \A d \in Dests : /\ WF_vars(Relay(d)) /\ WF_vars(Routine(d))
                      /\ SF_vars(TakeEntry(d)) /\ SF_vars(TakeBatch(d))
  /\ WF_vars(CloseDrain)

FairSpec == Spec /\ Fairness

-----------------------------------------------------------------------------
ItemType == [single : BOOLEAN, ents : Seq(Entries)]
SentType == [ent : Entries, tag : Tags]

\* The types of the muxer's state; a channel only exceeds its capacity once
\* the cache takes everything that Close() drains into it.
TypeOK ==
  /\ state \in {"running", "closing", "closed"}
  /\ accepted \subseteq Entries /\ tag \in [Entries -> Tags]
  /\ eChan \in Seq(Entries) /\ bChan \in Seq(Seq(Entries)) /\ eq \in Seq(ItemType)
  /\ conn \in [Dests -> {"none", "up", "broken", "closed"}]
  /\ ecb \in [Dests -> Seq(SentType)] /\ nread \in [Dests -> Nat]
  /\ connHot \in 0..Cardinality(Dests)
  /\ rPc \in [Dests -> {"get", "clear", "clearwrite", "sync", "loop", "write", "recycle",
                        "close", "requeue", "exit"}]
  /\ rNext \in [Dests -> {"get", "sync", "loop", "exit"}]
  /\ rItem \in [Dests -> ItemType] /\ cItem \in [Dests -> ItemType]
  /\ cPc \in [Dests -> {"wait", "requeue", "connect", "identified", "exit"}]
  /\ notif \in [Dests -> {"empty", "token", "closed"}]
  /\ csc \in [Dests -> {"empty", "conn", "closed"}]
  /\ delivered \subseteq Entries /\ cut \subseteq Entries
  /\ breaks \in 0..MaxBreaks /\ fatal \in 0..MaxFatal

Queued == Range(eChan) \cup UNION {Range(b) : b \in Range(bChan)}
InQueue == UNION {Range(it.ents) : it \in Range(eq)}
InHand == UNION {Range(rItem[d].ents) \cup Range(cItem[d].ents) : d \in Dests}
Unconfirmed == UNION {Sent(d) : d \in Dests}

\* An entry that a Write call has accepted has been read by an indexer or is
\* still held somewhere: in a channel, in the emergency queue, by a relay or
\* a connection routine, or unconfirmed in a connection, whatever connections
\* fail and however the two routines of a connection share the cleaning up.
NothingLost == accepted \subseteq delivered \cup Queued \cup InQueue \cup InHand \cup Unconfirmed

\* After Close() the entries no indexer has read are in the channels that
\* the cache commits to disk.
ClosedKeepsAll == state = "closed" => accepted \subseteq delivered \cup Queued

\* An entry is sent with the indexer's tag for its own tag, and waits in the
\* queues with the muxer's tag, unless clear() wrote part of its block.
TagsRight ==
  /\ \A d \in Dests : \A x \in Range(ecb[d]) : x.ent \in cut \/ x.tag = Remote[d][LocalTag[x.ent]]
  /\ \A e \in Queued \cup InQueue : e \in cut \/ tag[e] = LocalTag[e]

\* "this is unexpected": a relay that writes never finds a new connection, or
\* the end of them, in its channel, and always has room to signal a failure.
OneConnAtATime ==
  \A d \in Dests : rPc[d] \notin {"get", "exit"} => csc[d] = "empty" /\ notif[d] = "empty"

\* Every accepted entry gets to an indexer when connections stop breaking,
\* unless the muxer is closed.
EventuallyDelivered ==
  \A e \in Entries : e \in accepted ~> (e \in delivered \/ state # "running")
=============================================================================
