---------------------------- MODULE MuxerProofs ----------------------------
(***************************************************************************)
(* What is proved of Muxer for any number of indexers, entries, tags, and  *)
(* breaking connections: entries are never lost, Close() keeps them all,   *)
(* the two routines of a connection hand it over one at a time, connHot    *)
(* counts the connections, and the state keeps its types.                  *)
(***************************************************************************)
EXTENDS MuxerDataProofs, FiniteSetTheorems

-----------------------------------------------------------------------------
\* The inductive invariant.
IInv ==
  /\ Types /\ Handshakes /\ Holds /\ ItemsOK /\ ReadOK /\ AfterClose /\ NothingLost

-----------------------------------------------------------------------------
\* When they hold it.

HoldTypes == PlacesType /\ ConnsType /\ HandsType

LEMMA HoldsStep ==
  ASSUME HoldTypes, Handshakes, Holds, [Next]_vars
  PROVE  Holds'
<1> USE DEF HoldTypes, PlacesType, ConnsType, HandsType
<1> DEFINE Same(c) == /\ rPc'[c] = rPc[c] /\ rItem'[c] = rItem[c] /\ csc'[c] = csc[c]
                      /\ conn'[c] = conn[c] /\ ecb'[c] = ecb[c]
                      /\ cPc'[c] = cPc[c] /\ cItem'[c] = cItem[c]
<1>0. ASSUME NEW d \in Dests, HoldsOnly(d)', \A c \in Dests \ {d} : Same(c)
      PROVE  Holds'
  <2>1. ASSUME NEW c \in Dests \ {d}
        PROVE  HoldsOnly(c)'
    <3>1. HoldsOnly(c) /\ Same(c)
      BY <1>0, Zenon DEF Holds
    <3> QED BY <3>1, Zenon DEF HoldsOnly
  <2> QED BY <1>0, <2>1, Zenon DEF Holds
<1>1. CASE UNCHANGED <<rPc, rItem, cPc, cItem, conn, ecb, csc>>
  <2>1. ASSUME NEW c \in Dests
        PROVE  HoldsOnly(c)'
    <3>1. HoldsOnly(c)
      BY Zenon DEF Holds
    <3> QED BY <1>1, <3>1, Zenon DEF HoldsOnly
  <2> QED BY <2>1, Zenon DEF Holds
<1>2. ASSUME NEW d \in Dests, Relay(d)
      PROVE  Holds'
  <2>1. \A c \in Dests \ {d} : Same(c)
    <3>1. CASE getNewConnSet(d)
      BY <3>1 DEF getNewConnSet, routineVars, connVars
    <3>2. CASE ClearPop(d)
      BY <3>2 DEF ClearPop, routineVars, connVars
    <3>3. CASE ClearWrite(d)
      <4>1. /\ UNCHANGED <<conn, csc, cPc, cItem>> /\ rItem' = [rItem EXCEPT ![d] = None]
            /\ \E p \in {"clear", "get", "close"} : rPc' = [rPc EXCEPT ![d] = p]
            /\ \E b : ecb' = [ecb EXCEPT ![d] = b]
        BY <3>3, Zenon DEF ClearWrite, routineVars, Written
      <4> QED BY <4>1
    <3>4. CASE RelaySync(d)
      BY <3>4 DEF RelaySync, routineVars, Synced
    <3>5. CASE TakeEntry(d)
      BY <3>5 DEF TakeEntry, routineVars, connVars
    <3>6. CASE TakeBatch(d)
      BY <3>6 DEF TakeBatch, routineVars, connVars
    <3>7. CASE RelayWrite(d)
      BY <3>7 DEF RelayWrite, routineVars, Written
    <3>8. CASE RelayRecycle(d)
      BY <3>8 DEF RelayRecycle, routineVars, connVars
    <3>9. CASE RelayTick(d)
      BY <3>9 DEF RelayTick, routineVars, Synced
    <3>10. CASE RelayDone(d)
      BY <3>10 DEF RelayDone, routineVars, connVars
    <3>11. CASE RelayClose(d)
      <4>1. /\ UNCHANGED <<csc, cPc, cItem>> /\ rPc' = [rPc EXCEPT ![d] = "requeue"]
            /\ conn' = [conn EXCEPT ![d] = "closed"] /\ ecb' = [ecb EXCEPT ![d] = <<>>]
            /\ \E x : rItem' = [rItem EXCEPT ![d] = x]
        BY <3>11, Zenon DEF RelayClose, routineVars, EjectInto, Synced
      <4> QED BY <4>1
    <3>12. CASE RelayRequeue(d)
      BY <3>12 DEF RelayRequeue, routineVars, connVars
    <3> QED BY <1>2, <3>1, <3>2, <3>3, <3>4, <3>5, <3>6, <3>7, <3>8, <3>9, <3>10, <3>11, <3>12, ZenonT(60) DEF Relay
  <2>2. HoldsOnly(d)'
    <3>1. CASE getNewConnSet(d)
      BY <3>1, ZenonT(60) DEF Holds, HoldsOnly, Handshakes, Handshake, getNewConnSet, routineVars, connVars
    <3>2. CASE ClearPop(d)
      <4>1. /\ UNCHANGED <<conn, ecb, csc, cPc, cItem>> /\ rPc[d] = "clear"
            /\ \/ rPc' = [rPc EXCEPT ![d] = rNext[d]] /\ UNCHANGED rItem
               \/ rPc' = [rPc EXCEPT ![d] = "clearwrite"]
        BY <3>2, Zenon DEF ClearPop, routineVars, connVars
      <4>2. rNext[d] \in {"sync", "loop"} /\ HoldsOnly(d)
        BY <4>1, Zenon DEF Handshakes, Handshake, Holds
      <4> QED BY <4>1, <4>2 DEF HoldsOnly
    <3>3. CASE ClearWrite(d)
      <4>1. /\ UNCHANGED <<conn, csc, cPc, cItem>> /\ rPc[d] = "clearwrite"
            /\ rItem' = [rItem EXCEPT ![d] = None]
            /\ \E p \in {"clear", "get", "close"} : rPc' = [rPc EXCEPT ![d] = p]
        BY <3>3, Zenon DEF ClearWrite, routineVars
      <4>2. HoldsOnly(d) /\ conn[d] # "none"
        BY <4>1, Zenon DEF Holds, HoldsOnly
      <4> QED BY <4>1, <4>2 DEF HoldsOnly
    <3>4. CASE RelaySync(d)
      BY <3>4, Zenon DEF Holds, HoldsOnly, Handshakes, Handshake, RelaySync, routineVars, Synced
    <3>5. CASE TakeEntry(d)
      BY <3>5, ZenonT(60) DEF Holds, HoldsOnly, Handshakes, Handshake, TakeEntry, routineVars, connVars
    <3>6. CASE TakeBatch(d)
      BY <3>6, ZenonT(60) DEF Holds, HoldsOnly, Handshakes, Handshake, TakeBatch, routineVars, connVars
    <3>7. CASE RelayWrite(d)
      <4>1. /\ UNCHANGED <<conn, csc, cPc, cItem>> /\ rPc[d] = "write"
            /\ \/ rItem' = [rItem EXCEPT ![d] = None] /\ rPc' = [rPc EXCEPT ![d] = "loop"]
               \/ rPc' = [rPc EXCEPT ![d] = "recycle"]
        BY <3>7, Zenon DEF RelayWrite, routineVars
      <4>2. HoldsOnly(d) /\ conn[d] # "none"
        BY <4>1, Zenon DEF Holds, HoldsOnly
      <4> QED BY <4>1, <4>2 DEF HoldsOnly
    <3>8. CASE RelayRecycle(d)
      BY <3>8, ZenonT(60) DEF Holds, HoldsOnly, Handshakes, Handshake, RelayRecycle, routineVars, connVars
    <3>9. CASE RelayTick(d)
      BY <3>9, Zenon DEF Holds, HoldsOnly, Handshakes, Handshake, RelayTick, routineVars, Synced
    <3>10. CASE RelayDone(d)
      BY <3>10, Zenon DEF Holds, HoldsOnly, Handshakes, Handshake, RelayDone, routineVars, connVars
    <3>11. CASE RelayClose(d)
      BY <3>11, ZenonT(60) DEF Holds, HoldsOnly, Handshakes, Handshake, RelayClose, routineVars, EjectInto, Synced
    <3>12. CASE RelayRequeue(d)
      BY <3>12, Zenon DEF Holds, HoldsOnly, Handshakes, Handshake, RelayRequeue, routineVars, connVars
    <3> QED BY <1>2, <3>1, <3>2, <3>3, <3>4, <3>5, <3>6, <3>7, <3>8, <3>9, <3>10, <3>11, <3>12, Zenon DEF Relay
  <2> QED BY <1>0, <2>1, <2>2, Zenon
<1>3. ASSUME NEW d \in Dests, Routine(d)
      PROVE  Holds'
  <2>1. CASE ConnWait(d)
    <3>1. /\ UNCHANGED <<rPc, rItem, csc>> /\ notif[d] # "empty" /\ cPc' = [cPc EXCEPT ![d] = "requeue"]
          /\ conn' = [conn EXCEPT ![d] = "none"] /\ cPc[d] = "wait"
          /\ ecb' = [ecb EXCEPT ![d] = <<>>]
          /\ \E x : cItem' = [cItem EXCEPT ![d] = x]
      BY <2>1, Zenon DEF ConnWait, relayVars, EjectInto, Synced
    <3>2. rPc[d] \in {"get", "exit"} /\ csc[d] # "conn"
      BY <3>1, Zenon DEF Handshakes, Handshake
    <3>3. HoldsOnly(d)
      BY Zenon DEF Holds
    <3>4. HoldsOnly(d)'
      BY <3>1, <3>2, <3>3 DEF HoldsOnly
    <3>5. \A c \in Dests \ {d} : Same(c)
      BY <3>1
    <3> QED BY <1>0, <3>4, <3>5, Zenon
  <2>2. CASE ConnRequeue(d)
    <3>1. /\ UNCHANGED <<rPc, rItem, conn, ecb>> /\ cPc[d] = "requeue" /\ cItem' = [cItem EXCEPT ![d] = None]
          /\ \E p \in {"exit", "connect"} : cPc' = [cPc EXCEPT ![d] = p]
          /\ csc' = [csc EXCEPT ![d] = "closed"] \/ UNCHANGED csc
      BY <2>2, Zenon DEF ConnRequeue, connVars, relayVars
    <3>2. HoldsOnly(d)
      BY Zenon DEF Holds
    <3>3. HoldsOnly(d)'
      BY <3>1, <3>2 DEF HoldsOnly
    <3>4. \A c \in Dests \ {d} : Same(c)
      BY <3>1
    <3> QED BY <1>0, <3>3, <3>4, Zenon
  <2>3. CASE ConnIdentify(d)
    BY <2>3 DEF ConnIdentify, connVars, relayVars, Holds, HoldsOnly
  <2>4. CASE ConnConnect(d)
    BY <2>4 DEF ConnConnect, relayVars, Holds, HoldsOnly
  <2>5. CASE ConnFailed(d)
    <3>1. /\ UNCHANGED <<rPc, rItem, conn, ecb, cItem>> /\ cPc[d] \in {"connect", "identified"}
          /\ cPc' = [cPc EXCEPT ![d] = "exit"] /\ csc' = [csc EXCEPT ![d] = "closed"]
      BY <2>5, Zenon DEF ConnFailed, connVars, relayVars
    <3>2. HoldsOnly(d)
      BY Zenon DEF Holds
    <3>3. HoldsOnly(d)'
      BY <3>1, <3>2 DEF HoldsOnly
    <3>4. \A c \in Dests \ {d} : Same(c)
      BY <3>1
    <3> QED BY <1>0, <3>3, <3>4, Zenon
  <2> QED BY <1>3, <2>1, <2>2, <2>3, <2>4, <2>5, Zenon DEF Routine
<1>4. ASSUME NEW d \in Dests, Network(d)
      PROVE  Holds'
  <2>1. CASE IndexerReads(d)
    BY <1>1, <2>1, Zenon DEF IndexerReads, relayVars, routineVars
  <2>2. CASE Confirm(d)
    <3>1. UNCHANGED <<rPc, rItem, cPc, cItem, conn, csc>> /\ conn[d] # "none" /\ ecb' = [ecb EXCEPT ![d] = Tail(ecb[d])]
      BY <2>2, Zenon DEF Confirm, relayVars, routineVars
    <3>2. \A c \in Dests : conn[c] = "none" => ecb'[c] = <<>>
      <4>1. \A c \in Dests \ {d} : ecb'[c] = ecb[c]
        BY <3>1
      <4> QED BY <3>1, <4>1, Zenon DEF Holds, HoldsOnly
    <3> QED BY <3>1, <3>2, Zenon DEF Holds, HoldsOnly
  <2>3. CASE Break(d)
    BY <2>3 DEF Break, relayVars, routineVars, Holds, HoldsOnly
  <2> QED BY <1>4, <2>1, <2>2, <2>3, Zenon DEF Network
<1>5. CASE CloseCall \/ CloseDrain \/ Finished \/ UNCHANGED vars
  BY <1>1, <1>5, Zenon DEF CloseCall, CloseDrain, Finished, vars, connVars, relayVars, routineVars
<1>6. ASSUME NEW e, WriteEntry(e) \/ WriteBatch(e)
      PROVE  Holds'
  BY <1>1, <1>6, Zenon DEF WriteEntry, WriteBatch, connVars, relayVars, routineVars
<1> QED BY <1>2, <1>3, <1>4, <1>5, <1>6, Zenon DEF Next

-----------------------------------------------------------------------------
\* After Close() every relay is gone, or only finds its channel closed.

LEMMA AfterCloseStep ==
  ASSUME HoldTypes, QueuesType, Handshakes, AfterClose, [Next]_vars
  PROVE  AfterClose'
<1>1. SUFFICES ASSUME state' = "closed"
               PROVE  eq' = <<>> /\ \A d \in Dests : cPc'[d] = "exit"
  BY Zenon DEF AfterClose
<1>2. CASE CloseDrain
  BY <1>1, <1>2, Zenon DEF CloseDrain, AfterClose, queueVars, routineVars
<1>3. CASE UNCHANGED <<state, eq, cPc>>
  BY <1>1, <1>3, Zenon DEF AfterClose
<1>4. ASSUME NEW d \in Dests, Relay(d)
      PROVE  UNCHANGED <<state, eq, cPc>>
  <2>1. UNCHANGED state
    BY <1>4, Zenon DEF Relay, getNewConnSet, ClearPop, ClearWrite, RelaySync, TakeEntry, TakeBatch,
       RelayWrite, RelayRecycle, RelayTick, RelayDone, RelayClose, RelayRequeue
  <2>2. cPc[d] = "exit"
    BY <1>1, <2>1, Zenon DEF AfterClose
  <2>3. rPc[d] \in {"get", "exit"}
    BY <2>2, Zenon DEF Handshakes, Handshake
  <2>4. getNewConnSet(d)
    BY <1>4, <2>3, ZenonT(60) DEF Relay, ClearPop, ClearWrite, RelaySync, TakeEntry, TakeBatch,
       RelayWrite, RelayRecycle, RelayTick, RelayDone, RelayClose, RelayRequeue
  <2> QED BY <2>4 DEF getNewConnSet, queueVars, routineVars
<1>5. ASSUME NEW d \in Dests, Routine(d)
      PROVE  FALSE
  <2>1. UNCHANGED state
    BY <1>5, Zenon DEF Routine, ConnWait, ConnRequeue, ConnIdentify, ConnConnect, ConnFailed
  <2>2. cPc[d] = "exit"
    BY <1>1, <2>1, Zenon DEF AfterClose
  <2> QED BY <1>5, <2>2, Zenon DEF Routine, ConnWait, ConnRequeue, ConnIdentify, ConnConnect, ConnFailed
<1>6. ASSUME NEW d \in Dests, Network(d)
      PROVE  UNCHANGED <<state, eq, cPc>>
  BY <1>6, ZenonT(60) DEF Network, IndexerReads, Confirm, Break, queueVars, routineVars
<1>7. CASE CloseCall \/ Finished \/ UNCHANGED vars
  BY <1>1, <1>3, <1>7, Zenon DEF CloseCall, Finished, vars, queueVars, routineVars
<1>8. ASSUME NEW e, WriteEntry(e) \/ WriteBatch(e)
      PROVE  UNCHANGED <<state, eq, cPc>>
  BY <1>8, Zenon DEF WriteEntry, WriteBatch, queueVars, routineVars
<1> QED BY <1>2, <1>3, <1>4, <1>5, <1>6, <1>7, <1>8, Zenon DEF Next

-----------------------------------------------------------------------------
LEMMA InitInv == Init => IInv
<1> SUFFICES ASSUME Init PROVE IInv
  OBVIOUS
<1>1. PlacesType /\ Handshakes
  BY PlacesInit
<1>2. None \in ItemType /\ WellFormed(None)
  BY DEF None, Item, ItemType, WellFormed
<1>3. WritesType /\ QueuesType /\ ConnsType /\ HandsType
  BY <1>2, MuxerAssumption DEF Init, WritesType, QueuesType, ConnsType, HandsType
<1>4. Holds
  BY Zenon DEF Init, Holds, HoldsOnly
<1>5. ItemsOK
  <2>1. Range(eq) = {}
    BY DEF Init, Range
  <2> QED BY <1>2, <2>1 DEF Init, ItemsOK
<1>6. ReadOK
  BY DEF Init, ReadOK
<1>8. AfterClose /\ NothingLost
  BY Zenon DEF Init, AfterClose, NothingLost
<1> QED BY <1>1, <1>3, <1>4, <1>5, <1>6, <1>8, Zenon DEF IInv, Types

LEMMA StepInv == IInv /\ [Next]_vars => IInv'
<1> SUFFICES ASSUME IInv, [Next]_vars PROVE IInv'
  OBVIOUS
<1>1. Data /\ HoldTypes /\ QueuesType /\ PlacesType /\ Handshakes /\ Holds /\ AfterClose
  BY Zenon DEF IInv, Types, Data, HoldTypes
<1>2. PlacesType' /\ Handshakes'
  BY <1>1, PlacesStep, Zenon
<1>3. Data' /\ Kept /\ accepted' \subseteq accepted \cup Accounted'
  BY <1>1, DataStep, Zenon
<1>4. Holds' /\ AfterClose'
  BY <1>1, HoldsStep, AfterCloseStep, Zenon
<1>5. NothingLost'
  <2>1. accepted \subseteq Accounted
    BY DEF IInv, NothingLost, Accounted
  <2>2. accepted' \subseteq Accounted'
    BY <1>3, <2>1 DEF Kept
  <2> QED BY <2>2 DEF NothingLost, Accounted
<1> QED BY <1>2, <1>3, <1>4, <1>5 DEF IInv, Types, Data

LEMMA Inductive == Spec => []IInv
BY InitInv, StepInv, PTL DEF Spec

\* No accepted entry is lost, whatever connections break, cannot be made or
\* are closed, and in whatever order the relays and routines handle it.
THEOREM NoEntryLost == Spec => []NothingLost
<1>1. IInv => NothingLost
  BY DEF IInv
<1> QED BY <1>1, Inductive, PTL

\* Close() leaves every accepted entry that no indexer has read in the
\* channels that the cache commits.
THEOREM CloseKeepsAll == Spec => []ClosedKeepsAll
<1>1. IInv => ClosedKeepsAll
  <2> SUFFICES ASSUME IInv, state = "closed" PROVE accepted \subseteq delivered \cup Queued
    BY DEF ClosedKeepsAll
  <2>1. eq = <<>> /\ \A d \in Dests : cPc[d] = "exit"
    BY Zenon DEF IInv, AfterClose
  <2>2. ASSUME NEW d \in Dests
        PROVE  rItem[d] = None /\ cItem[d] = None /\ ecb[d] = <<>>
    <3>1. rPc[d] \in {"get", "exit"}
      BY <2>1, Zenon DEF IInv, Types, PlacesType, Handshakes, Handshake
    <3> QED BY <2>1, <3>1, Zenon DEF IInv, Holds, HoldsOnly
  <2>3. Range(None.ents) = {} /\ Range(<<>>) = {}
    BY DEF None, Item, Range
  <2>4. InQueue = {}
    BY <2>1, <2>3, Zenon DEF InQueue
  <2>5. InHand = {}
    BY <2>2, <2>3, Zenon DEF InHand
  <2>6. Unconfirmed = {}
    BY <2>2, <2>3, ZenonT(60) DEF Unconfirmed, Sent
  <2> QED BY <2>4, <2>5, <2>6, Zenon DEF IInv, NothingLost
<1> QED BY <1>1, Inductive, PTL

\* A relay in its input loop never meets the new connection it calls
\* unexpected, and its failure signal is never dropped.
THEOREM OneAtATime == Spec => []OneConnAtATime
<1>1. IInv => OneConnAtATime
  BY DEF IInv, Handshakes, Handshake, OneConnAtATime
<1> QED BY <1>1, Inductive, PTL

-----------------------------------------------------------------------------
\* The count of connections.
HotConns == {d \in Dests : conn[d] # "none"}
Hot == connHot = Cardinality(HotConns)

LEMMA HotBounds ==
  /\ IsFiniteSet(HotConns) /\ Cardinality(HotConns) \in Nat
  /\ Cardinality(Dests) \in Nat /\ Cardinality(HotConns) <= Cardinality(Dests)
<1>1. HotConns \subseteq Dests /\ IsFiniteSet(Dests)
  BY MuxerAssumption DEF HotConns
<1> QED BY <1>1, FS_Subset, FS_CardinalityType

LEMMA HotStep ==
  ASSUME HoldTypes, Holds, Handshakes, Hot, [Next]_vars
  PROVE  Hot'
<1>1. CASE UNCHANGED connHot /\ HotConns' = HotConns
  BY <1>1 DEF Hot
<1>2. CASE UNCHANGED <<conn, connHot>>
  BY <1>1, <1>2 DEF HotConns
<1>3. ASSUME NEW d \in Dests, NEW x \in {"broken", "closed"}, conn[d] # "none",
             conn' = [conn EXCEPT ![d] = x], UNCHANGED connHot
      PROVE  Hot'
  <2>1. \A c \in Dests : (conn'[c] = "none") <=> (conn[c] = "none")
    BY <1>3 DEF HoldTypes, ConnsType
  <2> QED BY <1>1, <1>3, <2>1 DEF HotConns
<1>4. ASSUME NEW d \in Dests, ConnWait(d)
      PROVE  Hot'
  <2>1. conn' = [conn EXCEPT ![d] = "none"] /\ connHot' = IF conn[d] = "none" THEN connHot ELSE connHot - 1
    BY <1>4 DEF ConnWait
  <2>2. HotConns' = HotConns \ {d}
    BY <2>1 DEF HotConns, HoldTypes, ConnsType
  <2>3. Cardinality(HotConns') = IF d \in HotConns THEN Cardinality(HotConns) - 1 ELSE Cardinality(HotConns)
    BY <2>2, HotBounds, FS_RemoveElement, Zenon
  <2>4. d \in HotConns <=> conn[d] # "none"
    BY DEF HotConns
  <2> QED BY <2>1, <2>3, <2>4 DEF Hot
<1>5. ASSUME NEW d \in Dests, ConnConnect(d)
      PROVE  Hot'
  <2>1. conn' = [conn EXCEPT ![d] = "up"] /\ connHot' = connHot + 1 /\ conn[d] = "none"
    BY <1>5 DEF ConnConnect, Holds, HoldsOnly
  <2>2. HotConns' = HotConns \cup {d} /\ d \notin HotConns
    BY <2>1 DEF HotConns, HoldTypes, ConnsType
  <2>3. Cardinality(HotConns') = Cardinality(HotConns) + 1
    BY <2>2, HotBounds, FS_AddElement
  <2> QED BY <2>1, <2>3 DEF Hot
<1>6. ASSUME NEW d \in Dests, Relay(d)
      PROVE  Hot'
  <2>1. CASE RelayClose(d)
    <3>1. conn' = [conn EXCEPT ![d] = "closed"] /\ UNCHANGED connHot /\ conn[d] # "none"
      BY <2>1 DEF RelayClose, routineVars, Holds, HoldsOnly
    <3> QED BY <1>3, <3>1, Zenon
  <2>2. CASE ~RelayClose(d)
    <3>1. UNCHANGED <<conn, connHot>>
      BY <1>6, <2>2, Zenon DEF Relay, getNewConnSet, ClearPop, ClearWrite, RelaySync, TakeEntry, TakeBatch,
         RelayWrite, RelayRecycle, RelayTick, RelayDone, RelayRequeue, connVars, routineVars
    <3> QED BY <1>2, <3>1
  <2> QED BY <2>1, <2>2
<1>7. ASSUME NEW d \in Dests, Network(d)
      PROVE  Hot'
  <2>1. CASE Break(d)
    <3>1. conn' = [conn EXCEPT ![d] = "broken"] /\ UNCHANGED connHot /\ conn[d] # "none"
      BY <2>1 DEF Break, routineVars
    <3> QED BY <1>3, <3>1, Zenon
  <2>2. CASE IndexerReads(d) \/ Confirm(d)
    BY <1>2, <2>2 DEF IndexerReads, Confirm, routineVars
  <2> QED BY <1>7, <2>1, <2>2 DEF Network
<1>8. ASSUME NEW d \in Dests, Routine(d)
      PROVE  Hot'
  <2>1. CASE ConnRequeue(d) \/ ConnIdentify(d) \/ ConnFailed(d)
    BY <1>2, <2>1 DEF ConnRequeue, ConnIdentify, ConnFailed, connVars
  <2> QED BY <1>4, <1>5, <1>8, <2>1 DEF Routine
<1>9. CASE CloseCall \/ CloseDrain \/ Finished \/ UNCHANGED vars
  BY <1>2, <1>9 DEF CloseCall, CloseDrain, Finished, vars, connVars, routineVars
<1>10. ASSUME NEW e, WriteEntry(e) \/ WriteBatch(e)
       PROVE  Hot'
  BY <1>2, <1>10 DEF WriteEntry, WriteBatch, connVars, routineVars
<1> QED BY <1>6, <1>7, <1>8, <1>9, <1>10 DEF Next

LEMMA HotInv == Spec => []Hot
<1>1. Init => Hot
  <2> SUFFICES ASSUME Init PROVE Hot
    OBVIOUS
  <2>1. HotConns = {}
    BY DEF Init, HotConns
  <2> QED BY <2>1, FS_EmptySet DEF Init, Hot
<1>2. IInv /\ Hot /\ [Next]_vars => Hot'
  <2> SUFFICES ASSUME IInv, Hot, [Next]_vars PROVE Hot'
    OBVIOUS
  <2>1. HoldTypes /\ Holds /\ Handshakes
    BY DEF IInv, Types, HoldTypes
  <2> QED BY <2>1, HotStep
<1> QED BY <1>1, <1>2, Inductive, PTL DEF Spec

\* The muxer's state keeps its types, and connHot counts 0 to all indexers.
THEOREM TypeCorrect == Spec => []TypeOK
<1>1. IInv /\ Hot => TypeOK
  <2> SUFFICES ASSUME IInv, Hot PROVE TypeOK
    OBVIOUS
  <2>1. connHot \in 0..Cardinality(Dests)
    BY HotBounds DEF Hot
  <2> QED BY <2>1 DEF IInv, Types, WritesType, QueuesType, ConnsType, PlacesType, HandsType, TypeOK
<1> QED BY <1>1, Inductive, HotInv, PTL
=============================================================================
