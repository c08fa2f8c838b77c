--------------------------- MODULE TagTranslation ---------------------------
(***************************************************************************)
(* Tag numbers in the IngestMuxer (ingest/muxer.go): the muxer's own map   *)
(* from names to numbers, which is saved beside the cache so that cached   *)
(* entries keep their meaning, and for each connection the translator from *)
(* the muxer's numbers to those of the indexer.  A translator is built     *)
(* from a snapshot of the map; tags that NegotiateTag() adds later wait in *)
(* its toNegotiate list until the relay meets an entry it cannot translate.*)
(*                                                                         *)
(* How an entry travels is the subject of Muxer; here it waits in memory   *)
(* or in the cache, is held by a relay, or has been sent.                  *)
(***************************************************************************)
EXTENDS Integers, Sequences, FiniteSets, Functions

CONSTANTS
  Names,        \* tag names
  Dests,        \* the indexers
  Remote,       \* the number each indexer has for each name
  Entries,
  NameOf,       \* the tag name an entry is written with
  Configs,      \* the sets of names a muxer may be configured with
  NoEntry,
  MaxCrashes,   \* bound on ends of the process
  MaxBreaks     \* bound on connections that break

ASSUME TagAssumption ==
  /\ IsFiniteSet(Names) /\ Remote \in [Dests -> [Names -> Nat]]
  /\ NameOf \in [Entries -> Names] /\ NoEntry \notin Entries
  /\ Configs \subseteq SUBSET Names /\ MaxCrashes \in Nat /\ MaxBreaks \in Nat

VARIABLES
  up,            \* whether the process runs
  panic,         \* an index out of range in newTagTrans()
  tagMap,        \* the muxer's number of each name it knows
  tagcache,      \* the file
  tag,           \* the Tag field of each entry that was written
  queue, saved,  \* the entries that wait in memory and in the cache files
  conn,          \* of each indexer: "down", "made" (not yet in igst) or "up"
  active, toNegotiate,    \* the translator of its connection
  relay, held, toNeg,     \* translateTag() in the relay: the entry, its copy of toNegotiate
  sent,          \* history: what was sent, and with which number
  crashes, breaks

mapVars == <<tagMap, tagcache>>
waitVars == <<tag, queue, saved>>
connVars == <<conn, active, toNegotiate>>
relayVars == <<relay, held, toNeg>>
vars == <<up, panic, mapVars, waitVars, connVars, relayVars, sent, crashes, breaks>>

Empty == [n \in {} |-> 0]

Init ==
  /\ up = FALSE /\ panic = FALSE /\ tagMap = Empty /\ tagcache = Empty
  /\ tag = [e \in Entries |-> 0] /\ queue = {} /\ saved = {}
  /\ conn = [d \in Dests |-> "down"]
  /\ active = [d \in Dests |-> <<>>] /\ toNegotiate = [d \in Dests |-> <<>>]
  /\ relay = [d \in Dests |-> "idle"] /\ held = [d \in Dests |-> NoEntry]
  /\ toNeg = [d \in Dests |-> <<>>]
  /\ sent = {} /\ crashes = 0 /\ breaks = 0

Largest(m) == CHOOSE v \in Range(m) : \A w \in Range(m) : w <= v

-----------------------------------------------------------------------------
\* A muxer is made with the tags T, in any order: they are added to what the
\* tag cache holds, after the largest number in it.
newIngestMuxer(T) ==
  /\ ~up /\ ~panic /\ up' = TRUE
  /\ LET new == T \ DOMAIN tagcache
         tagNext == IF tagcache = Empty THEN 0 ELSE Largest(tagcache) + 1
         numbers == tagNext .. (tagNext + Cardinality(new) - 1)
     IN \E num \in [new -> numbers] :
          /\ Range(num) = numbers
          /\ tagMap' = [n \in new \cup DOMAIN tagcache |-> IF n \in new THEN num[n] ELSE tagcache[n]]
          /\ tagcache' = tagMap'
  /\ UNCHANGED <<panic, waitVars, connVars, relayVars, sent, crashes, breaks>>

\* Mutant: the new number is not saved.
NegotiateTagUnsaved(n) ==
  /\ up /\ n \notin DOMAIN tagMap
  /\ LET tg == IF tagMap = Empty THEN 1 ELSE Largest(tagMap) + 1
     IN /\ tagMap' = [m \in DOMAIN tagMap \cup {n} |-> IF m = n THEN tg ELSE tagMap[m]]
        /\ toNegotiate' = [d \in Dests |-> IF conn[d] = "up" /\ tg >= Len(active[d])
                                             THEN Append(toNegotiate[d], [name |-> n, local |-> tg])
                                             ELSE toNegotiate[d]]
  /\ UNCHANGED <<up, panic, tagcache, waitVars, conn, active, relayVars, sent, crashes, breaks>>

\* Mutant: the loop looks for the next number already, and one is added again.
NegotiateTagSkips(n) ==
  /\ up /\ n \notin DOMAIN tagMap
  /\ LET tg == IF tagMap = Empty THEN 1 ELSE Largest(tagMap) + 2
     IN /\ tagMap' = [m \in DOMAIN tagMap \cup {n} |-> IF m = n THEN tg ELSE tagMap[m]]
        /\ toNegotiate' = [d \in Dests |-> IF conn[d] = "up" /\ tg >= Len(active[d])
                                             THEN Append(toNegotiate[d], [name |-> n, local |-> tg])
                                             ELSE toNegotiate[d]]
  /\ tagcache' = tagMap'
  /\ UNCHANGED <<up, panic, waitVars, conn, active, relayVars, sent, crashes, breaks>>

\* A new name gets the number after the largest; connections that are in igst
\* are told of it.
NegotiateTag(n) ==
  /\ up /\ n \notin DOMAIN tagMap
  /\ LET tg == IF tagMap = Empty THEN 1 ELSE Largest(tagMap) + 1
     IN /\ tagMap' = [m \in DOMAIN tagMap \cup {n} |-> IF m = n THEN tg ELSE tagMap[m]]
        /\ toNegotiate' = [d \in Dests |-> IF conn[d] = "up" /\ tg >= Len(active[d])
                                             THEN Append(toNegotiate[d], [name |-> n, local |-> tg])
                                             ELSE toNegotiate[d]]
  /\ tagcache' = tagMap'
  /\ UNCHANGED <<up, panic, waitVars, conn, active, relayVars, sent, crashes, breaks>>

WriteEntry(e) ==
  /\ up /\ NameOf[e] \in DOMAIN tagMap
  /\ e \notin queue \cup saved \cup Range(held) /\ \A s \in sent : s.ent # e
  /\ tag' = [tag EXCEPT ![e] = tagMap[NameOf[e]]] /\ queue' = queue \cup {e}
  /\ UNCHANGED <<up, panic, mapVars, saved, connVars, relayVars, sent, crashes, breaks>>

-----------------------------------------------------------------------------
\* getConnection() builds the translator while it holds the muxer's lock for
\* reading; a translator is as long as the map, and numbers index it.  (With a
\* number larger than the length it fails instead, and is tried again.)
newTagTrans(d) ==
  /\ up /\ conn[d] = "down" /\ tagMap # Empty
  /\ LET len == Cardinality(DOMAIN tagMap)
     IN \/ /\ \E n \in DOMAIN tagMap : tagMap[n] = len
           /\ panic' = TRUE /\ up' = FALSE /\ UNCHANGED connVars
        \/ /\ \A n \in DOMAIN tagMap : tagMap[n] < len
           /\ conn' = [conn EXCEPT ![d] = "made"]
           /\ active' = [active EXCEPT ![d] =
                [i \in 1..len |-> LET n == CHOOSE n \in DOMAIN tagMap : tagMap[n] = i - 1 IN Remote[d][n]]]
           /\ toNegotiate' = [toNegotiate EXCEPT ![d] = <<>>]
           /\ UNCHANGED <<panic, up>>
  /\ UNCHANGED <<mapVars, waitVars, relayVars, sent, crashes, breaks>>

\* connRoutine puts the connection and its translator into the muxer.
Publish(d) ==
  /\ up /\ conn[d] = "made" /\ conn' = [conn EXCEPT ![d] = "up"]
  /\ UNCHANGED <<up, panic, mapVars, waitVars, active, toNegotiate, relayVars, sent, crashes, breaks>>

\* The entry goes back and the connection is given up.
Reconnect(d) ==
  /\ queue' = IF held[d] = NoEntry THEN queue ELSE queue \cup {held[d]}
  /\ conn' = [conn EXCEPT ![d] = "down"] /\ relay' = [relay EXCEPT ![d] = "idle"]
  /\ held' = [held EXCEPT ![d] = NoEntry] /\ toNeg' = [toNeg EXCEPT ![d] = <<>>]
  /\ UNCHANGED <<active, toNegotiate, sent>>

Send(d, e) ==
  /\ sent' = sent \cup {[dest |-> d, ent |-> e, tag |-> active[d][tag[e] + 1]]}
  /\ held' = [held EXCEPT ![d] = NoEntry] /\ relay' = [relay EXCEPT ![d] = "idle"]
  /\ UNCHANGED <<conn, toNeg, queue>>

clearToNegotiate(d) ==
  toNegotiate' = [toNegotiate EXCEPT ![d] = IF Len(@) > 1 THEN Tail(@) ELSE <<>>]

translates(d, e) == tag[e] < Len(active[d])

RelayTake(d, e) ==
  /\ up /\ conn[d] = "up" /\ relay[d] = "idle" /\ e \in queue \cup saved
  /\ queue' = queue \ {e} /\ saved' = saved \ {e}
  /\ held' = [held EXCEPT ![d] = e] /\ relay' = [relay EXCEPT ![d] = "translate"]
  /\ UNCHANGED <<up, panic, mapVars, tag, connVars, toNeg, sent, crashes, breaks>>

\* translateTag(): what the translator knows, what is left to negotiate, or
\* an error.
RelayTranslate(d) ==
  /\ up /\ relay[d] = "translate"
  /\ \/ translates(d, held[d]) /\ Send(d, held[d]) /\ UNCHANGED <<active, toNegotiate>>
     \/ ~translates(d, held[d]) /\ toNegotiate[d] = <<>> /\ Reconnect(d)
     \/ /\ ~translates(d, held[d]) /\ toNegotiate[d] # <<>>
        /\ toNeg' = [toNeg EXCEPT ![d] = toNegotiate[d]]
        /\ relay' = [relay EXCEPT ![d] = "negotiate"]
        /\ UNCHANGED <<queue, connVars, held, sent>>
  /\ UNCHANGED <<up, panic, mapVars, tag, saved, crashes, breaks>>

\* Mutant: registerTag() appends whatever the local number is.
RelayNegotiateAppends(d) ==
  /\ up /\ relay[d] = "negotiate" /\ toNeg[d] # <<>>
  /\ active' = [active EXCEPT ![d] = Append(@, Remote[d][Head(toNeg[d]).name])]
  /\ clearToNegotiate(d)
  /\ toNeg' = [toNeg EXCEPT ![d] = Tail(@)]
  /\ UNCHANGED <<conn, queue, relay, held, sent>>
  /\ UNCHANGED <<up, panic, mapVars, tag, saved, crashes, breaks>>

\* Mutant: a translator that is out of step is kept, and the entry tried again.
RelayNegotiateStays(d) ==
  /\ up /\ relay[d] = "negotiate" /\ toNeg[d] # <<>>
  /\ LET v == Head(toNeg[d])
     IN \/ /\ v.local = Len(active[d])
           /\ active' = [active EXCEPT ![d] = Append(@, Remote[d][v.name])]
           /\ clearToNegotiate(d)
           /\ toNeg' = [toNeg EXCEPT ![d] = Tail(@)] /\ UNCHANGED <<conn, queue, relay, held, sent>>
        \/ v.local # Len(active[d]) /\ relay' = [relay EXCEPT ![d] = "translate"]
           /\ UNCHANGED <<conn, active, toNegotiate, toNeg, queue, held, sent>>
  /\ UNCHANGED <<up, panic, mapVars, tag, saved, crashes, breaks>>

\* The indexer is asked for the next name of the copy; registerTag() and
\* clearToNegotiate(1) follow.
RelayNegotiate(d) ==
  /\ up /\ relay[d] = "negotiate" /\ toNeg[d] # <<>>
  /\ LET v == Head(toNeg[d])
     IN \/ /\ v.local = Len(active[d])
           /\ active' = [active EXCEPT ![d] = Append(@, Remote[d][v.name])]
           /\ clearToNegotiate(d)
           /\ toNeg' = [toNeg EXCEPT ![d] = Tail(@)] /\ UNCHANGED <<conn, queue, relay, held, sent>>
        \/ v.local # Len(active[d]) /\ Reconnect(d)
  /\ UNCHANGED <<up, panic, mapVars, tag, saved, crashes, breaks>>

RelayNegotiated(d) ==
  /\ up /\ relay[d] = "negotiate" /\ toNeg[d] = <<>>
  /\ \/ translates(d, held[d]) /\ Send(d, held[d]) /\ UNCHANGED <<active, toNegotiate>>
     \/ ~translates(d, held[d]) /\ Reconnect(d)
  /\ UNCHANGED <<up, panic, mapVars, tag, saved, crashes, breaks>>

\* eq.clear() takes what the translator knows and gives up the connection for
\* what it does not.
EqClear(d, e) ==
  /\ up /\ conn[d] = "up" /\ relay[d] = "idle" /\ e \in queue
  /\ \/ /\ translates(d, e) /\ queue' = queue \ {e}
        /\ sent' = sent \cup {[dest |-> d, ent |-> e, tag |-> active[d][tag[e] + 1]]}
        /\ UNCHANGED <<conn, active, toNegotiate, relay, held, toNeg>>
     \/ ~translates(d, e) /\ Reconnect(d)
  /\ UNCHANGED <<up, panic, mapVars, tag, saved, crashes, breaks>>

Break(d) ==
  /\ up /\ conn[d] # "down" /\ breaks < MaxBreaks /\ breaks' = breaks + 1
  /\ Reconnect(d)
  /\ UNCHANGED <<up, panic, mapVars, tag, saved, crashes>>

-----------------------------------------------------------------------------
\* The cache takes an entry to disk.
Spill(e) ==
  /\ up /\ e \in queue /\ queue' = queue \ {e} /\ saved' = saved \cup {e}
  /\ UNCHANGED <<up, panic, mapVars, tag, connVars, relayVars, sent, crashes, breaks>>

\* What the end of a process leaves of the others.
Gone ==
  /\ up' = FALSE /\ tagMap' = Empty /\ queue' = {}
  /\ conn' = [d \in Dests |-> "down"]
  /\ active' = [d \in Dests |-> <<>>] /\ toNegotiate' = [d \in Dests |-> <<>>]
  /\ relay' = [d \in Dests |-> "idle"] /\ held' = [d \in Dests |-> NoEntry]
  /\ toNeg' = [d \in Dests |-> <<>>] /\ crashes' = crashes + 1

\* Close() saves what waits, and removes the tag cache when nothing is saved.
Close ==
  /\ up /\ crashes < MaxCrashes /\ Gone
  /\ saved' = saved \cup queue \cup (Range(held) \ {NoEntry})
  /\ tagcache' = IF saved' = {} THEN Empty ELSE tagcache
  /\ UNCHANGED <<panic, tag, sent, breaks>>

Crash ==
  /\ up /\ crashes < MaxCrashes /\ Gone
  /\ UNCHANGED <<panic, tagcache, saved, tag, sent, breaks>>

-----------------------------------------------------------------------------
Relay(d) ==
  \/ \E e \in Entries : RelayTake(d, e) \/ EqClear(d, e)
  \/ RelayTranslate(d) \/ RelayNegotiate(d) \/ RelayNegotiated(d)

Next ==
  \/ \E T \in Configs : newIngestMuxer(T)
  \/ \E n \in Names : NegotiateTag(n)
  \/ \E e \in Entries : WriteEntry(e) \/ Spill(e)
  \/ \E d \in Dests : newTagTrans(d) \/ Publish(d) \/ Relay(d) \/ Break(d)
  \/ Close \/ Crash

Spec == Init /\ [][Next]_vars

\* The routines of a connection are scheduled; an entry that waits is taken
\* at some point, whatever else is in the channels.
Fairness ==
  /\ \A d \in Dests : WF_vars(newTagTrans(d)) /\ WF_vars(Publish(d)) /\ WF_vars(Relay(d))
  /\ \A e \in Entries : SF_vars(\E d \in Dests : RelayTake(d, e))

FairSpec == Spec /\ Fairness

-----------------------------------------------------------------------------
TagRecord == [name : Names, local : Nat]

TypeOK ==
  /\ up \in BOOLEAN /\ panic \in BOOLEAN
  /\ DOMAIN tagMap \subseteq Names /\ tagMap \in [DOMAIN tagMap -> Nat]
  /\ DOMAIN tagcache \subseteq Names /\ tagcache \in [DOMAIN tagcache -> Nat]
  /\ tag \in [Entries -> Nat] /\ queue \subseteq Entries /\ saved \subseteq Entries
  /\ conn \in [Dests -> {"down", "made", "up"}]
  /\ active \in [Dests -> Seq(Nat)] /\ toNegotiate \in [Dests -> Seq(TagRecord)]
  /\ relay \in [Dests -> {"idle", "translate", "negotiate"}]
  /\ held \in [Dests -> Entries \cup {NoEntry}] /\ toNeg \in [Dests -> Seq(TagRecord)]
  /\ sent \subseteq [dest : Dests, ent : Entries, tag : Nat]
  /\ crashes \in 0..MaxCrashes /\ breaks \in 0..MaxBreaks

Waiting == queue \cup saved \cup (Range(held) \ {NoEntry})

\* Whatever tags are negotiated while connections are made, an entry is sent
\* with the number its indexer has for the name it was written with.
SentRight == \A s \in sent : s.tag = Remote[s.dest][NameOf[s.ent]]

\* "there is data in a cache that's recovering ... so we read the old
\* translations": the number in a waiting entry means the same name in every
\* life of the process, also when the configuration has changed.
MeaningKept ==
  /\ up => \A e \in Waiting : NameOf[e] \in DOMAIN tagMap /\ tagMap[NameOf[e]] = tag[e]
  /\ \A e \in saved : NameOf[e] \in DOMAIN tagcache /\ tagcache[NameOf[e]] = tag[e]

\* newTagTrans() indexes past the end of the translator only in a muxer that
\* was started without any tag, where the first number is 1.
PanicNeedsNoTags == panic => 0 \notin Range(tagcache)

\* A tag that a connection was not told of, because it was negotiated while
\* the connection was being made, does not keep entries from being sent.
EventuallySent ==
  \A e \in Entries : (up /\ e \in Waiting) ~> (~up \/ \E s \in sent : s.ent = e)
=============================================================================
