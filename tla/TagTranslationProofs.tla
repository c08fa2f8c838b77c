------------------------ MODULE TagTranslationProofs ------------------------
(***************************************************************************)
(* Proofs about TagTranslation for any names, indexers, entries and        *)
(* configurations.                                                         *)
(***************************************************************************)
EXTENDS TagTranslation, FiniteSetTheorems, TLAPS

\* A map of names to numbers as the muxer builds it: no number is used twice,
\* there is a largest one, and if 0 is used then so is every number below one
\* that is used.
GoodMap(m) ==
  /\ DOMAIN m \subseteq Names /\ m \in [DOMAIN m -> Nat]
  /\ IsInjective(m)
  /\ DOMAIN m # {} => \E v \in Range(m) : \A w \in Range(m) : w <= v
  /\ 0 \in Range(m) => \A v \in Range(m) : \A w \in 0..v : w \in Range(m)

\* m with the numbers num for the names in new.
Extension(m, new, num) == [n \in new \cup DOMAIN m |-> IF n \in new THEN num[n] ELSE m[n]]

-----------------------------------------------------------------------------
\* The largest number of a map that is not empty.
LEMMA LargestNumber ==
  ASSUME NEW m, GoodMap(m), DOMAIN m # {}
  PROVE  Largest(m) \in Range(m) /\ Largest(m) \in Nat /\ \A w \in Range(m) : w <= Largest(m)
<1>1. \E v \in Range(m) : \A w \in Range(m) : w <= v
  BY Zenon DEF GoodMap
<1>2. Largest(m) \in Range(m) /\ \A w \in Range(m) : w <= Largest(m)
  BY <1>1, Zenon DEF Largest
<1>3. Range(m) \subseteq Nat
  BY DEF GoodMap, Range
<1> QED BY <1>2, <1>3

\* Only the empty map has no names.
LEMMA EmptyMap ==
  ASSUME NEW m, m \in [DOMAIN m -> Nat]
  PROVE  m = Empty <=> DOMAIN m = {}
BY DEF Empty

\* New names that get the numbers from next on, next being 0 in an empty map
\* and otherwise the one after the largest, make a good map again.
LEMMA ExtensionGood ==
  ASSUME NEW m, GoodMap(m), NEW new \in SUBSET Names, new \cap DOMAIN m = {},
         NEW next \in Nat, NEW c \in Nat, NEW num \in [new -> next..(next + c - 1)],
         IsInjective(num), Range(num) = next..(next + c - 1),
         \A w \in Range(m) : w < next,
         DOMAIN m # {} => next > 0 /\ next - 1 \in Range(m),
         DOMAIN m = {} => next = 0 \/ next = 1
  PROVE  GoodMap(Extension(m, new, num))
<1> DEFINE x == Extension(m, new, num)
<1>1. /\ m \in [DOMAIN m -> Nat] /\ DOMAIN m \subseteq Names /\ Range(m) \subseteq Nat
      /\ \A a, b \in DOMAIN m : m[a] = m[b] => a = b
  BY DEF GoodMap, IsInjective, Range
<1>2. /\ DOMAIN x = new \cup DOMAIN m
      /\ \A n \in new : x[n] = num[n] /\ x[n] \in next..(next + c - 1)
      /\ \A n \in DOMAIN m : x[n] = m[n] /\ x[n] \in Range(m)
  BY DEF Extension, Range
<1>3. Range(x) = Range(m) \cup next..(next + c - 1)
  BY <1>2 DEF Range
<1>4. x \in [DOMAIN x -> Nat] /\ DOMAIN x \subseteq Names
  BY <1>1, <1>2 DEF Extension
<1>5. IsInjective(x)
  <2> SUFFICES ASSUME NEW a \in DOMAIN x, NEW b \in DOMAIN x, x[a] = x[b]
               PROVE  a = b
    BY Zenon DEF IsInjective
  <2>1. CASE a \in new /\ b \in new
    BY <1>2, <2>1, Zenon DEF IsInjective
  <2>2. CASE a \in DOMAIN m /\ b \in DOMAIN m
    BY <1>1, <1>2, <2>2, Zenon
  <2>3. CASE a \in new /\ b \in DOMAIN m
    BY <1>1, <1>2, <2>3
  <2>4. CASE b \in new /\ a \in DOMAIN m
    BY <1>1, <1>2, <2>4
  <2> QED BY <1>2, <2>1, <2>2, <2>3, <2>4, Zenon
<1>6. ASSUME DOMAIN x # {} PROVE \E v \in Range(x) : \A w \in Range(x) : w <= v
  <2>1. CASE c > 0
    <3>1. next + c - 1 \in Range(x) /\ \A w \in Range(x) : w <= next + c - 1
      BY <1>1, <1>3, <2>1
    <3> QED BY <3>1
  <2>2. CASE c = 0
    <3>1. new = {}
      BY <2>2
    <3>2. DOMAIN m # {} /\ Range(x) = Range(m)
      BY <1>2, <1>3, <1>6, <2>2, <3>1
    <3> QED BY <3>2, Zenon DEF GoodMap
  <2> QED BY <2>1, <2>2
<1>7. ASSUME 0 \in Range(x), NEW v \in Range(x), NEW w \in 0..v
      PROVE  w \in Range(x)
  <2>1. CASE DOMAIN m = {}
    <3>1. Range(m) = {}
      BY <2>1 DEF Range
    <3> QED BY <1>3, <1>7, <2>1, <3>1
  <2>2. CASE DOMAIN m # {}
    <3>1. 0 \in Range(m)
      BY <1>3, <1>7, <2>2
    <3>2. \A u \in Range(m) : \A z \in 0..u : z \in Range(m)
      BY <3>1, Zenon DEF GoodMap
    <3>3. \A z \in 0..(next - 1) : z \in Range(m)
      BY <2>2, <3>2, Zenon
    <3>4. v \in Nat /\ w \in Nat /\ (v \in Range(m) \/ v <= next + c - 1)
      BY <1>1, <1>3
    <3>5. w \in 0..(next - 1) \/ w \in next..(next + c - 1) \/ (v \in Range(m) /\ w \in 0..v)
      BY <3>4
    <3> QED BY <1>3, <3>2, <3>3, <3>5, Zenon
  <2> QED BY <2>1, <2>2, Zenon
<1> QED BY <1>4, <1>5, <1>6, <1>7, Zenon DEF GoodMap

\* A map whose numbers are all below its size uses each number below it.
LEMMA NumbersUsed ==
  ASSUME NEW m, GoodMap(m), \A n \in DOMAIN m : m[n] < Cardinality(DOMAIN m)
  PROVE  /\ Cardinality(DOMAIN m) \in Nat
         /\ \A i \in 1..Cardinality(DOMAIN m) : \E n \in DOMAIN m : m[n] = i - 1
<1> DEFINE len == Cardinality(DOMAIN m)
<1>1. IsFiniteSet(DOMAIN m) /\ m \in [DOMAIN m -> Nat] /\ IsInjective(m)
  BY TagAssumption, FS_Subset, Zenon DEF GoodMap
<1>2. len \in Nat
  BY <1>1, FS_CardinalityType, Zenon
<1>3. IsFiniteSet(0..(len - 1)) /\ Cardinality(0..(len - 1)) = len
  BY <1>2, FS_Interval
<1>4. m \in Injection(DOMAIN m, 0..(len - 1))
  <2>1. \A n \in DOMAIN m : m[n] \in 0..(len - 1)
    BY <1>1, <1>2
  <2> QED BY <1>1, <2>1, Zenon DEF Injection
<1>5. m \in Surjection(DOMAIN m, 0..(len - 1))
  BY <1>3, <1>4, FS_Injection, Zenon
<1>6. \A t \in 0..(len - 1) : \E n \in DOMAIN m : m[n] = t
  BY <1>5, Zenon DEF Surjection
<1>7. \A i \in 1..len : i - 1 \in 0..(len - 1)
  BY <1>2
<1> QED BY <1>2, <1>6, <1>7, Zenon

\* If 0 is used then every number is below the size of the map.
LEMMA NumbersFit ==
  ASSUME NEW m, GoodMap(m), 0 \in Range(m), NEW n \in DOMAIN m
  PROVE  m[n] # Cardinality(DOMAIN m)
<1> DEFINE len == Cardinality(DOMAIN m)
<1> SUFFICES ASSUME m[n] = len PROVE FALSE
  OBVIOUS
<1>1. IsFiniteSet(DOMAIN m) /\ m \in [DOMAIN m -> Nat]
  BY TagAssumption, FS_Subset, Zenon DEF GoodMap
<1>2. len \in Nat
  BY <1>1, FS_CardinalityType, Zenon
<1>3. m \in Surjection(DOMAIN m, Range(m))
  BY <1>1, Zenon DEF Surjection, Range
<1>4. IsFiniteSet(Range(m)) /\ Cardinality(Range(m)) <= len
  BY <1>1, <1>3, FS_Surjection, Zenon
<1>5. len \in Range(m)
  BY Zenon DEF Range
<1>6. 0..len \subseteq Range(m)
  BY <1>5, Zenon DEF GoodMap
<1>7. Cardinality(0..len) = len + 1
  BY <1>2, FS_Interval
<1>8. Cardinality(0..len) <= Cardinality(Range(m)) /\ Cardinality(Range(m)) \in Nat
  BY <1>4, <1>6, FS_Subset, FS_CardinalityType, Zenon
<1> QED BY <1>2, <1>4, <1>7, <1>8

\* The map of a muxer that is made with the names T.
LEMMA ConfiguredMap ==
  ASSUME NEW m, GoodMap(m), NEW T \in SUBSET Names,
         NEW num \in [T \ DOMAIN m -> Int],
         LET tagNext == IF m = Empty THEN 0 ELSE Largest(m) + 1
         IN Range(num) = tagNext .. (tagNext + Cardinality(T \ DOMAIN m) - 1)
  PROVE  GoodMap(Extension(m, T \ DOMAIN m, num))
<1> DEFINE new == T \ DOMAIN m
           next == IF m = Empty THEN 0 ELSE Largest(m) + 1
           c == Cardinality(new)
<1> HIDE DEF new, next, c
<1>1. new \in SUBSET Names /\ new \cap DOMAIN m = {} /\ IsFiniteSet(new)
  <2>1. new \in SUBSET Names /\ new \cap DOMAIN m = {}
    BY DEF new
  <2> QED BY <2>1, TagAssumption, FS_Subset, Zenon
<1>2. c \in Nat
  BY <1>1, FS_CardinalityType, Zenon DEF c
<1>3. m \in [DOMAIN m -> Nat] /\ (m = Empty <=> DOMAIN m = {})
  BY EmptyMap, Zenon DEF GoodMap
<1>4. /\ next \in Nat /\ \A w \in Range(m) : w < next
      /\ DOMAIN m # {} => next > 0 /\ next - 1 \in Range(m)
      /\ DOMAIN m = {} => next = 0
  <2>1. CASE DOMAIN m = {}
    <3>1. next = 0 /\ Range(m) = {}
      BY <1>3, <2>1 DEF next, Range
    <3> QED BY <2>1, <3>1
  <2>2. CASE DOMAIN m # {}
    <3>1. next = Largest(m) + 1
      BY <1>3, <2>2, Zenon DEF next
    <3>2. Largest(m) \in Range(m) /\ Largest(m) \in Nat /\ \A w \in Range(m) : w <= Largest(m)
      BY <2>2, LargestNumber, Zenon
    <3>3. Range(m) \subseteq Nat
      BY <1>3 DEF Range
    <3> QED BY <2>2, <3>1, <3>2, <3>3
  <2> QED BY <2>1, <2>2, Zenon
<1>5. Range(num) = next..(next + c - 1)
  BY Zenon DEF next, c, new
<1>6. num \in [new -> next..(next + c - 1)]
  <2>1. DOMAIN num = new /\ num = [n \in new |-> num[n]]
    BY Zenon DEF new
  <2>2. \A n \in new : num[n] \in Range(num)
    BY <2>1, Zenon DEF Range
  <2> QED BY <1>5, <2>1, <2>2, Zenon
<1>7. IsInjective(num)
  <2>1. num \in Surjection(new, next..(next + c - 1))
    BY <1>5, <1>6, Zenon DEF Surjection, Range
  <2>2. Cardinality(next..(next + c - 1)) = c
    <3>1. next \in Int /\ next + c - 1 \in Int
      BY <1>2, <1>4
    <3>2. \A a, b \in Int : Cardinality(a..b) = IF a > b THEN 0 ELSE b - a + 1
      BY FS_Interval, Zenon
    <3> QED BY <1>2, <1>4, <3>1, <3>2
  <2>3. num \in Injection(new, next..(next + c - 1))
    BY <1>1, <2>1, <2>2, FS_Surjection, ZenonT(60) DEF c
  <2> QED BY <2>3, Zenon DEF Injection
<1>8. GoodMap(Extension(m, new, num))
  BY <1>1, <1>2, <1>4, <1>5, <1>6, <1>7, ExtensionGood, Zenon
<1> QED BY <1>8, Zenon DEF new

\* The map after NegotiateTag() of a new name, whose number is new too.
LEMMA NegotiatedMap ==
  ASSUME NEW m, GoodMap(m), NEW n \in Names \ DOMAIN m
  PROVE  LET tg == IF m = Empty THEN 1 ELSE Largest(m) + 1
             x == [k \in DOMAIN m \cup {n} |-> IF k = n THEN tg ELSE m[k]]
         IN /\ GoodMap(x) /\ tg \in Nat /\ \A w \in Range(m) : w < tg
            /\ x[n] = tg /\ \A k \in DOMAIN m : x[k] = m[k]
<1> DEFINE tg == IF m = Empty THEN 1 ELSE Largest(m) + 1
           x == [k \in DOMAIN m \cup {n} |-> IF k = n THEN tg ELSE m[k]]
           num == [k \in {n} |-> tg]
<1> HIDE DEF tg, num
<1>1. m \in [DOMAIN m -> Nat] /\ (m = Empty <=> DOMAIN m = {})
  BY EmptyMap, Zenon DEF GoodMap
<1>2. /\ tg \in Nat /\ \A w \in Range(m) : w < tg
      /\ DOMAIN m # {} => tg > 0 /\ tg - 1 \in Range(m)
      /\ DOMAIN m = {} => tg = 1
  <2>1. CASE DOMAIN m = {}
    <3>1. tg = 1 /\ Range(m) = {}
      BY <1>1, <2>1 DEF tg, Range
    <3> QED BY <2>1, <3>1
  <2>2. CASE DOMAIN m # {}
    <3>1. tg = Largest(m) + 1
      BY <1>1, <2>2, Zenon DEF tg
    <3>2. Largest(m) \in Range(m) /\ Largest(m) \in Nat /\ \A w \in Range(m) : w <= Largest(m)
      BY <2>2, LargestNumber, Zenon
    <3>3. Range(m) \subseteq Nat
      BY <1>1 DEF Range
    <3> QED BY <2>2, <3>1, <3>2, <3>3
  <2> QED BY <2>1, <2>2, Zenon
<1>3. /\ num \in [{n} -> tg..(tg + 1 - 1)] /\ Range(num) = tg..(tg + 1 - 1)
      /\ IsInjective(num)
  BY <1>2 DEF num, Range, IsInjective
<1>4. {n} \in SUBSET Names /\ {n} \cap DOMAIN m = {}
  OBVIOUS
<1>5. GoodMap(Extension(m, {n}, num))
  BY <1>2, <1>3, <1>4, ExtensionGood
<1>6. x = Extension(m, {n}, num)
  BY DEF Extension, num
<1>7. x[n] = tg /\ \A k \in DOMAIN m : x[k] = m[k]
  OBVIOUS
<1> QED BY <1>2, <1>5, <1>6, <1>7, Zenon DEF tg

-----------------------------------------------------------------------------
\* The translator of a connection has, for each number below its length, the
\* indexer's number of the name with that number.
Translates(d) ==
  \A i \in 1..Len(active[d]) :
    \E n \in DOMAIN tagMap : tagMap[n] = i - 1 /\ active[d][i] = Remote[d][n]

Known(r) == r.name \in DOMAIN tagMap /\ tagMap[r.name] = r.local

ConnInv(d) ==
  /\ conn[d] # "down" => Translates(d) /\ \A r \in Range(toNegotiate[d]) : Known(r)
  /\ relay[d] # "idle" => conn[d] = "up" /\ held[d] \in Entries
  /\ \A r \in Range(toNeg[d]) : Known(r)

\* What a process that has ended leaves of a connection.
Idle(d) == conn[d] = "down" /\ held[d] = NoEntry /\ toNeg[d] = <<>>

IInv ==
  /\ TypeOK
  /\ GoodMap(tagMap) /\ GoodMap(tagcache) /\ (up => tagcache = tagMap /\ ~panic)
  /\ (~up /\ ~panic => queue = {} /\ \A d \in Dests : Idle(d))
  /\ \A d \in Dests : ConnInv(d)
  /\ MeaningKept /\ SentRight /\ PanicNeedsNoTags

LEMMA InitInv == Init => IInv
<1> SUFFICES ASSUME Init PROVE IInv
  OBVIOUS
<1>1. GoodMap(Empty) /\ Range(Empty) = {}
  BY DEF GoodMap, Empty, Range, IsInjective
<1>2. Empty \in [{} -> Nat] /\ DOMAIN Empty = {}
  BY DEF Empty
<1>3. TypeOK
  <2>1. /\ up \in BOOLEAN /\ panic \in BOOLEAN /\ tagMap = Empty /\ tagcache = Empty
        /\ queue = {} /\ saved = {} /\ sent = {} /\ crashes = 0 /\ breaks = 0
    BY Zenon DEF Init
  <2>2. /\ tag \in [Entries -> Nat] /\ conn \in [Dests -> {"down", "made", "up"}]
        /\ relay \in [Dests -> {"idle", "translate", "negotiate"}]
        /\ held \in [Dests -> Entries \cup {NoEntry}]
    BY DEF Init
  <2>3. <<>> \in Seq(Nat) /\ <<>> \in Seq(TagRecord)
    OBVIOUS
  <2>4. /\ active \in [Dests -> Seq(Nat)] /\ toNegotiate \in [Dests -> Seq(TagRecord)]
        /\ toNeg \in [Dests -> Seq(TagRecord)]
    BY <2>3, Zenon DEF Init
  <2>5. crashes \in 0..MaxCrashes /\ breaks \in 0..MaxBreaks
    BY <2>1, TagAssumption
  <2>6. Empty \in [DOMAIN Empty -> Nat] /\ DOMAIN Empty \subseteq Names
    BY <1>2
  <2> QED BY <2>1, <2>2, <2>4, <2>5, <2>6 DEF TypeOK
<1>4. \A d \in Dests : ConnInv(d) /\ Idle(d)
  BY DEF Init, ConnInv, Idle, Range
<1>5. MeaningKept /\ SentRight /\ PanicNeedsNoTags
  BY DEF Init, MeaningKept, SentRight, PanicNeedsNoTags
<1> QED BY <1>1, <1>3, <1>4, <1>5 DEF Init, IInv

-----------------------------------------------------------------------------
\* What a waiting entry is sent with, when its number is one the translator
\* has.
LEMMA TranslatedRight ==
  ASSUME IInv, up, NEW d \in Dests, NEW e \in Entries, e \in Waiting,
         conn[d] # "down", translates(d, e)
  PROVE  active[d][tag[e] + 1] = Remote[d][NameOf[e]] /\ active[d][tag[e] + 1] \in Nat
<1>1. /\ tag[e] \in Nat /\ active[d] \in Seq(Nat) /\ tag[e] < Len(active[d])
  BY DEF IInv, TypeOK, translates
<1>2. NameOf[e] \in DOMAIN tagMap /\ tagMap[NameOf[e]] = tag[e]
  BY Zenon DEF IInv, MeaningKept
<1>3. PICK k \in 1..Len(active[d]) : k = tag[e] + 1 /\ k - 1 = tag[e]
  BY <1>1
<1>4. Translates(d)
  BY Zenon DEF IInv, ConnInv
<1>5. PICK n \in DOMAIN tagMap : tagMap[n] = k - 1 /\ active[d][k] = Remote[d][n]
  BY <1>4, Zenon DEF Translates
<1>6. n = NameOf[e]
  BY <1>2, <1>3, <1>5, Zenon DEF IInv, GoodMap, IsInjective
<1>7. active[d][k] \in Nat
  BY <1>1
<1> QED BY <1>3, <1>5, <1>6, <1>7, Zenon

\* A step that leaves the maps and the entries' numbers alone keeps the
\* invariant if it does so for the connections and for what was sent, and no
\* entry starts to wait.
LEMMA QuietInv ==
  ASSUME IInv, up, UNCHANGED <<up, panic, mapVars, tag>>, TypeOK',
         \A d \in Dests : ConnInv(d)', Waiting' \subseteq Waiting, SentRight'
  PROVE  IInv'
<1>1. UNCHANGED <<up, panic, tagMap, tagcache, tag>>
  BY Zenon DEF mapVars
<1>2. saved' \subseteq Waiting'
  BY Zenon DEF Waiting
<1>3. MeaningKept'
  BY <1>1, <1>2, Zenon DEF IInv, MeaningKept
<1>4. GoodMap(tagMap)' /\ GoodMap(tagcache)' /\ (up => tagcache = tagMap /\ ~panic)' /\ PanicNeedsNoTags'
  BY <1>1 DEF IInv, GoodMap, PanicNeedsNoTags
<1>5. up'
  BY <1>1
<1> QED BY <1>3, <1>4, <1>5, Zenon DEF IInv

\* A connection that a step leaves alone.
LEMMA ConnKept ==
  ASSUME IInv, NEW d \in Dests, tagMap' = tagMap, conn'[d] = conn[d], active'[d] = active[d],
         toNegotiate'[d] = toNegotiate[d], relay'[d] = relay[d], held'[d] = held[d],
         toNeg'[d] = toNeg[d]
  PROVE  ConnInv(d)'
BY DEF IInv, ConnInv, Translates, Known

LEMMA ReconnectInv ==
  ASSUME IInv, up, NEW d \in Dests, Reconnect(d),
         UNCHANGED <<up, panic, mapVars, tag, saved>>, crashes' = crashes, breaks' \in 0..MaxBreaks
  PROVE  IInv'
<1> USE DEF mapVars
<1>1. TypeOK'
  <2>1. queue' \subseteq Entries
    BY DEF IInv, TypeOK, Reconnect
  <2>2. /\ conn' \in [Dests -> {"down", "made", "up"}]
        /\ relay' \in [Dests -> {"idle", "translate", "negotiate"}]
        /\ held' \in [Dests -> Entries \cup {NoEntry}] /\ toNeg' \in [Dests -> Seq(TagRecord)]
    BY DEF IInv, TypeOK, Reconnect
  <2> QED BY <2>1, <2>2, Zenon DEF IInv, TypeOK, Reconnect
<1>2. ASSUME NEW c \in Dests PROVE ConnInv(c)'
  <2>1. CASE c = d
    <3>1. conn'[c] = "down" /\ relay'[c] = "idle" /\ toNeg'[c] = <<>>
      BY <2>1 DEF IInv, TypeOK, Reconnect
    <3> QED BY <3>1 DEF ConnInv, Range
  <2>2. CASE c # d
    BY <2>2, ConnKept, Zenon DEF IInv, TypeOK, Reconnect
  <2> QED BY <2>1, <2>2
<1>3. Waiting' \subseteq Waiting
  BY DEF IInv, TypeOK, Reconnect, Waiting, Range
<1>4. SentRight'
  BY Zenon DEF IInv, Reconnect, SentRight
<1> QED BY <1>1, <1>2, <1>3, <1>4, QuietInv, Zenon

LEMMA SendInv ==
  ASSUME IInv, up, NEW d \in Dests, relay[d] # "idle", translates(d, held[d]), Send(d, held[d]),
         UNCHANGED <<up, panic, mapVars, tag, saved, active, toNegotiate, crashes, breaks>>
  PROVE  IInv'
<1> DEFINE e == held[d]
           s == [dest |-> d, ent |-> e, tag |-> active[d][tag[e] + 1]]
<1> USE DEF mapVars
<1>1. conn[d] # "down" /\ e \in Entries
  BY DEF IInv, ConnInv
<1>2. e \in Waiting
  BY <1>1, TagAssumption DEF Waiting, Range, IInv, TypeOK
<1>3. active[d][tag[e] + 1] = Remote[d][NameOf[e]] /\ active[d][tag[e] + 1] \in Nat
  BY <1>1, <1>2, TranslatedRight, Zenon
<1> HIDE DEF e
<1>4. s \in [dest : Dests, ent : Entries, tag : Nat] /\ s.tag = Remote[s.dest][NameOf[s.ent]]
  BY <1>1, <1>3
<1>5. sent' = sent \cup {s}
  BY Zenon DEF Send, e
<1>6. TypeOK'
  <2>1. sent' \subseteq [dest : Dests, ent : Entries, tag : Nat]
    BY <1>4, <1>5, Zenon DEF IInv, TypeOK
  <2>2. /\ relay' \in [Dests -> {"idle", "translate", "negotiate"}]
        /\ held' \in [Dests -> Entries \cup {NoEntry}]
    BY DEF IInv, TypeOK, Send
  <2> QED BY <2>1, <2>2, Zenon DEF IInv, TypeOK, Send
<1>7. ASSUME NEW c \in Dests PROVE ConnInv(c)'
  <2>1. CASE c = d
    <3>1. /\ conn'[c] = conn[c] /\ active'[c] = active[c] /\ toNegotiate'[c] = toNegotiate[c]
          /\ relay'[c] = "idle" /\ toNeg'[c] = toNeg[c] /\ tagMap' = tagMap
      BY <2>1 DEF IInv, TypeOK, Send
    <3> QED BY <3>1 DEF IInv, ConnInv, Translates, Known
  <2>2. CASE c # d
    BY <2>2, ConnKept, Zenon DEF IInv, TypeOK, Send
  <2> QED BY <2>1, <2>2
<1>8. Waiting' \subseteq Waiting
  BY DEF IInv, TypeOK, Send, Waiting, Range
<1>9. SentRight'
  BY <1>4, <1>5, Zenon DEF IInv, SentRight
<1> QED BY <1>6, <1>7, <1>8, <1>9, QuietInv, Zenon

-----------------------------------------------------------------------------
\* The relay and the emergency queue.
LEMMA TakeInv == ASSUME IInv, NEW d \in Dests, NEW e \in Entries, RelayTake(d, e) PROVE IInv'
<1>1. /\ up /\ UNCHANGED <<up, panic, mapVars, tag, connVars, toNeg, sent, crashes, breaks>>
      /\ conn[d] = "up" /\ e \in queue \cup saved
      /\ queue' = queue \ {e} /\ saved' = saved \ {e}
      /\ held' = [held EXCEPT ![d] = e] /\ relay' = [relay EXCEPT ![d] = "translate"]
  BY Zenon DEF RelayTake
<1>2. UNCHANGED <<up, panic, tagMap, tagcache, tag, conn, active, toNegotiate, toNeg, sent, crashes, breaks>>
  BY <1>1, Zenon DEF mapVars, connVars
<1>3. TypeOK'
  <2>1. /\ relay' \in [Dests -> {"idle", "translate", "negotiate"}]
        /\ held' \in [Dests -> Entries \cup {NoEntry}]
        /\ queue' \subseteq Entries /\ saved' \subseteq Entries
    BY <1>1 DEF IInv, TypeOK
  <2> QED BY <1>2, <2>1, Zenon DEF IInv, TypeOK
<1>4. ASSUME NEW c \in Dests PROVE ConnInv(c)'
  <2>1. CASE c = d
    <3>1. conn'[c] = "up" /\ held'[c] \in Entries
      BY <1>1, <1>2, <2>1 DEF IInv, TypeOK
    <3> QED BY <1>2, <3>1 DEF IInv, ConnInv, Translates, Known
  <2>2. CASE c # d
    BY <1>1, <1>2, <2>2, ConnKept, Zenon DEF IInv, TypeOK
  <2> QED BY <2>1, <2>2
<1>5. Waiting' \subseteq Waiting
  BY <1>1, <1>2 DEF IInv, TypeOK, Waiting, Range
<1>6. SentRight'
  BY <1>2, Zenon DEF IInv, SentRight
<1> QED BY <1>1, <1>3, <1>4, <1>5, <1>6, QuietInv, Zenon

LEMMA TranslateInv == ASSUME IInv, NEW d \in Dests, RelayTranslate(d) PROVE IInv'
<1>1. /\ up /\ relay[d] = "translate"
      /\ UNCHANGED <<up, panic, mapVars, tag, saved, crashes, breaks>>
  BY Zenon DEF RelayTranslate
<1>2. UNCHANGED <<up, panic, tagMap, tagcache, tag, saved, crashes, breaks>>
  BY <1>1, Zenon DEF mapVars
<1>3. CASE translates(d, held[d]) /\ Send(d, held[d]) /\ UNCHANGED <<active, toNegotiate>>
  BY <1>1, <1>2, <1>3, SendInv, Zenon
<1>4. CASE Reconnect(d)
  <2>1. breaks' \in 0..MaxBreaks
    BY <1>2, Zenon DEF IInv, TypeOK
  <2> QED BY <1>1, <1>2, <1>4, <2>1, ReconnectInv, Zenon
<1>5. CASE /\ toNeg' = [toNeg EXCEPT ![d] = toNegotiate[d]]
           /\ relay' = [relay EXCEPT ![d] = "negotiate"]
           /\ UNCHANGED <<queue, connVars, held, sent>>
  <2>1. UNCHANGED <<queue, conn, active, toNegotiate, held, sent>>
    BY <1>5, Zenon DEF connVars
  <2>2. TypeOK'
    <3>1. /\ relay' \in [Dests -> {"idle", "translate", "negotiate"}]
          /\ toNeg' \in [Dests -> Seq(TagRecord)]
      BY <1>5 DEF IInv, TypeOK
    <3> QED BY <1>2, <2>1, <3>1, Zenon DEF IInv, TypeOK
  <2>3. ASSUME NEW c \in Dests PROVE ConnInv(c)'
    <3>1. CASE c = d
      <4>1. toNeg'[c] = toNegotiate[c] /\ conn[c] = "up" /\ held[c] \in Entries
        BY <1>1, <1>5, <3>1 DEF IInv, TypeOK, ConnInv
      <4> QED BY <1>2, <2>1, <4>1 DEF IInv, ConnInv, Translates, Known
    <3>2. CASE c # d
      BY <1>2, <1>5, <2>1, <3>2, ConnKept DEF IInv, TypeOK
    <3> QED BY <3>1, <3>2
  <2>4. Waiting' \subseteq Waiting /\ SentRight'
    BY <1>2, <2>1, Zenon DEF IInv, Waiting, SentRight
  <2> QED BY <1>1, <2>2, <2>3, <2>4, QuietInv, Zenon
<1> QED BY <1>3, <1>4, <1>5, Zenon DEF RelayTranslate

LEMMA NegotiatedInv == ASSUME IInv, NEW d \in Dests, RelayNegotiated(d) PROVE IInv'
<1>1. /\ up /\ relay[d] = "negotiate"
      /\ UNCHANGED <<up, panic, mapVars, tag, saved, crashes, breaks>>
  BY Zenon DEF RelayNegotiated
<1>2. CASE translates(d, held[d]) /\ Send(d, held[d]) /\ UNCHANGED <<active, toNegotiate>>
  BY <1>1, <1>2, SendInv, Zenon
<1>3. CASE Reconnect(d)
  <2>1. breaks' \in 0..MaxBreaks
    BY <1>1, Zenon DEF IInv, TypeOK
  <2> QED BY <1>1, <1>3, <2>1, ReconnectInv, Zenon
<1> QED BY <1>2, <1>3, Zenon DEF RelayNegotiated

LEMMA EqClearInv == ASSUME IInv, NEW d \in Dests, NEW e \in Entries, EqClear(d, e) PROVE IInv'
<1>1. /\ up /\ conn[d] = "up" /\ e \in queue
      /\ UNCHANGED <<up, panic, mapVars, tag, saved, crashes, breaks>>
  BY Zenon DEF EqClear
<1>2. CASE Reconnect(d)
  <2>1. breaks' \in 0..MaxBreaks
    BY <1>1, Zenon DEF IInv, TypeOK
  <2> QED BY <1>1, <1>2, <2>1, ReconnectInv, Zenon
<1>3. CASE /\ translates(d, e) /\ queue' = queue \ {e}
           /\ sent' = sent \cup {[dest |-> d, ent |-> e, tag |-> active[d][tag[e] + 1]]}
           /\ UNCHANGED <<conn, active, toNegotiate, relay, held, toNeg>>
  <2> DEFINE s == [dest |-> d, ent |-> e, tag |-> active[d][tag[e] + 1]]
  <2>1. UNCHANGED <<up, panic, tagMap, tagcache, tag, saved, crashes, breaks>>
    BY <1>1, Zenon DEF mapVars
  <2>2. active[d][tag[e] + 1] = Remote[d][NameOf[e]] /\ active[d][tag[e] + 1] \in Nat
    <3>1. e \in Waiting /\ conn[d] # "down"
      BY <1>1 DEF Waiting
    <3> QED BY <1>1, <1>3, <3>1, TranslatedRight, Zenon
  <2>3. s \in [dest : Dests, ent : Entries, tag : Nat] /\ s.tag = Remote[s.dest][NameOf[s.ent]]
    BY <2>2
  <2>4. TypeOK'
    <3>1. queue' \subseteq Entries /\ sent' \subseteq [dest : Dests, ent : Entries, tag : Nat]
      BY <1>3, <2>3, Zenon DEF IInv, TypeOK
    <3> QED BY <1>3, <2>1, <3>1, Zenon DEF IInv, TypeOK
  <2>5. \A c \in Dests : ConnInv(c)'
    BY <1>3, <2>1, ConnKept, Zenon
  <2>6. Waiting' \subseteq Waiting
    BY <1>3, <2>1, Zenon DEF Waiting
  <2>7. SentRight'
    BY <1>3, <2>3, Zenon DEF IInv, SentRight
  <2> QED BY <1>1, <2>4, <2>5, <2>6, <2>7, QuietInv, Zenon
<1> QED BY <1>2, <1>3, Zenon DEF EqClear

\* What a list loses with its head.
LEMMA TailRange ==
  ASSUME NEW S, NEW q \in Seq(S), q # <<>>
  PROVE  Tail(q) \in Seq(S) /\ Range(Tail(q)) \subseteq Range(q) /\ Head(q) \in Range(q)
<1>1. /\ Len(q) \in Nat /\ Len(q) > 0 /\ DOMAIN q = 1..Len(q) /\ Tail(q) \in Seq(S)
      /\ DOMAIN Tail(q) = 1..(Len(q) - 1) /\ Head(q) = q[1]
      /\ \A i \in 1..(Len(q) - 1) : Tail(q)[i] = q[i + 1]
  OBVIOUS
<1>2. 1 \in DOMAIN q /\ \A i \in 1..(Len(q) - 1) : i + 1 \in DOMAIN q
  BY <1>1
<1> QED BY <1>1, <1>2 DEF Range

LEMMA NegotiateInv == ASSUME IInv, NEW d \in Dests, RelayNegotiate(d) PROVE IInv'
<1> DEFINE v == Head(toNeg[d])
<1>1. /\ up /\ relay[d] = "negotiate" /\ toNeg[d] # <<>>
      /\ UNCHANGED <<up, panic, mapVars, tag, saved, crashes, breaks>>
  BY Zenon DEF RelayNegotiate
<1>2. CASE Reconnect(d)
  <2>1. breaks' \in 0..MaxBreaks
    BY <1>1, Zenon DEF IInv, TypeOK
  <2> QED BY <1>1, <1>2, <2>1, ReconnectInv, Zenon
<1>3. CASE /\ v.local = Len(active[d])
           /\ active' = [active EXCEPT ![d] = Append(@, Remote[d][v.name])]
           /\ clearToNegotiate(d)
           /\ toNeg' = [toNeg EXCEPT ![d] = Tail(@)] /\ UNCHANGED <<conn, queue, relay, held, sent>>
  <2>1. UNCHANGED <<up, panic, tagMap, tagcache, tag, saved, crashes, breaks>>
    BY <1>1, Zenon DEF mapVars
  <2>2. /\ active[d] \in Seq(Nat) /\ toNegotiate[d] \in Seq(TagRecord) /\ toNeg[d] \in Seq(TagRecord)
        /\ active \in [Dests -> Seq(Nat)] /\ toNegotiate \in [Dests -> Seq(TagRecord)]
        /\ toNeg \in [Dests -> Seq(TagRecord)]
    BY DEF IInv, TypeOK
  <2>3. /\ v \in Range(toNeg[d]) /\ Tail(toNeg[d]) \in Seq(TagRecord)
        /\ Range(Tail(toNeg[d])) \subseteq Range(toNeg[d])
    BY <1>1, <2>2, TailRange, Zenon
  <2>4. /\ toNegotiate'[d] \in Seq(TagRecord) /\ Range(toNegotiate'[d]) \subseteq Range(toNegotiate[d])
        /\ toNegotiate' = [toNegotiate EXCEPT ![d] = toNegotiate'[d]]
    <3> DEFINE q == toNegotiate[d]
    <3>1. toNegotiate'[d] = (IF Len(q) > 1 THEN Tail(q) ELSE <<>>)
          /\ toNegotiate' = [toNegotiate EXCEPT ![d] = toNegotiate'[d]]
      BY <1>3, <2>2 DEF clearToNegotiate
    <3> HIDE DEF q
    <3>2. CASE Len(q) > 1
      <4>1. q # <<>>
        BY <3>2
      <4> QED BY <2>2, <3>1, <3>2, <4>1, TailRange, Zenon DEF q
    <3>3. CASE ~(Len(q) > 1)
      <4>1. toNegotiate'[d] = <<>>
        BY <3>1, <3>3, Zenon
      <4>2. <<>> \in Seq(TagRecord) /\ Range(<<>>) = {}
        BY DEF Range
      <4> QED BY <3>1, <4>1, <4>2, Zenon
    <3> QED BY <3>2, <3>3
  <2>5. Known(v) /\ v.name \in Names /\ Remote[d][v.name] \in Nat
    <3>1. Known(v)
      BY <2>3, Zenon DEF IInv, ConnInv
    <3>2. v.name \in Names
      BY <3>1, Zenon DEF Known, IInv, TypeOK
    <3> QED BY <3>1, <3>2, TagAssumption
  <2>6. TypeOK'
    <3>1. active' \in [Dests -> Seq(Nat)]
      BY <1>3, <2>2, <2>5
    <3>2. toNegotiate' \in [Dests -> Seq(TagRecord)] /\ toNeg' \in [Dests -> Seq(TagRecord)]
      BY <1>3, <2>2, <2>3, <2>4, Zenon
    <3> QED BY <1>3, <2>1, <3>1, <3>2, Zenon DEF IInv, TypeOK
  <2>7. ASSUME NEW c \in Dests PROVE ConnInv(c)'
    <3>1. CASE c = d
      <4>1. conn[c] = "up" /\ held[c] \in Entries
        BY <1>1, <3>1 DEF IInv, ConnInv
      <4>2. Translates(c)'
        <5>1. /\ Len(active'[c]) = Len(active[c]) + 1 /\ Len(active[c]) \in Nat
              /\ \A i \in 1..Len(active[c]) : active'[c][i] = active[c][i]
              /\ active'[c][Len(active[c]) + 1] = Remote[c][v.name]
          BY <1>3, <2>2, <2>5, <3>1
        <5>2. v.name \in DOMAIN tagMap /\ tagMap[v.name] = Len(active[c]) + 1 - 1
          BY <1>3, <2>5, <3>1, <5>1 DEF Known
        <5>3. Translates(c)
          BY <4>1 DEF IInv, ConnInv
        <5>4. ASSUME NEW i \in 1..Len(active'[c])
              PROVE  \E n \in DOMAIN tagMap : tagMap[n] = i - 1 /\ active'[c][i] = Remote[c][n]
          <6>1. i \in 1..Len(active[c]) \/ i = Len(active[c]) + 1
            BY <5>1
          <6>2. CASE i \in 1..Len(active[c])
            BY <5>1, <5>3, <6>2, ZenonT(60) DEF Translates
          <6>3. CASE i = Len(active[c]) + 1
            <7>1. tagMap[v.name] = i - 1 /\ active'[c][i] = Remote[c][v.name]
              BY <5>1, <5>2, <6>3
            <7> QED BY <5>2, <7>1, Zenon
          <6> QED BY <6>1, <6>2, <6>3
        <5> QED BY <2>1, <5>4, Zenon DEF Translates
      <4>3. \A r \in Range(toNegotiate'[c]) : Known(r)'
        BY <2>1, <2>4, <3>1, <4>1, Zenon DEF IInv, ConnInv, Known
      <4>4. toNeg'[c] = Tail(toNeg[d])
        BY <1>3, <2>2, <3>1
      <4>5. \A r \in Range(toNeg'[c]) : Known(r)'
        BY <2>1, <2>3, <4>4, Zenon DEF IInv, ConnInv, Known
      <4> QED BY <1>3, <4>1, <4>2, <4>3, <4>5, Zenon DEF ConnInv
    <3>2. CASE c # d
      <4>1. active'[c] = active[c] /\ toNegotiate'[c] = toNegotiate[c] /\ toNeg'[c] = toNeg[c]
        BY <1>3, <2>2, <2>4, <3>2
      <4> QED BY <1>3, <2>1, <4>1, ConnKept, Zenon
    <3> QED BY <3>1, <3>2
  <2>8. Waiting' \subseteq Waiting /\ SentRight'
    BY <1>3, <2>1, Zenon DEF IInv, Waiting, SentRight
  <2> QED BY <1>1, <2>6, <2>7, <2>8, QuietInv, Zenon
<1> QED BY <1>2, <1>3, Zenon DEF RelayNegotiate

LEMMA RelayInv == ASSUME IInv, NEW d \in Dests, Relay(d) PROVE IInv'
BY TakeInv, TranslateInv, NegotiateInv, NegotiatedInv, EqClearInv, Zenon DEF Relay

-----------------------------------------------------------------------------
\* Making and losing connections.
LEMMA PublishInv == ASSUME IInv, NEW d \in Dests, Publish(d) PROVE IInv'
<1>1. /\ up /\ conn[d] = "made" /\ conn' = [conn EXCEPT ![d] = "up"]
      /\ UNCHANGED <<up, panic, mapVars, waitVars, active, toNegotiate, relayVars, sent, crashes, breaks>>
  BY Zenon DEF Publish
<1>2. UNCHANGED <<up, panic, tagMap, tagcache, tag, queue, saved, active, toNegotiate, relay, held,
                  toNeg, sent, crashes, breaks>>
  BY <1>1, Zenon DEF mapVars, waitVars, relayVars
<1>3. TypeOK'
  <2>1. conn' \in [Dests -> {"down", "made", "up"}]
    BY <1>1 DEF IInv, TypeOK
  <2> QED BY <1>2, <2>1, Zenon DEF IInv, TypeOK
<1>4. ASSUME NEW c \in Dests PROVE ConnInv(c)'
  <2>1. CASE c = d
    <3>1. conn'[c] = "up" /\ conn[c] # "down"
      BY <1>1, <2>1 DEF IInv, TypeOK
    <3> QED BY <1>2, <3>1 DEF IInv, ConnInv, Translates, Known
  <2>2. CASE c # d
    <3>1. conn'[c] = conn[c]
      BY <1>1, <2>2 DEF IInv, TypeOK
    <3> QED BY <1>2, <3>1, ConnKept, Zenon
  <2> QED BY <2>1, <2>2
<1>5. Waiting' \subseteq Waiting /\ SentRight'
  BY <1>2, Zenon DEF IInv, Waiting, SentRight
<1>6. UNCHANGED <<up, panic, mapVars, tag>>
  BY <1>2, Zenon DEF mapVars
<1> QED BY <1>1, <1>3, <1>4, <1>5, <1>6, QuietInv, Zenon

LEMMA BreakInv == ASSUME IInv, NEW d \in Dests, Break(d) PROVE IInv'
<1>1. /\ up /\ Reconnect(d) /\ breaks < MaxBreaks /\ breaks' = breaks + 1
      /\ UNCHANGED <<up, panic, mapVars, tag, saved, crashes>>
  BY Zenon DEF Break
<1>2. breaks' \in 0..MaxBreaks
  BY <1>1, TagAssumption DEF IInv, TypeOK
<1> QED BY <1>1, <1>2, ReconnectInv, Zenon

LEMMA TagTransInv == ASSUME IInv, NEW d \in Dests, newTagTrans(d) PROVE IInv'
<1> DEFINE len == Cardinality(DOMAIN tagMap)
           name(i) == CHOOSE n \in DOMAIN tagMap : tagMap[n] = i - 1
           tr == [i \in 1..len |-> Remote[d][name(i)]]
<1>1. /\ up /\ conn[d] = "down"
      /\ UNCHANGED <<mapVars, waitVars, relayVars, sent, crashes, breaks>>
  BY Zenon DEF newTagTrans
<1>2. UNCHANGED <<tagMap, tagcache, tag, queue, saved, relay, held, toNeg, sent, crashes, breaks>>
  BY <1>1, Zenon DEF mapVars, waitVars, relayVars
<1>3. CASE /\ \E n \in DOMAIN tagMap : tagMap[n] = len
           /\ panic' = TRUE /\ up' = FALSE /\ UNCHANGED connVars
  <2>1. UNCHANGED <<conn, active, toNegotiate>>
    BY <1>3, Zenon DEF connVars
  <2>2. TypeOK'
    BY <1>2, <1>3, <2>1, Zenon DEF IInv, TypeOK
  <2>3. \A c \in Dests : ConnInv(c)'
    BY <1>2, <2>1, ConnKept, Zenon
  <2>4. 0 \notin Range(tagMap) /\ tagcache = tagMap
    BY <1>1, <1>3, NumbersFit, Zenon DEF IInv
  <2>5. PanicNeedsNoTags' /\ SentRight'
    BY <1>2, <2>4, Zenon DEF IInv, PanicNeedsNoTags, SentRight
  <2>6. MeaningKept' /\ ~up' /\ panic'
    BY <1>2, <1>3, Zenon DEF IInv, MeaningKept
  <2>7. GoodMap(tagMap)' /\ GoodMap(tagcache)'
    BY <1>2 DEF IInv, GoodMap
  <2> QED BY <2>2, <2>3, <2>5, <2>6, <2>7, Zenon DEF IInv
<1>4. CASE /\ \A n \in DOMAIN tagMap : tagMap[n] < len
           /\ conn' = [conn EXCEPT ![d] = "made"] /\ active' = [active EXCEPT ![d] = tr]
           /\ toNegotiate' = [toNegotiate EXCEPT ![d] = <<>>] /\ UNCHANGED <<panic, up>>
  <2>1. len \in Nat /\ \A i \in 1..len : \E n \in DOMAIN tagMap : tagMap[n] = i - 1
    BY <1>4, NumbersUsed, Zenon DEF IInv
  <2>2. \A i \in 1..len : name(i) \in DOMAIN tagMap /\ tagMap[name(i)] = i - 1
    BY <2>1, Zenon
  <2> HIDE DEF name
  <2>3. \A i \in 1..len : Remote[d][name(i)] \in Nat
    BY <2>2, TagAssumption DEF IInv, TypeOK
  <2> HIDE DEF len
  <2>4. tr \in Seq(Nat) /\ Len(tr) = len /\ \A i \in 1..len : tr[i] = Remote[d][name(i)]
    BY <2>1, <2>3
  <2> HIDE DEF tr
  <2>5. TypeOK'
    <3>1. /\ conn' \in [Dests -> {"down", "made", "up"}] /\ active' \in [Dests -> Seq(Nat)]
          /\ toNegotiate' \in [Dests -> Seq(TagRecord)]
      BY <1>4, <2>4 DEF IInv, TypeOK
    <3> QED BY <1>2, <1>4, <3>1, Zenon DEF IInv, TypeOK
  <2>6. ASSUME NEW c \in Dests PROVE ConnInv(c)'
    <3>1. CASE c = d
      <4>1. active'[c] = tr /\ toNegotiate'[c] = <<>> /\ relay[c] = "idle"
        BY <1>1, <1>4, <3>1 DEF IInv, TypeOK, ConnInv
      <4>2. Translates(c)'
        BY <1>2, <2>2, <2>4, <3>1, <4>1, Zenon DEF Translates
      <4>3. Range(toNegotiate'[c]) = {}
        BY <4>1 DEF Range
      <4>4. \A r \in Range(toNeg'[c]) : Known(r)'
        BY <1>2, Zenon DEF IInv, ConnInv, Known
      <4> QED BY <1>2, <4>1, <4>2, <4>3, <4>4, Zenon DEF ConnInv
    <3>2. CASE c # d
      <4>1. conn'[c] = conn[c] /\ active'[c] = active[c] /\ toNegotiate'[c] = toNegotiate[c]
        BY <1>4, <3>2 DEF IInv, TypeOK
      <4> QED BY <1>2, <4>1, ConnKept, Zenon
    <3> QED BY <3>1, <3>2
  <2>7. Waiting' \subseteq Waiting /\ SentRight'
    BY <1>2, Zenon DEF IInv, Waiting, SentRight
  <2>8. UNCHANGED <<up, panic, mapVars, tag>>
    BY <1>2, <1>4, Zenon DEF mapVars
  <2> QED BY <1>1, <2>5, <2>6, <2>7, <2>8, QuietInv, Zenon
<1> QED BY <1>3, <1>4, Zenon DEF newTagTrans

-----------------------------------------------------------------------------
\* Entries that are written, and those the cache takes to disk.
LEMMA SpillInv == ASSUME IInv, NEW e \in Entries, Spill(e) PROVE IInv'
<1>1. /\ up /\ e \in queue /\ queue' = queue \ {e} /\ saved' = saved \cup {e}
      /\ UNCHANGED <<up, panic, mapVars, tag, connVars, relayVars, sent, crashes, breaks>>
  BY Zenon DEF Spill
<1>2. UNCHANGED <<up, panic, tagMap, tagcache, tag, conn, active, toNegotiate, relay, held, toNeg,
                  sent, crashes, breaks>>
  BY <1>1, Zenon DEF mapVars, connVars, relayVars
<1>3. TypeOK'
  <2>1. queue' \subseteq Entries /\ saved' \subseteq Entries
    BY <1>1, Zenon DEF IInv, TypeOK
  <2> QED BY <1>2, <2>1, Zenon DEF IInv, TypeOK
<1>4. \A c \in Dests : ConnInv(c)'
  BY <1>2, ConnKept, Zenon
<1>5. Waiting' \subseteq Waiting /\ SentRight'
  BY <1>1, <1>2, Zenon DEF IInv, Waiting, SentRight
<1> QED BY <1>1, <1>3, <1>4, <1>5, QuietInv, Zenon

LEMMA WriteInv == ASSUME IInv, NEW e \in Entries, WriteEntry(e) PROVE IInv'
<1>1. /\ up /\ NameOf[e] \in DOMAIN tagMap /\ e \notin queue \cup saved \cup Range(held)
      /\ tag' = [tag EXCEPT ![e] = tagMap[NameOf[e]]] /\ queue' = queue \cup {e}
      /\ UNCHANGED <<up, panic, mapVars, saved, connVars, relayVars, sent, crashes, breaks>>
  BY Zenon DEF WriteEntry
<1>2. UNCHANGED <<up, panic, tagMap, tagcache, saved, conn, active, toNegotiate, relay, held, toNeg,
                  sent, crashes, breaks>>
  BY <1>1, Zenon DEF mapVars, connVars, relayVars
<1>3. TypeOK'
  <2>1. queue' \subseteq Entries /\ tag' \in [Entries -> Nat]
    BY <1>1 DEF IInv, TypeOK
  <2> QED BY <1>2, <2>1, Zenon DEF IInv, TypeOK
<1>4. \A c \in Dests : ConnInv(c)'
  BY <1>2, ConnKept, Zenon
<1>5. MeaningKept'
  <2>1. Waiting' = Waiting \cup {e} /\ e \notin Waiting
    <3>1. e # NoEntry
      BY TagAssumption
    <3> QED BY <1>1, <1>2, <3>1, Zenon DEF Waiting
  <2>2. Waiting \subseteq Entries
    BY DEF Waiting, IInv, TypeOK, Range
  <2>3. tag'[e] = tagMap[NameOf[e]] /\ \A x \in Waiting : tag'[x] = tag[x]
    BY <1>1, <2>1, <2>2 DEF IInv, TypeOK
  <2>4. saved \subseteq Waiting /\ tagcache = tagMap
    BY <1>1, Zenon DEF Waiting, IInv
  <2>5. \A x \in Waiting' : NameOf[x] \in DOMAIN tagMap /\ tagMap[NameOf[x]] = tag'[x]
    BY <1>1, <2>1, <2>3, Zenon DEF IInv, MeaningKept
  <2> QED BY <1>2, <2>1, <2>4, <2>5, Zenon DEF MeaningKept
<1>6. GoodMap(tagMap)' /\ GoodMap(tagcache)' /\ (up => tagcache = tagMap /\ ~panic)' /\ PanicNeedsNoTags'
  BY <1>2 DEF IInv, GoodMap, PanicNeedsNoTags
<1>7. SentRight' /\ up'
  BY <1>1, <1>2 DEF IInv, SentRight
<1> QED BY <1>3, <1>4, <1>5, <1>6, <1>7, Zenon DEF IInv

-----------------------------------------------------------------------------
\* A connection keeps its translator when names are added to the map.
LEMMA ConnGrows ==
  ASSUME IInv, NEW d \in Dests, UNCHANGED <<conn, active, relay, held, toNeg>>,
         \A n \in DOMAIN tagMap : n \in DOMAIN tagMap' /\ tagMap'[n] = tagMap[n],
         conn[d] # "down" => \A r \in Range(toNegotiate'[d]) : r \in Range(toNegotiate[d]) \/ Known(r)'
  PROVE  ConnInv(d)'
<1>1. \A r : Known(r) => Known(r)'
  BY Zenon DEF Known
<1>2. Translates(d) => Translates(d)'
  BY ZenonT(60) DEF Translates
<1> QED BY <1>1, <1>2, Zenon DEF IInv, ConnInv

LEMMA NegotiateTagInv == ASSUME IInv, NEW n \in Names, NegotiateTag(n) PROVE IInv'
<1> DEFINE tg == IF tagMap = Empty THEN 1 ELSE Largest(tagMap) + 1
           x == [m \in DOMAIN tagMap \cup {n} |-> IF m = n THEN tg ELSE tagMap[m]]
           new(d) == IF conn[d] = "up" /\ tg >= Len(active[d])
                       THEN Append(toNegotiate[d], [name |-> n, local |-> tg])
                       ELSE toNegotiate[d]
<1>1. /\ up /\ n \notin DOMAIN tagMap /\ tagMap' = x /\ tagcache' = tagMap'
      /\ toNegotiate' = [d \in Dests |-> new(d)]
      /\ UNCHANGED <<up, panic, waitVars, conn, active, relayVars, sent, crashes, breaks>>
  BY Zenon DEF NegotiateTag
<1>2. UNCHANGED <<up, panic, tag, queue, saved, conn, active, relay, held, toNeg, sent, crashes, breaks>>
  BY <1>1, Zenon DEF waitVars, relayVars
<1>3. /\ GoodMap(x) /\ tg \in Nat /\ x[n] = tg /\ \A k \in DOMAIN tagMap : x[k] = tagMap[k]
      /\ \A w \in Range(tagMap) : w < tg
  <2>1. n \in Names \ DOMAIN tagMap /\ GoodMap(tagMap)
    BY <1>1, Zenon DEF IInv
  <2> QED BY <2>1, NegotiatedMap
<1>4. DOMAIN x = DOMAIN tagMap \cup {n}
  OBVIOUS
<1> HIDE DEF x, tg
<1>5. /\ n \in DOMAIN tagMap' /\ tagMap'[n] = tg
      /\ \A k \in DOMAIN tagMap : k \in DOMAIN tagMap' /\ tagMap'[k] = tagMap[k]
  BY <1>1, <1>3, <1>4, Zenon
<1>6. ASSUME NEW d \in Dests
      PROVE  /\ toNegotiate'[d] \in Seq(TagRecord)
             /\ \A r \in Range(toNegotiate'[d]) : r \in Range(toNegotiate[d]) \/ Known(r)'
  <2> DEFINE v == [name |-> n, local |-> tg]
  <2>1. toNegotiate[d] \in Seq(TagRecord) /\ v \in TagRecord
    BY <1>3, Zenon DEF IInv, TypeOK, TagRecord
  <2>2. \A r : r = v => Known(r)'
    BY <1>5 DEF Known
  <2> HIDE DEF v
  <2>3. /\ Append(toNegotiate[d], v) \in Seq(TagRecord)
        /\ \A r \in Range(Append(toNegotiate[d], v)) : r \in Range(toNegotiate[d]) \/ r = v
    BY <2>1 DEF Range
  <2>4. toNegotiate'[d] = toNegotiate[d] \/ toNegotiate'[d] = Append(toNegotiate[d], v)
    BY <1>1, Zenon DEF v
  <2> QED BY <2>1, <2>2, <2>3, <2>4, Zenon
<1>7. TypeOK'
  <2>1. toNegotiate' \in [Dests -> Seq(TagRecord)]
    BY <1>1, <1>6
  <2>2. /\ DOMAIN tagMap' \subseteq Names /\ tagMap' \in [DOMAIN tagMap' -> Nat]
        /\ DOMAIN tagcache' \subseteq Names /\ tagcache' \in [DOMAIN tagcache' -> Nat]
    BY <1>1, <1>3, Zenon DEF GoodMap
  <2> QED BY <1>2, <2>1, <2>2, Zenon DEF IInv, TypeOK
<1>8. \A d \in Dests : ConnInv(d)'
  BY <1>2, <1>5, <1>6, ConnGrows, Zenon
<1>9. MeaningKept'
  <2>1. Waiting' = Waiting /\ saved \subseteq Waiting
    BY <1>2, Zenon DEF Waiting
  <2> QED BY <1>1, <1>2, <1>5, <2>1, Zenon DEF IInv, MeaningKept
<1>10. GoodMap(tagMap)' /\ GoodMap(tagcache)'
  BY <1>1, <1>3 DEF GoodMap
<1>11. SentRight' /\ up' /\ ~panic'
  <2>1. ~panic
    BY <1>1, Zenon DEF IInv
  <2> QED BY <1>1, <1>2, <2>1 DEF IInv, SentRight
<1> QED BY <1>1, <1>7, <1>8, <1>9, <1>10, <1>11, Zenon DEF IInv, PanicNeedsNoTags

LEMMA MadeInv == ASSUME IInv, NEW T \in Configs, newIngestMuxer(T) PROVE IInv'
<1> DEFINE new == T \ DOMAIN tagcache
           tagNext == IF tagcache = Empty THEN 0 ELSE Largest(tagcache) + 1
           numbers == tagNext .. (tagNext + Cardinality(new) - 1)
<1>1. /\ ~up /\ ~panic /\ up' = TRUE
      /\ UNCHANGED <<panic, waitVars, connVars, relayVars, sent, crashes, breaks>>
  BY Zenon DEF newIngestMuxer
<1>2. UNCHANGED <<panic, tag, queue, saved, conn, active, toNegotiate, relay, held, toNeg, sent,
                  crashes, breaks>>
  BY <1>1, Zenon DEF waitVars, connVars, relayVars
<1>3. PICK num \in [new -> numbers] :
        Range(num) = numbers /\ tagMap' = Extension(tagcache, new, num) /\ tagcache' = tagMap'
  BY Zenon DEF newIngestMuxer, Extension
<1>4. GoodMap(tagMap')
  <2>1. num \in [new -> Int]
    BY <1>3
  <2>2. T \in SUBSET Names /\ GoodMap(tagcache)
    BY TagAssumption, Zenon DEF IInv
  <2> QED BY <1>3, <2>1, <2>2, ConfiguredMap, Zenon
<1>5. \A n \in DOMAIN tagcache : n \in DOMAIN tagMap' /\ tagMap'[n] = tagcache[n]
  BY <1>3, Zenon DEF Extension
<1>6. TypeOK'
  <2>1. /\ DOMAIN tagMap' \subseteq Names /\ tagMap' \in [DOMAIN tagMap' -> Nat]
        /\ DOMAIN tagcache' \subseteq Names /\ tagcache' \in [DOMAIN tagcache' -> Nat]
    BY <1>3, <1>4, Zenon DEF GoodMap
  <2> QED BY <1>1, <1>2, <2>1, Zenon DEF IInv, TypeOK
<1>7. queue = {} /\ \A d \in Dests : Idle(d)
  BY <1>1, Zenon DEF IInv
<1>8. ASSUME NEW d \in Dests PROVE ConnInv(d)'
  <2>1. conn'[d] = "down" /\ relay'[d] = "idle" /\ toNeg'[d] = <<>>
    BY <1>2, <1>7 DEF Idle, IInv, ConnInv, TypeOK
  <2> QED BY <2>1 DEF ConnInv, Range
<1>9. MeaningKept'
  <2>1. Range(held') \subseteq {NoEntry}
    BY <1>2, <1>7 DEF Idle, Range, IInv, TypeOK
  <2>2. Waiting' = saved /\ saved' = saved
    BY <1>2, <1>7, <2>1, Zenon DEF Waiting
  <2> QED BY <1>2, <1>3, <1>5, <2>2, Zenon DEF IInv, MeaningKept
<1>10. GoodMap(tagMap)' /\ GoodMap(tagcache)'
  BY <1>3, <1>4, Zenon DEF GoodMap
<1>11. SentRight' /\ up' /\ ~panic'
  BY <1>1, <1>2 DEF IInv, SentRight
<1> QED BY <1>3, <1>6, <1>8, <1>9, <1>10, <1>11, Zenon DEF IInv, PanicNeedsNoTags

\* The end of a process, with or without Close().
LEMMA GoneInv ==
  ASSUME IInv, up, crashes < MaxCrashes, Gone, UNCHANGED <<panic, tag, sent, breaks>>,
         \/ saved' = saved /\ tagcache' = tagcache
         \/ saved' = Waiting /\ tagcache' = IF saved' = {} THEN Empty ELSE tagcache
  PROVE  IInv'
<1>1. ~up' /\ tagMap' = Empty /\ queue' = {} /\ ~panic'
  <2>1. ~panic
    BY Zenon DEF IInv
  <2> QED BY <2>1 DEF Gone
<1>2. \A d \in Dests : /\ conn'[d] = "down" /\ held'[d] = NoEntry /\ toNeg'[d] = <<>>
                       /\ relay'[d] = "idle"
  BY DEF Gone
<1>3. Empty \in [DOMAIN Empty -> Nat] /\ DOMAIN Empty = {} /\ GoodMap(Empty)
  BY DEF Empty, GoodMap, Range, IsInjective
<1>4. saved' \subseteq Waiting /\ Waiting \subseteq Entries
  <2>1. saved \subseteq Waiting
    BY Zenon DEF Waiting
  <2>2. Waiting \subseteq Entries
    BY DEF Waiting, IInv, TypeOK, Range
  <2> QED BY <2>1, <2>2, Zenon
<1>5. tagcache' = tagcache \/ (tagcache' = Empty /\ saved' = {})
  OBVIOUS
<1>6. TypeOK'
  <2>1. <<>> \in Seq(Nat) /\ <<>> \in Seq(TagRecord)
    OBVIOUS
  <2>2. /\ conn' \in [Dests -> {"down", "made", "up"}]
        /\ relay' \in [Dests -> {"idle", "translate", "negotiate"}]
        /\ held' \in [Dests -> Entries \cup {NoEntry}]
    BY DEF Gone
  <2>3. /\ active' \in [Dests -> Seq(Nat)] /\ toNegotiate' \in [Dests -> Seq(TagRecord)]
        /\ toNeg' \in [Dests -> Seq(TagRecord)]
    BY <2>1, Zenon DEF Gone
  <2>4. crashes' \in 0..MaxCrashes
    BY TagAssumption DEF Gone, IInv, TypeOK
  <2>5. up' \in BOOLEAN /\ panic' \in BOOLEAN
    BY Zenon DEF Gone, IInv, TypeOK
  <2>6. DOMAIN tagcache' \subseteq Names /\ tagcache' \in [DOMAIN tagcache' -> Nat]
    BY <1>3, <1>5, Zenon DEF IInv, TypeOK
  <2>7. /\ DOMAIN tagMap' \subseteq Names /\ tagMap' \in [DOMAIN tagMap' -> Nat]
        /\ queue' \subseteq Entries /\ saved' \subseteq Entries
    BY <1>1, <1>3, <1>4, Zenon
  <2> QED BY <2>2, <2>3, <2>4, <2>5, <2>6, <2>7, Zenon DEF IInv, TypeOK
<1>7. \A d \in Dests : ConnInv(d)' /\ Idle(d)'
  BY <1>2 DEF ConnInv, Idle, Range
<1>8. MeaningKept'
  BY <1>1, <1>4, <1>5, Zenon DEF IInv, MeaningKept
<1>9. GoodMap(tagMap)' /\ GoodMap(tagcache)'
  BY <1>1, <1>3, <1>5, Zenon DEF IInv, GoodMap
<1>10. SentRight'
  BY Zenon DEF IInv, SentRight
<1> QED BY <1>1, <1>6, <1>7, <1>8, <1>9, <1>10, Zenon DEF IInv, PanicNeedsNoTags

-----------------------------------------------------------------------------
LEMMA StepInv == IInv /\ [Next]_vars => IInv'
<1> SUFFICES ASSUME IInv, [Next]_vars PROVE IInv'
  OBVIOUS
<1>1. CASE \E T \in Configs : newIngestMuxer(T)
  BY <1>1, MadeInv, Zenon
<1>2. CASE \E n \in Names : NegotiateTag(n)
  BY <1>2, NegotiateTagInv, Zenon
<1>3. CASE \E e \in Entries : WriteEntry(e) \/ Spill(e)
  BY <1>3, WriteInv, SpillInv, Zenon
<1>4. CASE \E d \in Dests : newTagTrans(d) \/ Publish(d) \/ Relay(d) \/ Break(d)
  BY <1>4, TagTransInv, PublishInv, RelayInv, BreakInv, Zenon
<1>5. CASE Close
  BY <1>5, GoneInv, Zenon DEF Close, Waiting
<1>6. CASE Crash
  BY <1>6, GoneInv, Zenon DEF Crash
<1>7. CASE UNCHANGED vars
  <2>1. UNCHANGED <<up, panic, tagMap, tagcache, tag, queue, saved, conn, active, toNegotiate, relay,
                    held, toNeg, sent, crashes, breaks>>
    BY <1>7, Zenon DEF vars, mapVars, waitVars, connVars, relayVars
  <2>2. /\ TypeOK' /\ (GoodMap(tagMap) /\ GoodMap(tagcache))' /\ PanicNeedsNoTags' /\ SentRight'
    BY <2>1 DEF IInv, TypeOK, GoodMap, PanicNeedsNoTags, SentRight
  <2>3. \A d \in Dests : ConnInv(d)'
    BY <2>1, ConnKept, Zenon
  <2>4. MeaningKept'
    BY <2>1, Zenon DEF IInv, MeaningKept, Waiting
  <2>5. (up => tagcache = tagMap /\ ~panic)' /\ (~up /\ ~panic => queue = {} /\ \A d \in Dests : Idle(d))'
    BY <2>1 DEF IInv, Idle
  <2> QED BY <2>2, <2>3, <2>4, <2>5, Zenon DEF IInv
<1> QED BY <1>1, <1>2, <1>3, <1>4, <1>5, <1>6, <1>7, Zenon DEF Next

LEMMA Invariant == Spec => []IInv
BY InitInv, StepInv, PTL DEF Spec

\* The state has its types.
THEOREM TypeCorrect == Spec => []TypeOK
<1>1. IInv => TypeOK
  BY Zenon DEF IInv
<1> QED BY <1>1, Invariant, PTL

\* However negotiation, new connections and restarts interleave, no entry is
\* sent with a number that means another name to its indexer.
THEOREM SentWithItsTag == Spec => []SentRight
<1>1. IInv => SentRight
  BY Zenon DEF IInv
<1> QED BY <1>1, Invariant, PTL

\* The numbers in cached entries mean the same names in every life of the
\* process.
THEOREM NumbersKeepMeaning == Spec => []MeaningKept
<1>1. IInv => MeaningKept
  BY Zenon DEF IInv
<1> QED BY <1>1, Invariant, PTL

\* newTagTrans() indexes past its translator only when no tag has number 0,
\* and so never in a muxer that was started with a tag.
THEOREM TranslatorLongEnough == Spec => []PanicNeedsNoTags
<1>1. IInv => PanicNeedsNoTags
  BY Zenon DEF IInv
<1> QED BY <1>1, Invariant, PTL
=============================================================================
