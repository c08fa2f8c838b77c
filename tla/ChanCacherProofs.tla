-------------------------- MODULE ChanCacherProofs --------------------------
(***************************************************************************)
(* The safety of a ChanCacher for every set of values, depth, size limit,  *)
(* initial cache contents and number of failed writes.                     *)
(***************************************************************************)
EXTENDS ChanCacher, TLAPS

\* What a sequence holds after a send (Append) and a receive (Head, Tail).
LEMMA ElemsEmpty == Elems(<<>>) = {}
BY DEF Elems

LEMMA ElemsAppend ==
  ASSUME NEW S, NEW s \in Seq(S), NEW x \in S
  PROVE  Elems(Append(s, x)) = Elems(s) \cup {x}
<1> DEFINE t == Append(s, x)
<1>1. DOMAIN s = 1..Len(s) /\ DOMAIN t = 1..(Len(s) + 1) /\ Len(s) \in Nat
  OBVIOUS
<1>2. t[Len(s) + 1] = x /\ \A i \in 1..Len(s) : t[i] = s[i]
  OBVIOUS
<1>3. \A i \in 1..(Len(s) + 1) : i = Len(s) + 1 \/ i \in 1..Len(s)
  BY <1>1
<1>4. Len(s) + 1 \in 1..(Len(s) + 1) /\ 1..Len(s) \subseteq 1..(Len(s) + 1)
  BY <1>1
<1> HIDE DEF t
<1>5. Elems(t) = Elems(s) \cup {x}
  BY <1>1, <1>2, <1>3, <1>4 DEF Elems
<1> QED BY <1>5 DEF t

LEMMA ElemsHeadTail ==
  ASSUME NEW S, NEW s \in Seq(S), s # <<>>
  PROVE  Elems(s) = {Head(s)} \cup Elems(Tail(s))
<1> DEFINE t == Tail(s)
           h == Head(s)
<1>1. DOMAIN s = 1..Len(s) /\ Len(s) \in Nat \ {0}
  OBVIOUS
<1>2. DOMAIN t = 1..(Len(s) - 1) /\ h = s[1]
  OBVIOUS
<1>3. \A i \in 1..(Len(s) - 1) : t[i] = s[i + 1]
  OBVIOUS
<1> HIDE DEF t, h
<1>4. ASSUME NEW i \in 1..Len(s)
      PROVE  s[i] \in {h} \cup Elems(t)
  <2>1. CASE i = 1
    BY <2>1, <1>2
  <2>2. CASE i # 1
    <3>1. i - 1 \in 1..(Len(s) - 1) /\ (i - 1) + 1 = i
      BY <1>1, <2>2
    <3>2. t[i - 1] = s[i]
      BY <1>3, <3>1
    <3> QED BY <3>1, <3>2, <1>2 DEF Elems
  <2> QED BY <2>1, <2>2
<1>5. ASSUME NEW i \in 1..(Len(s) - 1)
      PROVE  t[i] \in Elems(s)
  <2>1. i + 1 \in 1..Len(s)
    BY <1>1
  <2> QED BY <2>1, <1>1, <1>3 DEF Elems
<1>6. h \in Elems(s)
  BY <1>1, <1>2 DEF Elems
<1>7. Elems(s) \subseteq {h} \cup Elems(t)
  BY <1>1, <1>4 DEF Elems
<1>8. Elems(t) \subseteq Elems(s)
  BY <1>2, <1>5 DEF Elems
<1>9. Elems(s) = {h} \cup Elems(t)
  BY <1>6, <1>7, <1>8
<1> QED BY <1>9 DEF t, h

\* What is put into a channel or a file and was not there is there once.
LEMMA AppendOnce ==
  ASSUME NEW S, NEW s \in Seq(S), NEW x \in S, NoRepeat(s, 0), x \notin Elems(s) \/ x = Torn
  PROVE  NoRepeat(Append(s, x), 0)
<1> DEFINE t == Append(s, x)
<1>1. /\ Len(s) \in Nat /\ Len(t) = Len(s) + 1 /\ t[Len(s) + 1] = x /\ DOMAIN s = 1..Len(s)
      /\ \A i \in 1..Len(s) : t[i] = s[i]
  OBVIOUS
<1> HIDE DEF t
<1> SUFFICES ASSUME NEW i \in 1..Len(t), NEW j \in 1..Len(t), t[i] = t[j], t[i] # Torn
             PROVE  i = j
  BY <1>1 DEF NoRepeat, t
<1>2. \A k \in 1..Len(t) : k = Len(s) + 1 \/ k \in 1..Len(s)
  BY <1>1
<1>3. \A k \in 1..Len(s) : s[k] = x => x = Torn
  BY <1>1 DEF Elems
<1>4. \A k, l \in 1..Len(s) : s[k] = s[l] => k = l \/ s[k] = Torn
  BY <1>1 DEF NoRepeat
<1> QED BY <1>1, <1>2, <1>3, <1>4

\* TypeOK in four parts: the flags, where the goroutines are and what they
\* hold, the values and channels, and the two files.
FlagsOK ==
  /\ inClosed \in BOOLEAN /\ outClosed \in BOOLEAN
  /\ selReady \in BOOLEAN /\ runDone \in BOOLEAN /\ readerStopped \in BOOLEAN
  /\ cacheModified \in BOOLEAN /\ cacheReading \in BOOLEAN /\ cachePaused \in BOOLEAN
  /\ cacheDone \in BOOLEAN /\ cacheAck \in BOOLEAN /\ cacheCommitted \in BOOLEAN
  /\ cacheLock \in BOOLEAN /\ fileLock \in BOOLEAN

HandsOK ==
  /\ runPc \in {"recv", "try", "select", "wait", "encode", "poll", "poll2", "finish", "ack",
                "close", "done"}
  /\ runVal \in Value \cup {NoVal}
  /\ handlerPc \in {"off", "start", "decode", "send", "check", "wait", "sleep", "swap", "done"}
  /\ handlerVal \in Value \cup {NoVal}
  /\ commitPc \in {"idle", "loop", "wait", "encode", "done"}
  /\ commitVal \in Value \cup {NoVal}
  /\ HandsInv

ValuesOK ==
  /\ accepted \subseteq Values /\ delivered \subseteq Value /\ lost \subseteq Value
  /\ fails \in 0..MaxFails
  /\ out \in Seq(Value) /\ Len(out) <= MaxDepth

FilesOK ==
  /\ cacheR \in FileType /\ cacheW \in FileType
  /\ decoded \in 0..cacheR.pos /\ cacheR.pos <= Len(cacheR.data)
  /\ FilesInv

\* The outcomes of cacheValue()'s write: the value is in the file, or the write
\* failed, the value is lost and the file may have a torn record more.
LEMMA EncodeOutcome ==
  ASSUME cacheW \in FileType, lost \subseteq Value, fails \in 0..MaxFails,
         NEW v \in Value \ {Nil}, Encode(v)
  PROVE  /\ cacheW' \in FileType /\ lost' \subseteq Value /\ fails' \in 0..MaxFails
         /\ cacheW'.pos = cacheW.pos /\ cacheW'.count = cacheW.count + 1
         /\ Len(cacheW'.data) <= Len(cacheW.data) + 1
         /\ Elems(cacheW.data) \subseteq Elems(cacheW'.data)
         /\ v \notin Elems(cacheW.data) /\ NoRepeat(cacheW.data, 0) => NoRepeat(cacheW'.data, 0)
         /\ cacheR' = cacheR /\ cacheModified' = TRUE
         /\ \/ /\ Elems(cacheW'.data) = Elems(cacheW.data) \cup {v}
               /\ lost' = lost /\ fails' = fails
            \/ /\ Elems(cacheW'.data) \ {Torn} = Elems(cacheW.data) \ {Torn}
               /\ lost' = lost \cup {v} /\ fails' = fails + 1
<1> DEFINE E == (Value \ {Nil}) \cup {Torn}
<1>1. /\ cacheW.data \in Seq(E) /\ cacheW.count \in Nat /\ cacheW.pos \in Nat /\ Len(cacheW.data) \in Nat
      /\ cacheW = [data |-> cacheW.data, count |-> cacheW.count, pos |-> cacheW.pos]
  BY DEF FileType
<1>2. ASSUME NEW x \in E
      PROVE  /\ Append(cacheW.data, x) \in Seq(E)
             /\ Len(Append(cacheW.data, x)) = Len(cacheW.data) + 1
             /\ Elems(Append(cacheW.data, x)) = Elems(cacheW.data) \cup {x}
             /\ (x \notin Elems(cacheW.data) \/ x = Torn) /\ NoRepeat(cacheW.data, 0)
                  => NoRepeat(Append(cacheW.data, x), 0)
  BY <1>1, <1>2, ElemsAppend, AppendOnce
<1>3. ASSUME NEW d \in Seq(E),
             cacheW' = [data |-> d, count |-> cacheW.count + 1, pos |-> cacheW.pos]
      PROVE  /\ cacheW' \in FileType
             /\ cacheW'.pos = cacheW.pos /\ cacheW'.count = cacheW.count + 1
             /\ cacheW'.data = d
  BY <1>1, <1>3 DEF FileType
<1>4. cacheR' = cacheR /\ cacheModified' = TRUE
  BY DEF Encode
<1>5. CASE /\ cacheW' = [cacheW EXCEPT !.data = Append(@, v), !.count = @ + 1]
           /\ UNCHANGED <<lost, fails>>
  <2>1. cacheW' = [data |-> Append(cacheW.data, v), count |-> cacheW.count + 1, pos |-> cacheW.pos]
    BY <1>1, <1>5, Zenon
  <2>2. /\ Append(cacheW.data, v) \in Seq(E) /\ cacheW' \in FileType
        /\ cacheW'.pos = cacheW.pos /\ cacheW'.count = cacheW.count + 1 /\ cacheW'.data = Append(cacheW.data, v)
    BY <1>2, <1>3, <2>1, Zenon
  <2>3. Len(cacheW'.data) <= Len(cacheW.data) + 1 /\ Elems(cacheW'.data) = Elems(cacheW.data) \cup {v}
    BY <1>1, <1>2, <2>2
  <2> QED BY <1>2, <1>4, <1>5, <2>2, <2>3, Zenon
<1>6. CASE /\ fails < MaxFails /\ fails' = fails + 1 /\ lost' = lost \cup {v}
           /\ \/ cacheW' = [cacheW EXCEPT !.count = @ + 1]
              \/ cacheW' = [cacheW EXCEPT !.data = Append(@, Torn), !.count = @ + 1]
  <2>1. fails' \in 0..MaxFails /\ lost' \subseteq Value
    BY <1>6, ChanCacherAssumption
  <2>2. PICK d \in {cacheW.data, Append(cacheW.data, Torn)} :
          cacheW' = [data |-> d, count |-> cacheW.count + 1, pos |-> cacheW.pos]
    BY <1>1, <1>6, Zenon
  <2>3. /\ d \in Seq(E) /\ Len(d) <= Len(cacheW.data) + 1
        /\ Elems(cacheW.data) \subseteq Elems(d) /\ Elems(d) \ {Torn} = Elems(cacheW.data) \ {Torn}
        /\ NoRepeat(cacheW.data, 0) => NoRepeat(d, 0)
    <3> DEFINE e == Append(cacheW.data, Torn)
    <3>1. /\ e \in Seq(E) /\ Len(e) = Len(cacheW.data) + 1 /\ Elems(e) = Elems(cacheW.data) \cup {Torn}
          /\ NoRepeat(cacheW.data, 0) => NoRepeat(e, 0)
      BY <1>2, Zenon
    <3> HIDE DEF e, E
    <3>2. d \in {cacheW.data, e}
      BY DEF e
    <3> QED BY <1>1, <3>1, <3>2
  <2>4. /\ cacheW' \in FileType
        /\ cacheW'.pos = cacheW.pos /\ cacheW'.count = cacheW.count + 1 /\ cacheW'.data = d
    BY <1>3, <2>2, <2>3, Zenon
  <2> QED BY <1>4, <1>6, <2>1, <2>3, <2>4, Zenon
<1> QED BY <1>5, <1>6 DEF Encode

-----------------------------------------------------------------------------
\* The steps that move no value: they change flags and the places of the goroutines.
Still ==
  \/ RunFull \/ RunCacheWait \/ RunInClosed \/ RunPollModified \/ RunPollReading \/ RunFinish
  \/ RunAck \/ RunCloseOut \/ CacheStart \/ CacheStop \/ CommitCall \/ CloseIn \/ CommitAck
  \/ CommitCacheWait \/ CommitClose \/ HandlerStart \/ HandlerAck \/ HandlerNotDone \/ HandlerSleep
  \/ HandlerTimer \/ HandlerSwapped \/ UNCHANGED vars

\* They keep the values where they are.
LEMMA StillValues ==
  ASSUME Still
  PROVE  UNCHANGED <<accepted, delivered, lost, fails, out, runVal, handlerVal, commitVal, decoded, cacheR, cacheW>>
BY ZenonT(60)
DEF Still, RunFull, RunCacheWait, RunInClosed, RunPollModified, RunPollReading, RunFinish, RunAck,
    RunCloseOut, CacheStart, CacheStop, CommitCall, CloseIn, CommitAck, CommitCacheWait,
    CommitClose, HandlerStart, HandlerAck, HandlerNotDone, HandlerSleep, HandlerTimer,
    HandlerSwapped, vars, ioVars, runVars, handlerVars, commitVars, fileVars

\* Every other step moves one.
LEMMA NextCases ==
  ASSUME [Next]_vars
  PROVE  \/ Still \/ (\E v \in Values : SendIn(v)) \/ ReceiveOut \/ RunSend \/ RunSelectSend
         \/ RunSelectCache \/ RunEncode \/ HandlerRead \/ HandlerDecode \/ HandlerSend
         \/ HandlerDrained \/ HandlerSwap \/ CommitTake \/ CommitEncode
BY ZenonT(60) DEF Still, Next, Run, cacheHandler, Commit, Finished

\* What is not yet decoded depends on the read file alone.
LEMMA UndecodedSame ==
  ASSUME decoded' = decoded, cacheR'.data = cacheR.data
  PROVE  Undecoded' = Undecoded
BY DEF Undecoded

\* A send on Out, by run() or cacheHandler(): the sender's value is its last.
LEMMA SendFacts ==
  ASSUME HandsOK, RunSend \/ RunSelectSend \/ HandlerSend
  PROVE  /\ Len(out) < MaxDepth /\ UNCHANGED <<accepted, delivered, lost, fails, commitVal, decoded, cacheR, cacheW>>
         /\ \/ /\ runVal \in Value \ {NoVal} /\ out' = Append(out, runVal)
               /\ runVal' = NoVal /\ handlerVal' = handlerVal
            \/ /\ handlerVal \in Value \ {NoVal} /\ out' = Append(out, handlerVal)
               /\ handlerVal' = NoVal /\ runVal' = runVal
BY ChanCacherAssumption
DEF RunSend, RunSelectSend, HandlerSend, SendOut, HandsOK, HandsInv, Value, runVars, handlerVars,
    commitVars, fileVars

\* A receive from Out, by the consumer or Commit(), which drops a nil.
LEMMA ReceiveFacts ==
  ASSUME HandsOK, ReceiveOut \/ CommitTake
  PROVE  /\ out # <<>> /\ out' = Tail(out)
         /\ UNCHANGED <<accepted, lost, fails, runVal, handlerVal, decoded, cacheR, cacheW>>
         /\ \/ delivered' = delivered \cup {Head(out)} /\ commitVal' = commitVal
            \/ delivered' = delivered /\ commitVal = NoVal /\ commitVal' = Head(out)
            \/ delivered' = delivered /\ commitVal' = commitVal /\ Head(out) = Nil
BY DEF ReceiveOut, CommitTake, HandsOK, HandsInv, runVars, handlerVars, commitVars, fileVars

\* cacheValue()'s write, by run() or Commit().
LEMMA EncodeFacts ==
  ASSUME HandsOK, RunEncode \/ CommitEncode
  PROVE  \E v \in Value \ {Nil, NoVal} :
            /\ Encode(v) /\ UNCHANGED <<accepted, delivered, out, handlerPc, handlerVal, decoded, cacheR>>
            /\ \/ v = runVal /\ runVal' = NoVal /\ commitVal' = commitVal
               \/ v = commitVal /\ commitVal' = NoVal /\ runVal' = runVal
<1>1. CASE RunEncode
  <2>1. runVal \in Value \ {Nil, NoVal}
    BY <1>1, ChanCacherAssumption DEF RunEncode, HandsOK, HandsInv, Value
  <2> QED BY <1>1, <2>1, Zenon DEF RunEncode, Encode, ioVars, handlerVars, commitVars
<1>2. CASE CommitEncode
  <2>1. commitVal \in Value \ {Nil, NoVal}
    BY <1>2, ChanCacherAssumption DEF CommitEncode, HandsOK, HandsInv, Value
  <2> QED BY <1>2, <2>1, Zenon DEF CommitEncode, Encode, ioVars, runVars, handlerVars
<1> QED BY <1>1, <1>2

\* cacheHandler() decodes a value, and holds it until it is sent.
LEMMA DecodeFacts ==
  ASSUME HandsOK, FilesOK, HandlerDecode
  PROVE  /\ cacheR.data[decoded + 1] \in Value /\ cacheR.data[decoded + 1] # Torn
         /\ handlerVal = NoVal /\ handlerVal' = cacheR.data[decoded + 1] /\ decoded' = decoded + 1
         /\ handlerPc' = "send"
         /\ UNCHANGED <<accepted, delivered, lost, fails, out, runVal, commitVal, cacheR, cacheW, cacheModified>>
         /\ decoded \in Nat /\ cacheR.pos \in Nat /\ Len(cacheR.data) \in Nat
         /\ decoded + 1 <= cacheR.pos /\ decoded + 1 <= Len(cacheR.data)
BY DEF HandlerDecode, HandsOK, HandsInv, FilesOK, FileType, ioVars, runVars, commitVars, fileVars

\* The buffered reader takes values from the read file.
LEMMA ReadFacts ==
  ASSUME FilesOK, HandlerRead
  PROVE  /\ \E k \in 1..(Len(cacheR.data) - cacheR.pos) :
               /\ cacheR' = [data |-> cacheR.data, count |-> cacheR.count - k, pos |-> cacheR.pos + k]
               /\ cacheR'.count = cacheR.count - k
         /\ cacheR'.data = cacheR.data
         /\ UNCHANGED <<accepted, delivered, lost, fails, out, runVal, handlerPc, handlerVal, commitVal, decoded,
                        cacheW, cacheModified>>
<1>1. PICK k \in 1..(Len(cacheR.data) - cacheR.pos) : cacheR' = [cacheR EXCEPT !.pos = @ + k, !.count = @ - k]
  BY Zenon DEF HandlerRead
<1>2. cacheR' = [data |-> cacheR.data, count |-> cacheR.count - k, pos |-> cacheR.pos + k]
  BY <1>1, Zenon DEF FilesOK, FileType
<1>3. UNCHANGED <<accepted, delivered, lost, fails, out, runVal, handlerPc, handlerVal, commitVal, decoded,
                  cacheW, cacheModified>>
  BY DEF HandlerRead, ioVars, runVars, handlerVars, commitVars
<1> QED BY <1>2, <1>3

\* cacheHandler() truncates the read file.
LEMMA DrainFacts ==
  ASSUME FilesOK, HandlerDrained
  PROVE  /\ cacheR' = [data |-> <<>>, count |-> cacheR.count, pos |-> 0] /\ cacheR'.data = <<>>
         /\ cacheR'.count = cacheR.count
         /\ lost' = lost \cup Undecoded /\ decoded' = 0 /\ handlerPc' = "check"
         /\ UNCHANGED <<accepted, delivered, fails, out, runVal, handlerVal, commitVal, cacheW, cacheModified>>
BY Zenon DEF HandlerDrained, Truncated, FilesOK, FileType, ioVars, runVars, commitVars

\* cacheHandler() swaps the files.
LEMMA SwapFacts ==
  ASSUME FilesOK, HandlerSwap
  PROVE  /\ cacheR' = [data |-> cacheW.data, count |-> cacheW.count, pos |-> 0] /\ cacheR'.data = cacheW.data
         /\ cacheR'.count = cacheW.count
         /\ cacheW' = cacheR /\ cacheR.data = <<>> /\ cacheR.pos = 0 /\ decoded = 0 /\ handlerPc' = "swap"
         /\ UNCHANGED <<accepted, delivered, lost, fails, out, runVal, handlerVal, commitVal, decoded>>
BY DEF HandlerSwap, FilesOK, FilesInv, FileType, ioVars, runVars, commitVars

\* run() passes its value on to cacheValue(), which drops a nil.
LEMMA PassFacts ==
  ASSUME RunSelectCache
  PROVE  /\ UNCHANGED <<accepted, delivered, lost, fails, out, handlerVal, commitVal, decoded, cacheR, cacheW>>
         /\ runVal' = runVal \/ (runVal = Nil /\ runVal' = NoVal)
BY DEF RunSelectCache, ioVars, runVars, handlerVars, commitVars, fileVars

\* IInv is the conjunction of the parts that the lemmas above are about.
LEMMA PartsOfIInv ==
  IInv <=> /\ FlagsOK /\ HandsOK /\ ValuesOK /\ FilesOK
           /\ ControlInv /\ NothingLost /\ LossNeedsFailure
BY DEF IInv, TypeOK, FlagsOK, HandsOK, ValuesOK, FilesOK

\* The invariant holds at the start.
LEMMA IInvInit ==
  ASSUME Init
  PROVE  IInv
<1>1. Cached \in Seq((Value \ {Nil}) \cup {Torn}) /\ <<>> \in Seq((Value \ {Nil}) \cup {Torn})
  <2>1. OldValues \subseteq (Value \ {Nil}) \cup {Torn}
    BY ChanCacherAssumption DEF Value
  <2> QED BY <2>1, ChanCacherAssumption
<1>2. /\ cacheR.data = Cached /\ cacheR.pos = 0 /\ cacheR.count = Len(Cached)
      /\ cacheW.data = <<>> /\ cacheW.pos = 0 /\ cacheW.count = 0
      /\ cacheR \in FileType /\ cacheW \in FileType
  BY <1>1, ChanCacherAssumption DEF Init, NewFileCounter, FileType
<1>3. FlagsOK /\ HandsOK
  BY ChanCacherAssumption, Zenon DEF Init, FlagsOK, HandsOK, HandsInv
<1>4. ControlInv /\ LossNeedsFailure
  BY DEF Init, ControlInv, LossNeedsFailure
<1>5. Torn \notin Elems(Cached) /\ Elems(cacheW.data) = {}
  <2>1. Elems(cacheW.data) = {}
    BY <1>2, ElemsEmpty, Zenon
  <2>2. Torn \notin Elems(Cached)
    <3>1. \A i \in DOMAIN Cached : Cached[i] \in OldValues
      BY ChanCacherAssumption
    <3> QED BY <3>1, ChanCacherAssumption, Zenon DEF Elems
  <2> QED BY <2>1, <2>2
<1>6. ValuesOK
  BY ChanCacherAssumption DEF Init, ValuesOK
<1>7. FilesOK
  <2>1. /\ decoded = 0 /\ Len(Cached) \in Nat
        /\ handlerPc = "start" \/ (handlerPc = "off" /\ Cached = <<>>)
    BY ChanCacherAssumption DEF Init
  <2> QED BY <2>1, <1>2, <1>5 DEF FilesOK, FilesInv
<1>8. Owned \subseteq Undecoded
  <2>1. Owned = Elems(Cached) /\ decoded = 0
    BY DEF Init, Owned
  <2> QED BY <1>2, <1>5, <2>1 DEF Elems, Undecoded
<1>9. NothingLost
  BY <1>8, Zenon DEF NothingLost
<1> QED BY <1>3, <1>4, <1>6, <1>7, <1>9, PartsOfIInv

\* g is h after X has moved from place a to place b, or has come to place b;
\* some of it may have been dropped.
Moves(h, g, a, b, X) ==
  /\ X \subseteq h[a] /\ g[a] \subseteq h[a] \ X /\ g[b] \subseteq h[b] \cup X
  /\ \A c \in 1..8 : c = a \/ c = b \/ g[c] \subseteq h[c]

Comes(h, g, b, v) ==
  /\ \A c \in 1..8 : v \notin h[c]
  /\ g[b] \subseteq h[b] \cup {v} /\ \A c \in 1..8 : c = b \/ g[c] \subseteq h[c]

\* Either keeps the places apart.
LEMMA MovesApart ==
  ASSUME NEW h, NEW g, NEW X, NEW a \in 1..8, NEW b \in 1..8, a # b, Apart(h), Moves(h, g, a, b, X)
  PROVE  Apart(g)
<1> SUFFICES ASSUME NEW i \in 1..8, NEW j \in 1..8, i # j, NEW x, x \in g[i], x \in g[j]
             PROVE  FALSE
  BY Zenon DEF Apart
<1>1. \A c \in 1..8 : x \in g[c] => \/ c # b /\ x \in h[c] /\ (c = a => x \notin X)
                                    \/ c = b /\ (x \in h[b] \/ x \in X)
  BY Zenon DEF Moves
<1>2. \A c, d \in 1..8 : x \in h[c] /\ x \in h[d] => c = d
  BY Zenon DEF Apart
<1>3. X \subseteq h[a]
  BY DEF Moves
<1> QED BY <1>1, <1>2, <1>3, Zenon

LEMMA ComesApart ==
  ASSUME NEW h, NEW g, NEW v, NEW b \in 1..8, Apart(h), Comes(h, g, b, v)
  PROVE  Apart(g)
<1> SUFFICES ASSUME NEW i \in 1..8, NEW j \in 1..8, i # j, NEW x, x \in g[i], x \in g[j]
             PROVE  FALSE
  BY Zenon DEF Apart
<1>1. \A c \in 1..8 : x \in g[c] => x \in h[c] \/ (c = b /\ x = v)
  BY Zenon DEF Comes
<1>2. \A c, d \in 1..8 : x \in h[c] /\ x \in h[d] => c = d
  BY Zenon DEF Apart
<1>3. \A c \in 1..8 : v \notin h[c]
  BY DEF Comes
<1> QED BY <1>1, <1>2, <1>3, Zenon

\* What is taken from a channel without repetitions is not in it any more.
LEMMA TailOnce ==
  ASSUME NEW S, NEW s \in Seq(S), s # <<>>, Torn \notin S, NoRepeat(s, 0)
  PROVE  Elems(Tail(s)) \subseteq Elems(s) \ {Head(s)} /\ NoRepeat(Tail(s), 0) /\ Head(s) \in Elems(s)
<1>1. /\ Len(s) \in Nat \ {0} /\ Len(Tail(s)) = Len(s) - 1 /\ Head(s) = s[1]
      /\ DOMAIN Tail(s) = 1..(Len(s) - 1) /\ DOMAIN s = 1..Len(s)
      /\ \A i \in 1..(Len(s) - 1) : Tail(s)[i] = s[i + 1]
  OBVIOUS
<1>2. \A i \in 1..Len(s) : s[i] # Torn
  OBVIOUS
<1>3. \A i, j \in 1..Len(s) : s[i] = s[j] => i = j
  BY <1>2, <1>1 DEF NoRepeat
<1>4. ASSUME NEW i \in 1..(Len(s) - 1) PROVE Tail(s)[i] \in Elems(s) \ {Head(s)}
  <2>1. i + 1 \in 1..Len(s) /\ 1 \in 1..Len(s) /\ i + 1 # 1
    BY <1>1
  <2>2. s[i + 1] # s[1]
    BY <2>1, <1>3
  <2> QED BY <2>1, <2>2, <1>1 DEF Elems
<1>5. ASSUME NEW i \in 1..(Len(s) - 1), NEW j \in 1..(Len(s) - 1), Tail(s)[i] = Tail(s)[j] PROVE i = j
  <2>1. i + 1 \in 1..Len(s) /\ j + 1 \in 1..Len(s)
    BY <1>1
  <2>2. s[i + 1] = s[j + 1]
    BY <1>1, <1>5
  <2> QED BY <2>1, <2>2, <1>3
<1>6. Elems(Tail(s)) \subseteq Elems(s) \ {Head(s)}
  BY <1>1, <1>4, Zenon DEF Elems
<1>7. NoRepeat(Tail(s), 0)
  BY <1>1, <1>5 DEF NoRepeat
<1>8. Head(s) \in Elems(s)
  BY <1>1 DEF Elems
<1> QED BY <1>6, <1>7, <1>8

\* The places after a step, from what the step changes.
LEMMA SamePlaces ==
  ASSUME UNCHANGED <<accepted, delivered, lost, out, runVal, handlerVal, commitVal, decoded>>,
         cacheR'.data = cacheR.data, cacheW'.data = cacheW.data, OnceInv
  PROVE  OnceInv'
<1>1. Undecoded' = Undecoded /\ Elems(out)' = Elems(out) /\ Elems(cacheW.data)' = Elems(cacheW.data)
  BY DEF Undecoded, Elems
<1>2. Holders' = Holders
  BY <1>1 DEF Holders
<1> QED BY <1>2 DEF OnceInv, ExactlyOnce, NoRepeat, Apart

\* The places before and after a step.
LEMMA HoldersAre ==
  /\ Holders[1] = delivered /\ Holders[2] = lost /\ Holders[3] = Elems(out) /\ Holders[4] = {runVal} \ {NoVal}
  /\ Holders[5] = {handlerVal} \ {NoVal} /\ Holders[6] = {commitVal} \ {NoVal}
  /\ Holders[7] = Undecoded /\ Holders[8] = Elems(cacheW.data) \ {Torn}
  /\ Holders'[1] = delivered' /\ Holders'[2] = lost' /\ Holders'[3] = Elems(out')
  /\ Holders'[4] = {runVal'} \ {NoVal} /\ Holders'[5] = {handlerVal'} \ {NoVal}
  /\ Holders'[6] = {commitVal'} \ {NoVal} /\ Holders'[7] = Undecoded'
  /\ Holders'[8] = Elems(cacheW'.data) \ {Torn}
BY DEF Holders, Elems

\* A move of values between two places keeps OnceInv.
LEMMA MovesOnce ==
  ASSUME OnceInv, NEW a \in 1..8, NEW b \in 1..8, a # b, NEW X, Moves(Holders, Holders', a, b, X),
         accepted' = accepted, NoRepeat(out', 0), NoRepeat(cacheR'.data, decoded'), NoRepeat(cacheW'.data, 0)
  PROVE  OnceInv'
<1>1. Apart(Holders')
  BY MovesApart, ZenonT(60) DEF OnceInv, ExactlyOnce
<1>2. \A c \in 1..8 : Holders'[c] \subseteq accepted' \cup Elems(Cached)
  BY Zenon DEF Moves, OnceInv
<1>3. ExactlyOnce'
  BY <1>1, Zenon DEF ExactlyOnce, Apart, NoRepeat
<1> QED BY <1>2, <1>3, Zenon DEF OnceInv

\* A send on Out by run() or cacheHandler().
LEMMA SendOnce ==
  ASSUME OnceInv, ValuesOK, NEW v \in Value, NEW a \in {4, 5}, v \in Holders[a], Holders'[a] = {},
         \A c \in 1..8 : c = a \/ c = 3 \/ Holders'[c] \subseteq Holders[c],
         out' = Append(out, v), UNCHANGED <<accepted, decoded, cacheR, cacheW>>
  PROVE  OnceInv'
<1>1. v \notin Elems(out) /\ NoRepeat(out, 0) /\ out \in Seq(Value)
  BY HoldersAre DEF OnceInv, ExactlyOnce, Apart, ValuesOK
<1>2. NoRepeat(out', 0) /\ Elems(out') = Elems(out) \cup {v}
  BY <1>1, AppendOnce, ElemsAppend
<1>3. Moves(Holders, Holders', a, 3, {v})
  BY <1>2, HoldersAre DEF Moves
<1>4. a \in 1..8 /\ 3 \in 1..8 /\ a # 3 /\ NoRepeat(cacheR'.data, decoded') /\ NoRepeat(cacheW'.data, 0)
  BY DEF OnceInv, ExactlyOnce
<1> QED BY <1>2, <1>3, <1>4, MovesOnce, ZenonT(60)

\* A receive from Out by the consumer or Commit().
LEMMA ReceiveOnce ==
  ASSUME OnceInv, ValuesOK, out # <<>>, NEW b \in {1, 6}, Holders'[b] \subseteq Holders[b] \cup {Head(out)},
         \A c \in 1..8 : c = b \/ c = 3 \/ Holders'[c] \subseteq Holders[c],
         out' = Tail(out), UNCHANGED <<accepted, decoded, cacheR, cacheW>>
  PROVE  OnceInv'
<1>1. NoRepeat(out, 0) /\ out \in Seq(Value) /\ Torn \notin Value
  BY ChanCacherAssumption DEF OnceInv, ExactlyOnce, ValuesOK, Value
<1>2. Elems(out') \subseteq Elems(out) \ {Head(out)} /\ NoRepeat(out', 0) /\ Head(out) \in Elems(out)
  BY <1>1, TailOnce
<1>3. Moves(Holders, Holders', 3, b, {Head(out)})
  BY <1>2, HoldersAre DEF Moves
<1>4. b \in 1..8 /\ 3 \in 1..8 /\ b # 3 /\ NoRepeat(cacheR'.data, decoded') /\ NoRepeat(cacheW'.data, 0)
  BY DEF OnceInv, ExactlyOnce
<1> QED BY <1>2, <1>3, <1>4, MovesOnce, ZenonT(60)

\* A write to the cache by run() or Commit(): cacheValue().
LEMMA EncodeOnce ==
  ASSUME OnceInv, ValuesOK, FilesOK, NEW v \in Value \ {Nil}, NEW a \in {4, 6}, v \in Holders[a], Holders'[a] = {},
         \A c \in 1..8 : c = a \/ c = 2 \/ c = 8 \/ Holders'[c] \subseteq Holders[c],
         Encode(v), UNCHANGED <<accepted, out, decoded, cacheR>>
  PROVE  OnceInv'
<1>1. v \notin Elems(cacheW.data) /\ NoRepeat(cacheW.data, 0) /\ cacheW \in FileType
  BY HoldersAre, ChanCacherAssumption DEF OnceInv, ExactlyOnce, Apart, FilesOK, Value
<1>2. /\ NoRepeat(cacheW'.data, 0)
      /\ \/ lost' = lost /\ Elems(cacheW'.data) = Elems(cacheW.data) \cup {v}
         \/ lost' = lost \cup {v} /\ Elems(cacheW'.data) \ {Torn} = Elems(cacheW.data) \ {Torn}
  BY <1>1, EncodeOutcome, ZenonT(60) DEF ValuesOK, FilesOK
<1>3. \/ Holders'[2] = Holders[2] /\ Holders'[8] \subseteq Holders[8] \cup {v}
      \/ Holders'[2] \subseteq Holders[2] \cup {v} /\ Holders'[8] = Holders[8]
  BY <1>2, HoldersAre
<1>4. \E b \in {2, 8} : Moves(Holders, Holders', a, b, {v})
  BY <1>3 DEF Moves
<1>5. a \in 1..8 /\ \A b \in {2, 8} : b \in 1..8 /\ a # b
  OBVIOUS
<1>6. NoRepeat(out', 0) /\ NoRepeat(cacheR'.data, decoded')
  BY Zenon DEF OnceInv, ExactlyOnce
<1> QED BY <1>2, <1>4, <1>5, <1>6, MovesOnce, ZenonT(60)

\* A value comes from In.
LEMMA AcceptOnce ==
  ASSUME OnceInv, NEW v \in Values, SendIn(v)
  PROVE  OnceInv'
<1>1. /\ v \notin accepted /\ accepted' = accepted \cup {v} /\ runVal' = v
      /\ UNCHANGED <<delivered, lost, out, handlerVal, commitVal, decoded, cacheR, cacheW>>
  BY DEF SendIn, ioVars, handlerVars, commitVars, fileVars
<1>2. \A c \in 1..8 : v \notin Holders[c]
  BY <1>1, ChanCacherAssumption DEF OnceInv, Elems
<1>3. Undecoded' = Undecoded
  BY <1>1, UndecodedSame, Zenon
<1>4. Comes(Holders, Holders', 4, v)
  BY <1>1, <1>2, <1>3, HoldersAre DEF Comes
<1>5. Apart(Holders')
  <2>1. 4 \in 1..8
    OBVIOUS
  <2> QED BY <2>1, <1>4, ComesApart, Zenon DEF OnceInv, ExactlyOnce
<1>6. \A c \in 1..8 : Holders'[c] \subseteq accepted' \cup Elems(Cached)
  BY <1>1, <1>4 DEF Comes, OnceInv
<1> QED BY <1>1, <1>5, <1>6 DEF OnceInv, ExactlyOnce, Apart, NoRepeat

\* cacheHandler() decodes the next value of the read file.
LEMMA DecodeOnce ==
  ASSUME OnceInv, HandsOK, FilesOK, HandlerDecode
  PROVE  OnceInv'
<1> DEFINE v == cacheR.data[decoded + 1]
<1>1. /\ v # Torn /\ handlerVal' = v /\ decoded' = decoded + 1
      /\ UNCHANGED <<accepted, delivered, lost, out, runVal, commitVal, cacheR, cacheW>>
      /\ decoded \in Nat /\ Len(cacheR.data) \in Nat /\ decoded + 1 <= Len(cacheR.data)
  BY DecodeFacts
<1>2. /\ \A i \in (decoded + 2)..Len(cacheR.data) : i \in (decoded + 1)..Len(cacheR.data) /\ cacheR.data[i] # v
      /\ decoded + 1 \in (decoded + 1)..Len(cacheR.data) /\ decoded' + 1 = decoded + 2
      /\ NoRepeat(cacheR'.data, decoded') /\ NoRepeat(out', 0) /\ NoRepeat(cacheW'.data, 0)
  <2>1. \A i \in (decoded + 2)..Len(cacheR.data) : i \in (decoded + 1)..Len(cacheR.data) /\ i # decoded + 1
    BY <1>1
  <2> QED BY <1>1, <2>1 DEF OnceInv, ExactlyOnce, NoRepeat
<1>3. {v} \subseteq Undecoded /\ Undecoded' \subseteq Undecoded \ {v}
  BY <1>1, <1>2, Zenon DEF Undecoded
<1> HIDE DEF v
<1>4. Moves(Holders, Holders', 7, 5, {v}) /\ 7 \in 1..8 /\ 5 \in 1..8 /\ 5 # 7
  BY <1>1, <1>3, HoldersAre DEF Moves
<1> QED BY <1>1, <1>2, <1>4, MovesOnce, ZenonT(60)

\* cacheHandler() is at the end of the read file, or cannot decode the rest.
LEMMA DrainOnce ==
  ASSUME OnceInv, FilesOK, HandlerDrained
  PROVE  OnceInv'
<1>1. /\ lost' = lost \cup Undecoded /\ cacheR'.data = <<>> /\ decoded' = 0
      /\ UNCHANGED <<accepted, delivered, out, runVal, handlerVal, commitVal, cacheW>>
  BY DrainFacts
<1>2. Undecoded' = {} /\ NoRepeat(cacheR'.data, decoded') /\ NoRepeat(out', 0) /\ NoRepeat(cacheW'.data, 0)
  BY <1>1 DEF Undecoded, OnceInv, ExactlyOnce, NoRepeat
<1>3. Moves(Holders, Holders', 7, 2, Undecoded) /\ 7 \in 1..8 /\ 2 \in 1..8 /\ 2 # 7
  BY <1>1, <1>2, HoldersAre DEF Moves
<1> QED BY <1>1, <1>2, <1>3, MovesOnce, ZenonT(60)

\* cacheHandler() swaps the files.
LEMMA SwapOnce ==
  ASSUME OnceInv, FilesOK, HandlerSwap
  PROVE  OnceInv'
<1> DEFINE X == Elems(cacheW.data) \ {Torn}
<1>1. /\ cacheR'.data = cacheW.data /\ cacheW' = cacheR /\ cacheR.data = <<>> /\ decoded = 0
      /\ DOMAIN cacheW.data = 1..Len(cacheW.data)
      /\ UNCHANGED <<accepted, delivered, lost, out, runVal, handlerVal, commitVal, decoded>>
  BY SwapFacts DEF FilesOK, FileType
<1>2. NoRepeat(cacheR'.data, decoded') /\ NoRepeat(out', 0) /\ NoRepeat(cacheW'.data, 0)
  BY <1>1 DEF OnceInv, ExactlyOnce, NoRepeat
<1>3. Undecoded' = X /\ Elems(cacheW'.data) = {}
  BY <1>1, ElemsEmpty DEF Undecoded, Elems
<1>4. Moves(Holders, Holders', 8, 7, X) /\ 7 \in 1..8 /\ 8 \in 1..8 /\ 8 # 7
  BY <1>1, <1>3, HoldersAre DEF Moves
<1> QED BY <1>1, <1>2, <1>4, MovesOnce, ZenonT(60)

\* The values that are in two places at no time, and are known.
LEMMA OnceStep ==
  ASSUME HandsOK, ValuesOK, FilesOK, OnceInv, [Next]_vars
  PROVE  OnceInv'
<1>1. CASE Still
  BY <1>1, StillValues, SamePlaces, Zenon
<1>2. CASE ReceiveOut \/ CommitTake
  <2>1. /\ out # <<>> /\ out' = Tail(out)
        /\ UNCHANGED <<accepted, lost, runVal, handlerVal, decoded, cacheR, cacheW>>
        /\ \/ delivered' = delivered \cup {Head(out)} /\ commitVal' = commitVal
           \/ delivered' = delivered /\ commitVal' \in {commitVal, Head(out)}
    BY <1>2, ReceiveFacts
  <2>2. Undecoded' = Undecoded
    BY <2>1, UndecodedSame
  <2>3. /\ Holders'[1] \subseteq Holders[1] \cup {Head(out)} /\ Holders'[6] \subseteq Holders[6] \cup {Head(out)}
        /\ \A c \in 1..8 : c \in {1, 3, 6} \/ Holders'[c] \subseteq Holders[c]
        /\ Holders'[1] \subseteq Holders[1] \/ Holders'[6] \subseteq Holders[6]
    BY <2>1, <2>2, HoldersAre
  <2>4. \E b \in {1, 6} : \A c \in 1..8 : c = b \/ c = 3 \/ Holders'[c] \subseteq Holders[c]
    BY <2>3
  <2> QED BY <2>1, <2>3, <2>4, ReceiveOnce, ZenonT(60)
<1>3. CASE RunSend \/ RunSelectSend \/ HandlerSend
  <2>1. /\ UNCHANGED <<accepted, delivered, lost, commitVal, decoded, cacheR, cacheW>>
        /\ \/ /\ runVal \in Value \ {NoVal} /\ out' = Append(out, runVal)
              /\ runVal' = NoVal /\ handlerVal' = handlerVal
           \/ /\ handlerVal \in Value \ {NoVal} /\ out' = Append(out, handlerVal)
              /\ handlerVal' = NoVal /\ runVal' = runVal
    BY <1>3, SendFacts
  <2>2. Undecoded' = Undecoded
    BY <2>1, UndecodedSame
  <2>3. \A c \in 1..8 : c \in {3, 4, 5} \/ Holders'[c] \subseteq Holders[c]
    BY <2>1, <2>2, HoldersAre
  <2>4. \E v \in Value, a \in {4, 5} :
          /\ out' = Append(out, v) /\ v \in Holders[a] /\ Holders'[a] = {}
          /\ \A c \in {4, 5} : c = a \/ Holders'[c] \subseteq Holders[c]
    BY <2>1, HoldersAre
  <2>5. \E v \in Value, a \in {4, 5} :
          /\ out' = Append(out, v) /\ v \in Holders[a] /\ Holders'[a] = {}
          /\ \A c \in 1..8 : c = a \/ c = 3 \/ Holders'[c] \subseteq Holders[c]
    BY <2>3, <2>4
  <2> QED BY <2>1, <2>5, SendOnce, ZenonT(60)
<1>4. CASE RunEncode \/ CommitEncode
  <2>1. PICK v \in Value \ {Nil, NoVal} :
          /\ Encode(v) /\ UNCHANGED <<accepted, delivered, out, handlerVal, decoded, cacheR>>
          /\ \/ v = runVal /\ runVal' = NoVal /\ commitVal' = commitVal
             \/ v = commitVal /\ commitVal' = NoVal /\ runVal' = runVal
    BY <1>4, EncodeFacts, Zenon
  <2>2. Undecoded' = Undecoded
    BY <2>1, UndecodedSame
  <2>3. \A c \in 1..8 : c \in {2, 4, 6, 8} \/ Holders'[c] \subseteq Holders[c]
    BY <2>1, <2>2, HoldersAre
  <2>4. PICK a \in {4, 6} :
          /\ v \in Holders[a] /\ Holders'[a] = {}
          /\ \A c \in {4, 6} : c = a \/ Holders'[c] \subseteq Holders[c]
    BY <2>1, HoldersAre
  <2>5. \A c \in 1..8 : c = a \/ c = 2 \/ c = 8 \/ Holders'[c] \subseteq Holders[c]
    BY <2>3, <2>4
  <2> QED BY <2>1, <2>4, <2>5, EncodeOnce, ZenonT(60)
<1>5. CASE RunSelectCache
  <2>1. /\ UNCHANGED <<accepted, delivered, lost, out, handlerVal, commitVal, decoded, cacheR, cacheW>>
        /\ runVal' \in {runVal, NoVal}
    BY <1>5, PassFacts
  <2>2. Undecoded' = Undecoded
    BY <2>1, UndecodedSame
  <2>3. \A c \in 1..8 : Holders'[c] \subseteq Holders[c]
    BY <2>1, <2>2, HoldersAre
  <2> QED BY <2>1, <2>3 DEF OnceInv, ExactlyOnce, Apart, NoRepeat
<1>6. CASE HandlerRead
  BY <1>6, ReadFacts, SamePlaces, Zenon
<1> QED
  BY <1>1, <1>2, <1>3, <1>4, <1>5, <1>6, AcceptOnce, DecodeOnce, DrainOnce, SwapOnce, NextCases, Zenon

\* It is so at the start, if the file that is found holds every value once.
LEMMA OnceInit ==
  ASSUME NoRepeat(Cached, 0), Init
  PROVE  OnceInv
<1>1. /\ delivered = {} /\ lost = {} /\ out = <<>> /\ runVal = NoVal /\ handlerVal = NoVal /\ commitVal = NoVal
      /\ cacheR.data = Cached /\ cacheW.data = <<>> /\ decoded = 0
  BY DEF Init, NewFileCounter
<1>2. Undecoded \subseteq Elems(Cached) /\ Elems(out) = {} /\ Elems(cacheW.data) = {}
  <2>1. DOMAIN Cached = 1..Len(Cached)
    BY ChanCacherAssumption
  <2> QED BY <1>1, <2>1, ElemsEmpty DEF Undecoded, Elems
<1>3. \A c \in 1..8 : c # 7 => Holders[c] = {}
  BY <1>1, <1>2 DEF Holders
<1>4. Holders[7] \subseteq Elems(Cached)
  BY <1>2 DEF Holders
<1>5. Apart(Holders) /\ \A c \in 1..8 : Holders[c] \subseteq accepted \cup Elems(Cached)
  BY <1>3, <1>4 DEF Apart
<1>6. NoRepeat(out, 0) /\ NoRepeat(cacheW.data, 0) /\ NoRepeat(cacheR.data, decoded)
  BY <1>1 DEF NoRepeat
<1> QED BY <1>5, <1>6, Zenon DEF OnceInv, ExactlyOnce

\* The count of a file is kept up with its position.
LEMMA CountAfterRead ==
  ASSUME NEW n \in Nat, NEW p \in Nat, NEW l \in Nat, NEW d \in 0..p, n >= l - p, NEW k \in 1..(l - p)
  PROVE  n - k \in Nat /\ p + k \in Nat /\ d \in 0..(p + k) /\ p + k <= l /\ n - k >= l - (p + k)
OBVIOUS

\* The files keep their types and FilesInv.
LEMMA FilesStep ==
  ASSUME HandsOK, ValuesOK, FilesOK, [Next]_vars
  PROVE  FilesOK'
<1>1. CASE UNCHANGED <<handlerPc, decoded, cacheR, cacheW, cacheModified, fails>>
  BY <1>1 DEF FilesOK, FilesInv
<1>2. CASE \/ RunSend \/ RunFull \/ RunSelectSend \/ RunSelectCache \/ RunCacheWait
         \/ RunInClosed \/ RunPollModified \/ RunPollReading \/ RunFinish \/ RunAck
         \/ RunCloseOut \/ CacheStart \/ CacheStop \/ CommitCall \/ CloseIn \/ ReceiveOut
         \/ CommitAck \/ CommitTake \/ CommitCacheWait \/ CommitClose
         \/ (\E v \in Values : SendIn(v))
  BY <1>2, <1>1, ZenonT(60)
  DEF SendIn, RunSend, RunFull, RunSelectSend, RunSelectCache, RunCacheWait, RunInClosed,
      RunPollModified, RunPollReading, RunFinish, RunAck, RunCloseOut, CacheStart,
      CacheStop, CommitCall, CloseIn, ReceiveOut, CommitAck, CommitTake, CommitCacheWait,
      CommitClose, handlerVars, fileVars
<1>3. CASE \/ HandlerStart \/ HandlerSend \/ HandlerAck \/ HandlerNotDone \/ HandlerSleep
         \/ HandlerTimer \/ HandlerSwapped
  <2>1. /\ UNCHANGED <<decoded, cacheR, cacheW, cacheModified, fails>>
        /\ \/ handlerPc' = "decode"
           \/ {handlerPc, handlerPc'} \subseteq {"check", "wait", "sleep", "done"}
    BY <1>3
    DEF HandlerStart, HandlerSend, HandlerAck, HandlerNotDone, HandlerSleep, HandlerTimer,
        HandlerSwapped, fileVars
  <2> QED BY <2>1 DEF FilesOK, FilesInv
<1>4. CASE RunEncode \/ CommitEncode
  <2>1. PICK v \in Value \ {Nil} : Encode(v) /\ UNCHANGED <<handlerPc, decoded>>
    BY <1>4, EncodeFacts, Zenon
  <2>2. /\ cacheW' \in FileType /\ cacheW'.pos = cacheW.pos /\ cacheW'.count = cacheW.count + 1
        /\ Len(cacheW'.data) <= Len(cacheW.data) + 1
        /\ cacheR' = cacheR /\ cacheModified' = TRUE
        /\ \/ Elems(cacheW'.data) = Elems(cacheW.data) \cup {v} /\ fails' = fails
           \/ fails' = fails + 1
    BY <2>1, EncodeOutcome, ZenonT(60) DEF ValuesOK, FilesOK
  <2>3. cacheW \in FileType /\ cacheW' \in FileType /\ cacheW.count >= Len(cacheW.data)
    BY <2>2, Zenon DEF FilesOK, FilesInv
  <2>4. cacheW'.count >= Len(cacheW'.data)
    BY <2>2, <2>3 DEF FileType
  <2>5. Torn \in Elems(cacheR'.data) \cup Elems(cacheW'.data) => fails' > 0
    <3>1. v # Torn /\ fails \in Nat
      BY ChanCacherAssumption DEF Value, ValuesOK
    <3>2. CASE fails' = fails + 1
      BY <3>1, <3>2
    <3>3. CASE Elems(cacheW'.data) = Elems(cacheW.data) \cup {v} /\ fails' = fails
      BY <2>2, <3>1, <3>3, Zenon DEF FilesOK, FilesInv
    <3> QED BY <2>2, <3>2, <3>3, Zenon
  <2> QED BY <2>1, <2>2, <2>4, <2>5, Zenon DEF FilesOK, FilesInv
<1>5. CASE HandlerRead
  <2>1. PICK k \in 1..(Len(cacheR.data) - cacheR.pos) :
          cacheR' = [data |-> cacheR.data, count |-> cacheR.count - k, pos |-> cacheR.pos + k]
    BY <1>5, ReadFacts, Zenon
  <2>2. /\ cacheR.data \in Seq((Value \ {Nil}) \cup {Torn}) /\ Len(cacheR.data) \in Nat
        /\ cacheR.count \in Nat /\ cacheR.pos \in Nat
    BY DEF FilesOK, FileType
  <2>3. /\ decoded \in 0..cacheR.pos /\ cacheR.count >= Len(cacheR.data) - cacheR.pos
        /\ k \in 1..(Len(cacheR.data) - cacheR.pos)
    BY <2>1, Zenon DEF FilesOK, FilesInv
  <2>4. /\ cacheR.count - k \in Nat /\ cacheR.pos + k \in Nat /\ decoded \in 0..(cacheR.pos + k)
        /\ cacheR.pos + k <= Len(cacheR.data) /\ cacheR.count - k >= Len(cacheR.data) - (cacheR.pos + k)
    BY <2>2, <2>3, CountAfterRead, ZenonT(60)
  <2>5. /\ cacheR' \in FileType
        /\ cacheR'.data = cacheR.data /\ cacheR'.pos = cacheR.pos + k /\ cacheR'.count = cacheR.count - k
    BY <2>1, <2>2, <2>4 DEF FileType
  <2>6. /\ handlerPc' = "decode" /\ UNCHANGED <<decoded, cacheW, fails, cacheModified>>
    BY <1>5, ReadFacts, Zenon DEF HandlerRead
  <2> QED BY <2>4, <2>5, <2>6 DEF FilesOK, FilesInv
<1>6. CASE HandlerDecode
  <2>1. /\ decoded' \in 0..cacheR.pos /\ handlerPc' = "send"
        /\ UNCHANGED <<cacheR, cacheW, cacheModified, fails>>
    BY <1>6, DecodeFacts
  <2> QED BY <2>1 DEF FilesOK, FilesInv
<1>7. CASE HandlerDrained
  <2>1. cacheR' = [data |-> <<>>, count |-> cacheR.count, pos |-> 0] /\ cacheR.count \in Nat
    BY <1>7, DrainFacts DEF FilesOK, FileType
  <2>2. /\ cacheR'.data = <<>> /\ cacheR'.pos = 0 /\ cacheR'.count >= Len(cacheR'.data) - cacheR'.pos
        /\ cacheR' \in FileType
    BY <2>1 DEF FileType
  <2>3. Elems(cacheR'.data) = {}
    BY <2>2, ElemsEmpty, Zenon
  <2>4. decoded' = 0 /\ UNCHANGED <<cacheW, cacheModified, fails>>
    BY <1>7, DrainFacts, Zenon
  <2> QED BY <2>2, <2>3, <2>4 DEF FilesOK, FilesInv
<1>8. CASE HandlerSwap
  <2>1. /\ cacheR' = [data |-> cacheW.data, count |-> cacheW.count, pos |-> 0]
        /\ cacheW' = cacheR /\ cacheR.data = <<>> /\ cacheR.pos = 0 /\ decoded' = 0 /\ handlerPc' = "swap"
        /\ fails' = fails
    BY <1>8, SwapFacts
  <2>2. /\ cacheR' \in FileType /\ cacheR'.data = cacheW.data /\ cacheR'.pos = 0 /\ cacheR'.count = cacheW.count
    BY <2>1 DEF FilesOK, FileType
  <2>3. Len(cacheW.data) \in Nat /\ cacheW.count >= Len(cacheW.data) - 0 /\ cacheR.count >= Len(cacheR.data)
    BY <2>1 DEF FilesOK, FilesInv, FileType
  <2>4. Elems(cacheR'.data) \cup Elems(cacheW'.data) = Elems(cacheR.data) \cup Elems(cacheW.data)
    BY <2>1, <2>2
  <2> QED BY <2>1, <2>2, <2>3, <2>4 DEF FilesOK, FilesInv
<1>9. CASE UNCHANGED vars
  BY <1>1, <1>9, Zenon DEF vars, handlerVars, fileVars
<1> QED
  BY <1>2, <1>3, <1>4, <1>5, <1>6, <1>7, <1>8, <1>9, NextCases, Zenon DEF Still

\* The handshake of the three goroutines.
LEMMA ControlStep ==
  ASSUME FlagsOK, HandsOK, ControlInv, [Next]_vars
  PROVE  ControlInv'
<1>1. CASE UNCHANGED <<handlerPc, cacheLock, runDone, runPc, cacheAck, cacheDone,
                        outClosed, readerStopped, cacheCommitted, commitPc, out,
                        cacheModified, selReady>>
  BY <1>1 DEF ControlInv
<1>2. CASE \/ HandlerRead \/ CacheStop \/ CloseIn
  BY <1>2, <1>1, Zenon
  DEF HandlerRead, CacheStop, CloseIn, ioVars, runVars, handlerVars, commitVars, fileVars
<1>3. ASSUME NEW v \in Values, SendIn(v) PROVE ControlInv'
  BY <1>3 DEF SendIn, ControlInv, FlagsOK, ioVars, runVars, handlerVars, commitVars, fileVars
<1>4. CASE \/ RunEncode \/ CommitEncode
  BY <1>4
  DEF RunEncode, CommitEncode, Encode, ControlInv, FlagsOK, ioVars, runVars, handlerVars,
      commitVars, fileVars
<1>5. CASE RunSend \/ RunFull \/ RunSelectSend \/ RunSelectCache \/ RunCacheWait
  BY <1>5
  DEF RunSend, RunFull, RunSelectSend, RunSelectCache, RunCacheWait, SendOut, ControlInv, FlagsOK,
      ioVars, runVars, handlerVars, commitVars, fileVars
<1>6. CASE RunInClosed \/ RunPollModified \/ RunPollReading
  BY <1>6
  DEF RunInClosed, RunPollModified, RunPollReading, ControlInv, FlagsOK, ioVars, runVars,
      handlerVars, commitVars, fileVars
<1>7. CASE RunFinish \/ RunAck \/ RunCloseOut
  BY <1>7
  DEF RunFinish, RunAck, RunCloseOut, finishCache, ControlInv, FlagsOK, ioVars, runVars,
      handlerVars, commitVars, fileVars
<1>8. CASE HandlerStart \/ HandlerDecode \/ HandlerSend
  BY <1>8
  DEF HandlerStart, HandlerDecode, HandlerSend, SendOut, ControlInv, FlagsOK, HandsOK, ioVars,
      runVars, handlerVars, commitVars, fileVars
<1>9. CASE HandlerDrained \/ HandlerAck \/ HandlerNotDone \/ HandlerSleep
  BY <1>9
  DEF HandlerDrained, HandlerAck, HandlerNotDone, HandlerSleep, ControlInv, FlagsOK, ioVars,
      runVars, handlerVars, commitVars, fileVars
<1>10. CASE HandlerTimer \/ HandlerSwap \/ HandlerSwapped
  BY <1>10
  DEF HandlerTimer, HandlerSwap, HandlerSwapped, ControlInv, FlagsOK, ioVars, runVars, handlerVars,
      commitVars, fileVars
<1>11. CASE ReceiveOut \/ CacheStart
  BY <1>11
  DEF ReceiveOut, CacheStart, ControlInv, FlagsOK, ioVars, runVars, handlerVars, commitVars,
      fileVars
<1>12. CASE CommitAck \/ CommitTake \/ CommitCacheWait
  BY <1>12
  DEF CommitAck, CommitTake, CommitCacheWait, ControlInv, FlagsOK, ioVars, runVars, handlerVars,
      commitVars, fileVars
<1>13. CASE CommitClose
  BY <1>13
  DEF CommitClose, ControlInv, FlagsOK, HandsOK, ioVars, runVars, handlerVars, commitVars, fileVars
<1>14. CASE CommitCall
  <2>1. CASE Cache
    BY <1>14, <2>1
    DEF CommitCall, finishCache, ControlInv, FlagsOK, ioVars, runVars, handlerVars, commitVars,
        fileVars
  <2>2. CASE ~Cache
    BY <1>14, <2>2
    DEF CommitCall, ControlInv, FlagsOK, ioVars, runVars, handlerVars, commitVars, fileVars
  <2> QED BY <2>1, <2>2
<1>15. CASE UNCHANGED vars
  BY <1>1, <1>15 DEF vars, ioVars, runVars, handlerVars, commitVars, fileVars
<1> QED
  BY <1>2, <1>3, <1>4, <1>5, <1>6, <1>7, <1>8, <1>9, <1>10, <1>11, <1>12, <1>13, <1>14, <1>15
  DEF Next, Run, cacheHandler, Commit, Finished

\* Each goroutine is where its code allows, and holds a value exactly where HandsInv says.
LEMMA HandsStep ==
  ASSUME HandsOK, ValuesOK, FilesOK, [Next]_vars
  PROVE  HandsOK'
<1>1. CASE UNCHANGED <<runPc, runVal, handlerPc, handlerVal, commitPc, commitVal>>
  BY <1>1 DEF HandsOK, HandsInv
<1>2. CASE \/ HandlerRead \/ CacheStart \/ CacheStop \/ CloseIn \/ ReceiveOut \/ CommitAck
  BY <1>2, <1>1, Zenon
  DEF HandlerRead, CacheStart, CacheStop, CloseIn, ReceiveOut, CommitAck, runVars, handlerVars,
      commitVars
<1>3. ASSUME NEW v \in Values, SendIn(v) PROVE HandsOK'
  BY <1>3 DEF SendIn, HandsOK, HandsInv, Value, runVars, handlerVars, commitVars
<1>4. CASE \/ RunSend \/ RunFull \/ RunSelectSend \/ RunSelectCache \/ RunCacheWait
         \/ RunEncode
  BY <1>4
  DEF RunSend, RunFull, RunSelectSend, RunSelectCache, RunCacheWait, RunEncode, HandsOK,
      HandsInv, runVars, handlerVars, commitVars
<1>5. CASE \/ RunInClosed \/ RunPollModified \/ RunPollReading \/ RunFinish \/ RunAck
         \/ RunCloseOut
  BY <1>5
  DEF RunInClosed, RunPollModified, RunPollReading, RunFinish, RunAck, RunCloseOut,
      HandsOK, HandsInv, runVars, handlerVars, commitVars
<1>6. CASE \/ HandlerStart \/ HandlerSend \/ HandlerDrained \/ HandlerAck \/ HandlerNotDone
         \/ HandlerSleep \/ HandlerTimer \/ HandlerSwap \/ HandlerSwapped
  BY <1>6
  DEF HandlerStart, HandlerSend, HandlerDrained, HandlerAck, HandlerNotDone, HandlerSleep,
      HandlerTimer, HandlerSwap, HandlerSwapped, HandsOK, HandsInv, runVars, handlerVars, commitVars
<1>7. CASE \/ CommitCall \/ CommitCacheWait \/ CommitEncode \/ CommitClose
  BY <1>7
  DEF CommitCall, CommitCacheWait, CommitEncode, CommitClose, HandsOK, HandsInv, runVars,
      handlerVars, commitVars
<1>8. CASE HandlerDecode
  <2>1. cacheR.data[decoded + 1] \in Value
    BY <1>8 DEF HandlerDecode, FilesOK, FileType, runVars, handlerVars, commitVars
  <2> QED BY <1>8, <2>1 DEF HandlerDecode, HandsOK, HandsInv, runVars, handlerVars, commitVars
<1>9. CASE CommitTake
  <2>1. Head(out) \in Value
    BY <1>9 DEF CommitTake, ValuesOK, runVars, handlerVars, commitVars
  <2> QED BY <1>9, <2>1 DEF CommitTake, HandsOK, HandsInv, runVars, handlerVars, commitVars
<1>10. CASE UNCHANGED vars
  BY <1>1, <1>10 DEF vars, ioVars, runVars, handlerVars, commitVars, fileVars
<1> QED
  BY <1>2, <1>3, <1>4, <1>5, <1>6, <1>7, <1>8, <1>9, <1>10
  DEF Next, Run, cacheHandler, Commit, Finished

\* A smaller cache has the room of a larger one.
LEMMA RoomKept ==
  ASSUME NEW a \in Nat, NEW b \in Nat, NEW e \in Nat, NEW m \in Nat, b <= a, a + e <= m + 1
  PROVE  b + e <= m + 1
OBVIOUS

\* The count of the cache, and who is about to add to it.
LEMMA RoomStep ==
  ASSUME HandsOK, ValuesOK, FilesOK, FilesOK', RoomInv, [Next]_vars
  PROVE  RoomInv'
<1>a. /\ cacheR \in FileType /\ cacheW \in FileType /\ cacheR' \in FileType /\ cacheW' \in FileType
      /\ MaxSize \in Nat /\ Cached \in Seq(OldValues)
  BY ChanCacherAssumption, Zenon DEF FilesOK
<1>b. /\ cacheR.count \in Nat /\ cacheW.count \in Nat /\ cacheR'.count \in Nat /\ cacheW'.count \in Nat
  BY <1>a DEF FileType
<1>c. cacheR.pos \in Nat /\ Len(cacheR.data) \in Nat
  BY <1>a DEF FileType
<1>d. Len(Cached) \in Nat
  BY <1>a
<1>0. /\ cacheR.count \in Nat /\ cacheW.count \in Nat /\ cacheR'.count \in Nat /\ cacheW'.count \in Nat
      /\ MaxSize \in Nat /\ Len(Cached) \in Nat /\ cacheR.pos \in Nat /\ Len(cacheR.data) \in Nat
  BY <1>a, <1>b, <1>c, <1>d, Zenon
<1>1. Size \in Nat /\ Size' \in Nat
  BY <1>b DEF Size
<1>2. CASE /\ Size' <= Size
           /\ (runPc' = "encode") <=> (runPc = "encode")
           /\ (commitPc' = "encode") <=> (commitPc = "encode")
  <2>1. Encoding' = Encoding /\ Encoding \in Nat
    BY <1>2 DEF Encoding
  <2>2. SizeBound'
    BY <1>0, <1>1, <1>2 DEF RoomInv, SizeBound
  <2>3. ASSUME MaxSize # 0, Encoding > 0 PROVE Size' + Encoding <= MaxSize + 1
    <3>1. Size + Encoding <= MaxSize + 1
      BY <2>3 DEF RoomInv
    <3> QED BY <1>0, <1>1, <1>2, <2>1, <3>1, RoomKept, Zenon
  <2> QED BY <2>1, <2>2, <2>3 DEF RoomInv
<1>3. ASSUME UNCHANGED <<cacheR, cacheW>> PROVE Size' <= Size
  BY <1>b, <1>3 DEF Size
<1>4. CASE \/ RunSend \/ RunFull \/ RunSelectSend \/ RunSelectCache
         \/ RunInClosed \/ RunPollModified \/ RunPollReading \/ RunFinish \/ RunAck
         \/ RunCloseOut \/ (\E v \in Values : SendIn(v))
  <2>1. UNCHANGED <<cacheR, cacheW, commitPc>> /\ runPc # "encode" /\ runPc' # "encode"
    BY <1>4, Zenon
    DEF SendIn, RunSend, RunFull, RunSelectSend, RunSelectCache, RunInClosed, RunPollModified,
        RunPollReading, RunFinish, RunAck, RunCloseOut, commitVars, fileVars
  <2> QED BY <1>2, <1>3, <2>1
<1>5. CASE \/ CommitCall \/ CommitAck \/ CommitTake \/ CommitClose
  <2>1. UNCHANGED <<cacheR, cacheW, runPc>> /\ commitPc # "encode" /\ commitPc' # "encode"
    BY <1>5, Zenon DEF CommitCall, CommitAck, CommitTake, CommitClose, runVars, commitVars, fileVars
  <2> QED BY <1>2, <1>3, <2>1
<1>6. CASE \/ CloseIn \/ ReceiveOut \/ CacheStart \/ CacheStop \/ HandlerStart \/ HandlerDecode \/ HandlerSend
         \/ HandlerAck \/ HandlerNotDone \/ HandlerSleep \/ HandlerTimer \/ HandlerSwapped \/ UNCHANGED vars
  <2>1. UNCHANGED <<cacheR, cacheW, runPc, commitPc>>
    BY <1>6, Zenon
    DEF CloseIn, ReceiveOut, CacheStart, CacheStop, HandlerStart, HandlerDecode, HandlerSend,
        HandlerAck,
        HandlerNotDone, HandlerSleep, HandlerTimer, HandlerSwapped, vars, runVars, commitVars, fileVars
  <2> QED BY <1>2, <1>3, <2>1
<1>7. CASE HandlerRead \/ HandlerDrained \/ HandlerSwap
  <2>1. UNCHANGED <<runPc, commitPc>>
    BY <1>7, Zenon DEF HandlerRead, HandlerDrained, HandlerSwap, runVars, commitVars
  <2>2. \/ \E k \in 1..(Len(cacheR.data) - cacheR.pos) :
             cacheR'.count = cacheR.count - k /\ cacheW'.count = cacheW.count
        \/ cacheR'.count = cacheR.count /\ cacheW'.count = cacheW.count
        \/ cacheR'.count = cacheW.count /\ cacheW'.count = cacheR.count
    BY <1>7, ReadFacts, DrainFacts, SwapFacts, Zenon
  <2>3. Size' <= Size
    BY <1>0, <2>2 DEF Size
  <2> QED BY <1>2, <2>1, <2>3
<1>8. CASE RunCacheWait
  <2>1. ~CacheFull /\ UNCHANGED <<cacheR, cacheW, commitPc>> /\ runPc = "wait" /\ runPc' = "encode"
    BY <1>8 DEF RunCacheWait, commitVars, fileVars
  <2> QED BY <1>0, <2>1 DEF RoomInv, SizeBound, Encoding, Size, CacheFull
<1>9. CASE CommitCacheWait
  <2>1. ~CacheFull /\ UNCHANGED <<cacheR, cacheW, runPc>> /\ commitPc = "wait" /\ commitPc' = "encode"
    BY <1>9 DEF CommitCacheWait, runVars, fileVars
  <2> QED BY <1>0, <2>1 DEF RoomInv, SizeBound, Encoding, Size, CacheFull
<1>10. CASE RunEncode \/ CommitEncode
  <2>1. PICK v \in Value \ {Nil} : Encode(v)
    BY <1>10, EncodeFacts, Zenon
  <2>2. cacheW'.count = cacheW.count + 1 /\ cacheR' = cacheR
    BY <2>1, EncodeOutcome, Zenon DEF ValuesOK, FilesOK
  <2>3. Size' = Size + 1
    BY <2>2, <1>0 DEF Size
  <2>4. \/ runPc = "encode" /\ runPc' = "recv" /\ commitPc' = commitPc
        \/ commitPc = "encode" /\ commitPc' = "loop" /\ runPc' = runPc
    BY <1>10 DEF RunEncode, CommitEncode, runVars, commitVars
  <2> QED BY <1>0, <1>1, <2>3, <2>4 DEF RoomInv, SizeBound, Encoding
<1> QED
  BY <1>4, <1>5, <1>6, <1>7, <1>8, <1>9, <1>10, NextCases, Zenon DEF Still

-----------------------------------------------------------------------------
\* The flags stay flags.
LEMMA FlagsStep ==
  ASSUME FlagsOK, [Next]_vars
  PROVE  FlagsOK'
<1>1. CASE UNCHANGED <<inClosed, outClosed, selReady, runDone, readerStopped,
                        cacheModified, cacheReading, cachePaused, cacheDone, cacheAck,
                        cacheCommitted, cacheLock, fileLock>>
  BY <1>1 DEF FlagsOK
<1>2. CASE \/ RunSend \/ RunCacheWait \/ RunPollModified \/ RunPollReading \/ HandlerRead
         \/ HandlerDecode \/ HandlerSend \/ HandlerNotDone \/ HandlerSleep \/ HandlerTimer
         \/ ReceiveOut \/ CommitTake \/ CommitCacheWait \/ (\E v \in Values : SendIn(v))
  BY <1>2, <1>1, Zenon
  DEF SendIn, RunSend, RunCacheWait, RunPollModified, RunPollReading, HandlerRead,
      HandlerDecode, HandlerSend, HandlerNotDone, HandlerSleep, HandlerTimer, ReceiveOut,
      CommitTake, CommitCacheWait, ioVars, runVars, handlerVars, commitVars, fileVars
<1>3. CASE RunEncode
  BY <1>3 DEF RunEncode, Encode, FlagsOK, ioVars, runVars, handlerVars, commitVars, fileVars
<1>4. CASE CommitEncode
  BY <1>4 DEF CommitEncode, Encode, FlagsOK, ioVars, runVars, handlerVars, commitVars, fileVars
<1>5. CASE RunFull
  BY <1>5 DEF RunFull, FlagsOK, ioVars, runVars, handlerVars, commitVars, fileVars
<1>6. CASE RunSelectSend
  BY <1>6, ZenonT(60)
  DEF RunSelectSend, SendOut, FlagsOK, ioVars, runVars, handlerVars, commitVars, fileVars
<1>7. CASE RunSelectCache
  BY <1>7, ZenonT(60)
  DEF RunSelectCache, FlagsOK, ioVars, runVars, handlerVars, commitVars, fileVars
<1>8. CASE RunInClosed
  BY <1>8 DEF RunInClosed, FlagsOK, ioVars, runVars, handlerVars, commitVars, fileVars
<1>9. CASE RunFinish
  BY <1>9 DEF RunFinish, finishCache, FlagsOK, ioVars, runVars, handlerVars, commitVars, fileVars
<1>10. CASE RunAck
  BY <1>10, ZenonT(60) DEF RunAck, FlagsOK, ioVars, runVars, handlerVars, commitVars, fileVars
<1>11. CASE RunCloseOut
  BY <1>11 DEF RunCloseOut, FlagsOK, ioVars, runVars, handlerVars, commitVars, fileVars
<1>12. CASE HandlerStart
  BY <1>12 DEF HandlerStart, FlagsOK, ioVars, runVars, handlerVars, commitVars, fileVars
<1>13. CASE HandlerDrained
  BY <1>13, ZenonT(60)
  DEF HandlerDrained, FlagsOK, ioVars, runVars, handlerVars, commitVars, fileVars
<1>14. CASE HandlerAck
  BY <1>14 DEF HandlerAck, FlagsOK, ioVars, runVars, handlerVars, commitVars, fileVars
<1>15. CASE HandlerSwap
  BY <1>15, ZenonT(60) DEF HandlerSwap, FlagsOK, ioVars, runVars, handlerVars, commitVars, fileVars
<1>16. CASE HandlerSwapped
  BY <1>16, ZenonT(60)
  DEF HandlerSwapped, FlagsOK, ioVars, runVars, handlerVars, commitVars, fileVars
<1>17. CASE CloseIn
  BY <1>17 DEF CloseIn, FlagsOK, ioVars, runVars, handlerVars, commitVars, fileVars
<1>18. CASE CacheStart
  BY <1>18, Zenon DEF CacheStart, FlagsOK, ioVars, runVars, handlerVars, commitVars, fileVars
<1>19. CASE CacheStop
  BY <1>19 DEF CacheStop, FlagsOK, ioVars, runVars, handlerVars, commitVars, fileVars
<1>20. CASE CommitAck
  BY <1>20 DEF CommitAck, FlagsOK, ioVars, runVars, handlerVars, commitVars, fileVars
<1>21. CASE CommitClose
  BY <1>21, Zenon DEF CommitClose, FlagsOK, ioVars, runVars, handlerVars, commitVars, fileVars
<1>22. CASE CommitCall
  <2>1. CASE Cache
    BY <1>22, <2>1
    DEF CommitCall, finishCache, FlagsOK, ioVars, runVars, handlerVars, commitVars, fileVars
  <2>2. CASE ~Cache
    BY <1>22, <2>2 DEF CommitCall, FlagsOK, ioVars, runVars, handlerVars, commitVars, fileVars
  <2> QED BY <2>1, <2>2
<1>23. CASE UNCHANGED vars
  BY <1>1, <1>23 DEF vars, ioVars, runVars, handlerVars, commitVars, fileVars
<1> QED
  BY <1>2, <1>3, <1>4, <1>5, <1>6, <1>7, <1>8, <1>9, <1>10, <1>11, <1>12, <1>13, <1>14,
     <1>15, <1>16, <1>17, <1>18, <1>19, <1>20, <1>21, <1>22, <1>23
  DEF Next, Run, cacheHandler, Commit, Finished

\* Histories and channels keep their types, and Out its capacity.
LEMMA ValuesStep ==
  ASSUME HandsOK, ValuesOK, FilesOK, [Next]_vars
  PROVE  ValuesOK'
<1>1. CASE Still \/ RunSelectCache \/ HandlerRead \/ HandlerDecode \/ HandlerSwap
  <2>1. UNCHANGED <<accepted, delivered, lost, fails, out>>
    BY <1>1, StillValues, PassFacts, ReadFacts, DecodeFacts, SwapFacts, Zenon
  <2> QED BY <2>1 DEF ValuesOK
<1>2. ASSUME NEW v \in Values, SendIn(v) PROVE ValuesOK'
  BY <1>2 DEF SendIn, ValuesOK, fileVars
<1>3. CASE RunSend \/ RunSelectSend \/ HandlerSend
  <2>1. PICK v \in Value : /\ out' = Append(out, v) /\ Len(out) < MaxDepth
                           /\ UNCHANGED <<accepted, delivered, lost, fails>>
    BY <1>3, SendFacts
  <2> QED BY <2>1, ChanCacherAssumption DEF ValuesOK
<1>4. CASE ReceiveOut \/ CommitTake
  <2>1. out # <<>> => Head(out) \in Value /\ Tail(out) \in Seq(Value) /\ Len(Tail(out)) <= MaxDepth
    BY ChanCacherAssumption DEF ValuesOK
  <2> QED BY <1>4, <2>1, ReceiveFacts DEF ValuesOK
<1>5. CASE RunEncode \/ CommitEncode
  <2>1. PICK v \in Value \ {Nil} : Encode(v) /\ UNCHANGED <<accepted, delivered, out>>
    BY <1>5, EncodeFacts, Zenon
  <2>2. lost' \subseteq Value /\ fails' \in 0..MaxFails
    BY <2>1, EncodeOutcome, ZenonT(60) DEF ValuesOK, FilesOK
  <2> QED BY <2>1, <2>2 DEF ValuesOK
<1>6. CASE HandlerDrained
  <2>1. Undecoded \subseteq Value
    BY DEF Undecoded, FilesOK, FileType
  <2> QED BY <1>6, <2>1, DrainFacts DEF ValuesOK
<1> QED
  BY <1>1, <1>2, <1>3, <1>4, <1>5, <1>6, NextCases, Zenon


\* At the end of the file every value has been decoded.
LEMMA DecodedAll ==
  ASSUME cacheR \in FileType, decoded = Len(cacheR.data)
  PROVE  Undecoded = {}
BY DEF Undecoded, FileType

\* NoVal stands for no value, and a nil or a torn record is none either.
LEMMA OwnedIsValue ==
  ASSUME accepted \subseteq Values
  PROVE  NoVal \notin Owned /\ Nil \notin Owned /\ Torn \notin Owned
BY ChanCacherAssumption DEF Owned, Elems

\* No step loses a value.
LEMMA NothingLostStep ==
  ASSUME HandsOK, ValuesOK, FilesOK, NothingLost, [Next]_vars
  PROVE  NothingLost'
<1>0. NoVal \notin Owned /\ Nil \notin Owned /\ Torn \notin Owned
  BY OwnedIsValue DEF ValuesOK
<1>1. CASE Still
  BY <1>1, StillValues, UndecodedSame DEF NothingLost, Owned
<1>2. ASSUME NEW v \in Values, SendIn(v) PROVE NothingLost'
  <2>1. /\ runVal = NoVal /\ accepted' = accepted \cup {v} /\ runVal' = v
        /\ UNCHANGED <<delivered, lost, out, handlerVal, commitVal, decoded, cacheR, cacheW>>
    BY <1>2 DEF SendIn, HandsOK, HandsInv, ioVars, handlerVars, commitVars, fileVars
  <2> QED BY <1>0, <2>1, UndecodedSame DEF NothingLost, Owned
<1>3. CASE RunSend \/ RunSelectSend \/ HandlerSend
  <2>1. \A v \in Value : Elems(Append(out, v)) = Elems(out) \cup {v}
    BY ElemsAppend DEF ValuesOK
  <2>2. PICK v \in Value :
          /\ out' = Append(out, v) /\ UNCHANGED <<accepted, delivered, lost, commitVal, decoded, cacheR, cacheW>>
          /\ (v = runVal /\ handlerVal' = handlerVal) \/ (v = handlerVal /\ runVal' = runVal)
    BY <1>3, SendFacts
  <2> QED BY <2>1, <2>2, UndecodedSame DEF NothingLost, Owned
<1>4. CASE RunSelectCache
  BY <1>0, <1>4, PassFacts, UndecodedSame DEF NothingLost, Owned
<1>5. CASE RunEncode \/ CommitEncode
  <2>1. PICK v \in Value \ {Nil} :
          /\ Encode(v) /\ UNCHANGED <<accepted, delivered, out, handlerVal, decoded, cacheR>>
          /\ (v = runVal /\ commitVal' = commitVal) \/ (v = commitVal /\ runVal' = runVal)
    BY <1>5, EncodeFacts, Zenon
  <2>2. /\ \/ v \in Elems(cacheW'.data) /\ lost' = lost
           \/ lost' = lost \cup {v}
        /\ Elems(cacheW.data) \subseteq Elems(cacheW'.data)
    BY <2>1, EncodeOutcome, ZenonT(60) DEF ValuesOK, FilesOK
  <2> QED BY <2>1, <2>2, UndecodedSame DEF NothingLost, Owned
<1>6. CASE HandlerRead
  BY <1>6, ReadFacts, UndecodedSame DEF NothingLost, Owned
<1>7. CASE HandlerDecode
  <2>1. \A i \in (decoded + 1)..Len(cacheR.data) :
          i = decoded + 1 \/ i \in (decoded + 1 + 1)..Len(cacheR.data)
    BY <1>7, DecodeFacts
  <2>2. Undecoded \subseteq Undecoded' \cup {handlerVal'}
    BY <1>7, <2>1, DecodeFacts, Zenon DEF Undecoded
  <2> QED BY <1>0, <1>7, <2>2, DecodeFacts DEF NothingLost, Owned
<1>8. CASE HandlerDrained
  BY <1>8, DrainFacts DEF NothingLost, Owned
<1>9. CASE HandlerSwap
  <2>1. cacheR'.data = cacheW.data /\ decoded' = 0 /\ cacheR.data = <<>> /\ decoded = 0
    BY <1>9, SwapFacts
  <2>2. Elems(cacheW.data) \subseteq Undecoded' \cup {Torn}
    <3>1. DOMAIN cacheW.data = (0 + 1)..Len(cacheW.data)
      BY DEF FilesOK, FileType
    <3> QED BY <2>1, <3>1, Zenon DEF Elems, Undecoded
  <2>3. Undecoded = {}
    BY <2>1 DEF Undecoded
  <2> QED BY <1>0, <1>9, <2>2, <2>3, SwapFacts DEF NothingLost, Owned
<1>10. CASE ReceiveOut \/ CommitTake
  <2>1. Elems(out) = {Head(out)} \cup Elems(Tail(out))
    BY <1>10, ReceiveFacts, ElemsHeadTail DEF ValuesOK
  <2>2. /\ out' = Tail(out) /\ Undecoded' = Undecoded
        /\ UNCHANGED <<accepted, lost, runVal, handlerVal, cacheW>> /\ delivered \subseteq delivered'
        /\ commitVal' = commitVal \/ commitVal = NoVal
        /\ Head(out) \in delivered' \cup {commitVal', Nil}
    BY <1>10, ReceiveFacts, UndecodedSame
  <2> QED BY <1>0, <2>1, <2>2 DEF NothingLost, Owned
<1> QED
  BY <1>1, <1>2, <1>3, <1>4, <1>5, <1>6, <1>7, <1>8, <1>9, <1>10, NextCases, Zenon

\* What is dropped follows a failed write.
LEMMA LossStep ==
  ASSUME HandsOK, ValuesOK, FilesOK, LossNeedsFailure, [Next]_vars
  PROVE  LossNeedsFailure'
<1>1. CASE \/ Still \/ (\E v \in Values : SendIn(v)) \/ RunSend \/ RunSelectSend \/ RunSelectCache
            \/ HandlerRead \/ HandlerDecode \/ HandlerSend
            \/ HandlerSwap \/ ReceiveOut \/ CommitTake
  <2>1. UNCHANGED <<lost, fails>>
    BY <1>1, StillValues, SendFacts, PassFacts, ReadFacts, DecodeFacts, SwapFacts, ReceiveFacts, Zenon
    DEF SendIn, fileVars
  <2> QED BY <2>1 DEF LossNeedsFailure
<1>2. CASE RunEncode \/ CommitEncode
  <2>1. PICK v \in Value \ {Nil} : Encode(v)
    BY <1>2, EncodeFacts, Zenon
  <2>2. (lost' = lost /\ fails' = fails) \/ fails' = fails + 1
    BY <2>1, EncodeOutcome, Zenon DEF ValuesOK, FilesOK
  <2> QED BY <2>2, ChanCacherAssumption DEF LossNeedsFailure, ValuesOK
<1>3. CASE HandlerDrained
  <2>1. lost' = lost \cup Undecoded /\ fails' = fails
    BY <1>3, DrainFacts, Zenon
  <2>2. CASE decoded = Len(cacheR.data)
    BY <2>1, <2>2, DecodedAll DEF FilesOK, LossNeedsFailure
  <2>3. CASE decoded < cacheR.pos /\ cacheR.data[decoded + 1] = Torn
    <3>1. decoded + 1 \in DOMAIN cacheR.data
      BY <2>3 DEF FilesOK, FileType
    <3>2. Torn \in Elems(cacheR.data)
      BY <2>3, <3>1 DEF Elems
    <3> QED BY <2>1, <3>2 DEF FilesOK, FilesInv, LossNeedsFailure
  <2> QED BY <1>3, <2>2, <2>3, Zenon DEF HandlerDrained
<1> QED BY <1>1, <1>2, <1>3, NextCases, Zenon


\* The invariant is inductive.
LEMMA IInvInductive == Init /\ [][Next]_vars => []IInv
<1>1. Init => IInv
  BY IInvInit, Zenon
<1>2. IInv /\ [Next]_vars => IInv'
  <2> SUFFICES ASSUME IInv, [Next]_vars PROVE IInv'
    OBVIOUS
  <2>1. /\ FlagsOK /\ HandsOK /\ ValuesOK /\ FilesOK
        /\ ControlInv /\ NothingLost /\ LossNeedsFailure
    BY PartsOfIInv
  <2>2. FlagsOK' /\ HandsOK' /\ ValuesOK' /\ FilesOK'
    BY <2>1, FlagsStep, HandsStep, ValuesStep, FilesStep
  <2>3. ControlInv' /\ NothingLost' /\ LossNeedsFailure'
    BY <2>1, ControlStep, NothingLostStep, LossStep
  <2> QED BY <2>2, <2>3
    DEF IInv, TypeOK, FlagsOK, HandsOK, ValuesOK, FilesOK
<1> QED BY <1>1, <1>2, PTL

\* The fields and the locals of the goroutines keep their types, and Out its capacity.
THEOREM TypeCorrect == Spec => []TypeOK
<1>1. IInv => TypeOK
  BY DEF IInv
<1> QED BY <1>1, IInvInductive, PTL DEF Spec

\* However run(), cacheHandler(), Commit(), the producer and the consumer
\* interleave, whatever MaxDepth, MaxSize and the number of values, no value
\* leaves the ChanCacher except through Out or with a logged error.
THEOREM NoValueLost == Spec => []NothingLost
<1>1. IInv => NothingLost
  BY DEF IInv
<1> QED BY <1>1, IInvInductive, PTL DEF Spec

\* A value is dropped only after a write to a cache file has failed.
THEOREM LossOnlyAfterFailure == Spec => []LossNeedsFailure
<1>1. IInv => LossNeedsFailure
  BY DEF IInv
<1> QED BY <1>1, IInvInductive, PTL DEF Spec

\* run() closes Out only after cacheHandler() has returned or if it never
\* ran, so no goroutine sends on a closed Out.
THEOREM NoSendOnClosed == Spec => []NoSendOnClosedOut
<1>1. IInv => NoSendOnClosedOut
  BY Zenon DEF IInv, ControlInv, NoSendOnClosedOut
<1> QED BY <1>1, IInvInductive, PTL DEF Spec

\* When Out is closed, and Commit() was not called, both cache files are
\* empty: the guarantee the package documentation gives for closing In.
THEOREM DrainedBeforeClose == Spec => []DrainedWhenClosed
<1>1. IInv => DrainedWhenClosed
  BY Zenon DEF IInv, HandsInv, FilesInv, ControlInv, DrainedWhenClosed
<1> QED BY <1>1, IInvInductive, PTL DEF Spec

\* When Commit() has returned every value was received, was dropped with a
\* logged error or is in the synced write file.
THEOREM CommitSavesAll == Spec => []CommitSaves
<1>1. IInv => CommitSaves
  <2> SUFFICES ASSUME IInv, cacheCommitted, Cache
               PROVE  Owned \subseteq delivered \cup lost \cup Elems(cacheW.data)
    BY DEF CommitSaves
  <2>1. commitPc = "done" /\ runDone /\ readerStopped /\ out = <<>> /\ handlerPc = "done"
    BY Zenon DEF IInv, ControlInv
  <2>2. runVal = NoVal /\ handlerVal = NoVal /\ commitVal = NoVal
    BY <2>1 DEF IInv, HandsInv, ControlInv
  <2>3. Undecoded = {} /\ Elems(out) = {}
    BY <2>1, DecodedAll, ElemsEmpty DEF IInv, TypeOK, FilesInv
  <2>4. NoVal \notin Owned
    BY OwnedIsValue DEF IInv, TypeOK
  <2> QED BY <2>2, <2>3, <2>4 DEF IInv, NothingLost
<1> QED BY <1>1, IInvInductive, PTL DEF Spec

\* The cache never holds more than one value above maxSize, unless it was
\* fuller when the ChanCacher was made: the test of the size and the write are
\* two steps, and run() and Commit() are two writers.
THEOREM SizeIsBounded == Spec => []SizeBound
<1>1. Init => RoomInv
  BY ChanCacherAssumption DEF Init, RoomInv, SizeBound, Encoding, Size, NewFileCounter
<1>2. IInv /\ IInv' /\ RoomInv /\ [Next]_vars => RoomInv'
  <2> SUFFICES ASSUME IInv, IInv', RoomInv, [Next]_vars PROVE RoomInv'
    OBVIOUS
  <2>1. HandsOK /\ ValuesOK /\ FilesOK
    BY PartsOfIInv
  <2>2. FilesOK'
    BY PartsOfIInv, PTL
  <2> QED BY <2>1, <2>2, RoomStep
<1>3. RoomInv => SizeBound
  BY DEF RoomInv
<1> QED BY <1>1, <1>2, <1>3, IInvInductive, PTL DEF Spec

\* No value is in two places, or twice in one, at any time, if the file that
\* was found at the start holds every value once.
THEOREM DeliveredOnce == NoRepeat(Cached, 0) /\ Spec => []ExactlyOnce
<1>1. NoRepeat(Cached, 0) /\ Init => OnceInv
  BY OnceInit, Zenon
<1>2. IInv /\ OnceInv /\ [Next]_vars => OnceInv'
  BY PartsOfIInv, OnceStep
<1>3. OnceInv => ExactlyOnce
  BY DEF OnceInv
<1> QED BY <1>1, <1>2, <1>3, IInvInductive, PTL DEF Spec

=============================================================================
