----------------------------- MODULE ChanCacher -----------------------------
(***************************************************************************)
(* One life of a ChanCacher (chancacher/chancacher.go): the goroutines     *)
(* run() and cacheHandler(), a caller of Commit(), callers of CacheStart() *)
(* and CacheStop(), the producer on In and the consumer on Out.            *)
(*                                                                         *)
(* A value is an opaque token, and a cache file is the sequence of the gob *)
(* values in it; its size is counted in values.  The fields that the code  *)
(* reads without holding cacheLock (cacheModified, cacheReading, runDone,  *)
(* cacheCommitted, the counts) are read here in steps of their own.        *)
(***************************************************************************)
EXTENDS Integers, Sequences, FiniteSets

CONSTANTS
  Values,    \* what the producer may send on In, each value at most once
  Nil,       \* the nil interface; it may be an element of Values
  NoVal,     \* "no value in hand"
  Torn,      \* a record that a failed write left unreadable in a file
  MaxDepth,  \* capacity of Out
  MaxSize,   \* maxSize of the cache, in values; 0 is unlimited
  Cache,     \* was the ChanCacher given a cachePath?
  OldValues, \* values an earlier life may have left on disk
  Cached,    \* contents of the read file when this life begins
  MaxFails   \* bound on the number of failed writes

Elems(s) == {s[i] : i \in DOMAIN s}

ASSUME ChanCacherAssumption ==
  /\ MaxDepth \in Nat \ {0}
  /\ MaxSize \in Nat
  /\ MaxFails \in Nat
  /\ Cache \in BOOLEAN
  /\ OldValues \cap Values = {} /\ Nil \notin OldValues
  /\ Cached \in Seq(OldValues)
  /\ ~Cache => Cached = <<>>
  /\ NoVal \notin Values \cup OldValues \cup {Nil, Torn}
  /\ Torn \notin Values \cup OldValues \cup {Nil}

Value == Values \cup OldValues

VARIABLES
  accepted,       \* history: values run() took from In
  delivered,      \* history: values the consumer took from Out
  lost,           \* history: values dropped after a logged encode or decode error
  fails,          \* failed writes so far
  inClosed,       \* In is closed
  out,            \* the buffered channel Out
  outClosed,      \* Out is closed
  runPc,          \* where run() is
  runVal,         \* v of run()
  selReady,       \* the cachePaused channel run() selects on is closed
  runDone,
  handlerPc,      \* where cacheHandler() is
  handlerVal,     \* v of cacheHandler()
  decoded,        \* values its decoder has returned from cacheR
  commitPc,       \* where Commit() is
  commitVal,      \* v of Commit()
  readerStopped,  \* local of Commit()
  cacheR,         \* fileCounter of the file being read
  cacheW,         \* fileCounter of the file being written
  cacheModified,
  cacheReading,
  cachePaused,    \* the cachePaused channel is open, that is, the cache is stopped
  cacheDone,      \* the cacheDone channel is closed (cacheIsDone)
  cacheAck,       \* the cacheAck channel is closed
  cacheCommitted,
  cacheLock,      \* cacheHandler() is inside its swap (the only section of two steps)
  fileLock        \* the flock on the cache directory is held

ioVars == <<accepted, delivered, inClosed, out, outClosed>>
runVars == <<runPc, runVal, selReady, runDone>>
handlerVars == <<handlerPc, handlerVal, decoded, cacheReading, cacheAck, cacheLock>>
commitVars == <<commitPc, commitVal, readerStopped, cacheCommitted>>
fileVars == <<cacheR, cacheW, cacheModified, lost, fails>>
vars == <<ioVars, runVars, handlerVars, commitVars, fileVars,
          cachePaused, cacheDone, fileLock>>

-----------------------------------------------------------------------------
(* fileCounter: contents, count and read offset of one open cache file.    *)

NewFileCounter(s) == [data |-> s, count |-> Len(s), pos |-> 0]

\* Mutant of Truncated: the Truncate is missing.
OnlyRewound(f) == [f EXCEPT !.pos = 0]

\* Seek(0,0); Truncate(0): the count is not touched.
Truncated(f) == [f EXCEPT !.data = <<>>, !.pos = 0]

Size == cacheR.count + cacheW.count

\* What cacheHandler() has not decoded yet.
Undecoded == {cacheR.data[i] : i \in (decoded + 1)..Len(cacheR.data)} \ {Torn}

Init ==
  /\ accepted = {} /\ delivered = {} /\ lost = {} /\ fails = 0
  /\ inClosed = FALSE /\ out = <<>> /\ outClosed = FALSE
  /\ runPc = "recv" /\ runVal = NoVal /\ selReady = FALSE /\ runDone = FALSE
  /\ handlerPc = IF Cache THEN "start" ELSE "off"
  /\ handlerVal = NoVal /\ decoded = 0
  /\ commitPc = "idle" /\ commitVal = NoVal /\ readerStopped = FALSE
  /\ cacheR = NewFileCounter(Cached) /\ cacheW = NewFileCounter(<<>>)
  /\ cacheModified = FALSE /\ cacheReading = FALSE
  /\ cachePaused = FALSE /\ cacheDone = FALSE /\ cacheAck = FALSE
  /\ cacheCommitted = FALSE /\ cacheLock = FALSE /\ fileLock = Cache

-----------------------------------------------------------------------------
(* The producer and the consumer.                                          *)

\* In is unbuffered: the send completes when run() receives.
SendIn(v) ==
  /\ ~inClosed /\ v \notin accepted
  /\ runPc = "recv"
  /\ accepted' = accepted \cup {v}
  /\ runVal' = v
  /\ runPc' = "try"
  /\ UNCHANGED <<delivered, inClosed, out, outClosed, selReady, runDone, handlerVars,
                 commitVars, fileVars, cachePaused, cacheDone, fileLock>>

CloseIn ==
  /\ ~inClosed
  /\ inClosed' = TRUE
  /\ UNCHANGED <<accepted, delivered, out, outClosed, runVars, handlerVars, commitVars,
                 fileVars, cachePaused, cacheDone, fileLock>>

ReceiveOut ==
  /\ out # <<>>
  /\ delivered' = delivered \cup {Head(out)}
  /\ out' = Tail(out)
  /\ UNCHANGED <<accepted, inClosed, outClosed, runVars, handlerVars, commitVars,
                 fileVars, cachePaused, cacheDone, fileLock>>

-----------------------------------------------------------------------------
(* cacheValue(v), called by run() and by Commit(): a nil is dropped; the   *)
(* caller sleeps while the cache is full; then the value is encoded into   *)
(* cacheW under cacheLock.  A failed write is counted and logged, and may  *)
(* leave a partial record in the file; the value is gone.                  *)

\* Mutant of CacheFull: off by one.
CacheFullLate == MaxSize # 0 /\ Size > MaxSize

CacheFull == MaxSize # 0 /\ Size >= MaxSize

Encode(v) ==
  /\ ~cacheLock
  /\ cacheModified' = TRUE
  /\ \/ /\ cacheW' = [cacheW EXCEPT !.data = Append(@, v), !.count = @ + 1]
        /\ UNCHANGED <<lost, fails>>
     \/ /\ fails < MaxFails
        /\ fails' = fails + 1
        /\ lost' = lost \cup {v}
        /\ \/ cacheW' = [cacheW EXCEPT !.count = @ + 1]
           \/ cacheW' = [cacheW EXCEPT !.data = Append(@, Torn), !.count = @ + 1]
  /\ UNCHANGED cacheR

-----------------------------------------------------------------------------
(* run()                                                                   *)

SendOut(v) ==
  /\ Len(out) < MaxDepth
  /\ out' = Append(out, v)

\* The first select, when Out has room.
RunSend ==
  /\ runPc = "try"
  /\ SendOut(runVal)
  /\ runVal' = NoVal /\ runPc' = "recv"
  /\ UNCHANGED <<accepted, delivered, inClosed, outClosed, selReady, runDone, handlerVars,
                 commitVars, fileVars, cachePaused, cacheDone, fileLock>>

\* Its default case.  The second select evaluates c.cachePaused once, on entry.
RunFull ==
  /\ runPc = "try" /\ Len(out) >= MaxDepth
  /\ runPc' = "select"
  /\ selReady' = (Cache /\ ~cachePaused)
  /\ UNCHANGED <<ioVars, runVal, runDone, handlerVars, commitVars, fileVars, cachePaused,
                 cacheDone, fileLock>>

\* The blocking send: without a cache, or as a case of the second select.
RunSelectSend ==
  /\ runPc = "select"
  /\ SendOut(runVal)
  /\ runVal' = NoVal /\ runPc' = "recv" /\ selReady' = FALSE
  /\ UNCHANGED <<accepted, delivered, inClosed, outClosed, runDone, handlerVars,
                 commitVars, fileVars, cachePaused, cacheDone, fileLock>>

RunSelectCache ==
  /\ runPc = "select" /\ selReady
  /\ IF runVal = Nil
     THEN runPc' = "recv" /\ runVal' = NoVal
     ELSE runPc' = "wait" /\ UNCHANGED runVal
  /\ selReady' = FALSE
  /\ UNCHANGED <<ioVars, runDone, handlerVars, commitVars, fileVars, cachePaused,
                 cacheDone, fileLock>>

RunCacheWait ==
  /\ runPc = "wait" /\ ~CacheFull
  /\ runPc' = "encode"
  /\ UNCHANGED <<ioVars, runVal, selReady, runDone, handlerVars, commitVars, fileVars,
                 cachePaused, cacheDone, fileLock>>

RunEncode ==
  /\ runPc = "encode"
  /\ Encode(runVal)
  /\ runVal' = NoVal /\ runPc' = "recv"
  /\ UNCHANGED <<ioVars, selReady, runDone, handlerVars, commitVars, cachePaused,
                 cacheDone, fileLock>>

\* Mutant of RunInClosed: the cache is stopped without waiting for it to drain.
RunInClosedNoWait ==
  /\ runPc = "recv" /\ inClosed
  /\ runDone' = TRUE
  /\ runPc' = IF Cache THEN "finish" ELSE "close"
  /\ UNCHANGED <<ioVars, runVal, selReady, handlerVars, commitVars, fileVars, cachePaused,
                 cacheDone, fileLock>>

RunInClosed ==
  /\ runPc = "recv" /\ inClosed
  /\ runDone' = TRUE
  /\ runPc' = IF Cache THEN "poll" ELSE "close"
  /\ UNCHANGED <<ioVars, runVal, selReady, handlerVars, commitVars, fileVars, cachePaused,
                 cacheDone, fileLock>>

\* Mutant of RunPollModified: the wait is not ended by a Commit().
RunPollIgnoresCommit ==
  /\ runPc = "poll" /\ ~cacheModified
  /\ runPc' = "poll2"
  /\ UNCHANGED <<ioVars, runVal, selReady, runDone, handlerVars, commitVars, fileVars,
                 cachePaused, cacheDone, fileLock>>

\* CacheHasData() reads cacheModified, then cacheReading, without cacheLock.
RunPollModified ==
  /\ runPc = "poll"
  /\ cacheModified => cacheCommitted
  /\ runPc' = IF cacheModified THEN "finish" ELSE "poll2"
  /\ UNCHANGED <<ioVars, runVal, selReady, runDone, handlerVars, commitVars, fileVars,
                 cachePaused, cacheDone, fileLock>>

RunPollReading ==
  /\ runPc = "poll2"
  /\ runPc' = IF cacheReading /\ ~cacheCommitted THEN "poll" ELSE "finish"
  /\ UNCHANGED <<ioVars, runVal, selReady, runDone, handlerVars, commitVars, fileVars,
                 cachePaused, cacheDone, fileLock>>

finishCache == ~cacheLock /\ cacheDone' = TRUE

RunFinish ==
  /\ runPc = "finish"
  /\ finishCache
  /\ runPc' = "ack"
  /\ UNCHANGED <<ioVars, runVal, selReady, runDone, handlerVars, commitVars, fileVars,
                 cachePaused, fileLock>>

\* Mutant of RunAck: run() does not wait for the acknowledgement.
RunAckNoWait ==
  /\ runPc = "ack"
  /\ fileLock' = FALSE
  /\ runPc' = "close"
  /\ UNCHANGED <<ioVars, runVal, selReady, runDone, handlerVars, commitVars, fileVars,
                 cachePaused, cacheDone>>

RunAck ==
  /\ runPc = "ack" /\ cacheAck
  /\ fileLock' = FALSE
  /\ runPc' = "close"
  /\ UNCHANGED <<ioVars, runVal, selReady, runDone, handlerVars, commitVars, fileVars,
                 cachePaused, cacheDone>>

RunCloseOut ==
  /\ runPc = "close"
  /\ outClosed' = TRUE
  /\ runPc' = "done"
  /\ UNCHANGED <<accepted, delivered, inClosed, out, runVal, selReady, runDone, handlerVars,
                 commitVars, fileVars, cachePaused, cacheDone, fileLock>>

Run ==
  \/ RunSend \/ RunFull \/ RunSelectSend \/ RunSelectCache \/ RunCacheWait \/ RunEncode
  \/ RunInClosed \/ RunPollModified \/ RunPollReading \/ RunFinish \/ RunAck \/ RunCloseOut

-----------------------------------------------------------------------------
(* cacheHandler().  cacheValue() keeps nil out of the files, so the test   *)
(* for a decoded nil never succeeds and has no action.                     *)

HandlerStart ==
  /\ handlerPc = "start"
  /\ cacheReading' = TRUE
  /\ handlerPc' = "decode"
  /\ UNCHANGED <<ioVars, runVars, handlerVal, decoded, cacheAck, cacheLock, commitVars,
                 fileVars, cachePaused, cacheDone, fileLock>>

\* The decoder's buffered reader takes any number of values at once; the
\* count falls when the bytes are read, before the values are decoded.
HandlerRead ==
  /\ handlerPc = "decode" /\ decoded = cacheR.pos
  /\ \E k \in 1..(Len(cacheR.data) - cacheR.pos) :
       cacheR' = [cacheR EXCEPT !.pos = @ + k, !.count = @ - k]
  /\ UNCHANGED <<ioVars, runVars, handlerVars, commitVars, cacheW, cacheModified, lost, fails,
                 cachePaused, cacheDone, fileLock>>

HandlerDecode ==
  /\ handlerPc = "decode" /\ decoded < cacheR.pos
  /\ cacheR.data[decoded + 1] # Torn
  /\ handlerVal' = cacheR.data[decoded + 1]
  /\ decoded' = decoded + 1
  /\ handlerPc' = "send"
  /\ UNCHANGED <<ioVars, runVars, cacheReading, cacheAck, cacheLock, commitVars, fileVars,
                 cachePaused, cacheDone, fileLock>>

HandlerSend ==
  /\ handlerPc = "send"
  /\ SendOut(handlerVal)
  /\ handlerVal' = NoVal /\ handlerPc' = "decode"
  /\ UNCHANGED <<accepted, delivered, inClosed, outClosed, runVars, decoded, cacheReading,
                 cacheAck, cacheLock, commitVars, fileVars, cachePaused, cacheDone, fileLock>>

\* Mutant of HandlerDrained: the end of the decoder's buffer is taken for the
\* end of the file.
HandlerDrainedShort ==
  /\ handlerPc = "decode" /\ decoded = cacheR.pos
  /\ cacheReading' = FALSE
  /\ lost' = lost \cup Undecoded
  /\ cacheR' = Truncated(cacheR)
  /\ decoded' = 0
  /\ handlerPc' = "check"
  /\ UNCHANGED <<ioVars, runVars, handlerVal, cacheAck, cacheLock, commitVars, cacheW,
                 cacheModified, fails, cachePaused, cacheDone, fileLock>>

\* Decode returns io.EOF, or an error that is logged; either way the file
\* is truncated, and what follows a torn record goes with it.
HandlerDrained ==
  /\ handlerPc = "decode"
  /\ \/ decoded = Len(cacheR.data)
     \/ decoded < cacheR.pos /\ cacheR.data[decoded + 1] = Torn
  /\ cacheReading' = FALSE
  /\ lost' = lost \cup Undecoded
  /\ cacheR' = Truncated(cacheR)
  /\ decoded' = 0
  /\ handlerPc' = "check"
  /\ UNCHANGED <<ioVars, runVars, handlerVal, cacheAck, cacheLock, commitVars, cacheW,
                 cacheModified, fails, cachePaused, cacheDone, fileLock>>

\* Mutant of HandlerAck: cacheDone is not in the select with which the
\* handler sleeps.
HandlerAckOnlyAtCheck ==
  /\ handlerPc = "check" /\ cacheDone
  /\ cacheAck' = TRUE
  /\ handlerPc' = "done"
  /\ UNCHANGED <<ioVars, runVars, handlerVal, decoded, cacheReading, cacheLock, commitVars,
                 fileVars, cachePaused, cacheDone, fileLock>>

HandlerAck ==
  /\ handlerPc \in {"check", "sleep"} /\ cacheDone
  /\ cacheAck' = TRUE
  /\ handlerPc' = "done"
  /\ UNCHANGED <<ioVars, runVars, handlerVal, decoded, cacheReading, cacheLock, commitVars,
                 fileVars, cachePaused, cacheDone, fileLock>>

HandlerNotDone ==
  /\ handlerPc = "check" /\ ~cacheDone
  /\ handlerPc' = "wait"
  /\ UNCHANGED <<ioVars, runVars, handlerVal, decoded, cacheReading, cacheAck, cacheLock,
                 commitVars, fileVars, cachePaused, cacheDone, fileLock>>

\* One turn of "for !c.cacheModified": look, then select on cacheDone and a timer.
HandlerSleep ==
  /\ handlerPc = "wait" /\ ~cacheModified
  /\ handlerPc' = "sleep"
  /\ UNCHANGED <<ioVars, runVars, handlerVal, decoded, cacheReading, cacheAck, cacheLock,
                 commitVars, fileVars, cachePaused, cacheDone, fileLock>>

HandlerTimer ==
  /\ handlerPc = "sleep"
  /\ handlerPc' = "wait"
  /\ UNCHANGED <<ioVars, runVars, handlerVal, decoded, cacheReading, cacheAck, cacheLock,
                 commitVars, fileVars, cachePaused, cacheDone, fileLock>>

\* Mutant of HandlerSwap: the truncation follows the swap.
HandlerSwapTruncates ==
  /\ handlerPc = "wait" /\ cacheModified
  /\ cacheLock' = TRUE
  /\ cacheR' = Truncated(cacheW)
  /\ cacheW' = cacheR
  /\ cacheModified' = FALSE
  /\ handlerPc' = "swap"
  /\ UNCHANGED <<ioVars, runVars, handlerVal, decoded, cacheReading, cacheAck, commitVars,
                 lost, fails, cachePaused, cacheDone, fileLock>>

\* The swap, up to the moment a lock-free reader can see neither flag set.
HandlerSwap ==
  /\ handlerPc = "wait" /\ cacheModified
  /\ cacheLock' = TRUE
  /\ cacheR' = [cacheW EXCEPT !.pos = 0]
  /\ cacheW' = cacheR
  /\ cacheModified' = FALSE
  /\ handlerPc' = "swap"
  /\ UNCHANGED <<ioVars, runVars, handlerVal, decoded, cacheReading, cacheAck, commitVars,
                 lost, fails, cachePaused, cacheDone, fileLock>>

HandlerSwapped ==
  /\ handlerPc = "swap"
  /\ cacheReading' = TRUE
  /\ cacheLock' = FALSE
  /\ handlerPc' = "decode"
  /\ UNCHANGED <<ioVars, runVars, handlerVal, decoded, cacheAck, commitVars, fileVars,
                 cachePaused, cacheDone, fileLock>>

cacheHandler ==
  \/ HandlerStart \/ HandlerRead \/ HandlerDecode \/ HandlerSend \/ HandlerDrained
  \/ HandlerAck \/ HandlerNotDone \/ HandlerSleep \/ HandlerTimer
  \/ HandlerSwap \/ HandlerSwapped

-----------------------------------------------------------------------------
(* CacheStart() and CacheStop().  Starting closes the channel that a run() *)
(* blocked in its second select holds; stopping replaces the field, and    *)
(* leaves run() with the closed channel it may already hold.               *)

CacheStart ==
  /\ Cache /\ ~cacheLock /\ cachePaused
  /\ cachePaused' = FALSE
  /\ selReady' = (runPc = "select")
  /\ UNCHANGED <<ioVars, runPc, runVal, runDone, handlerVars, commitVars, fileVars, cacheDone,
                 fileLock>>

CacheStop ==
  /\ Cache /\ ~cacheLock /\ ~cachePaused
  /\ cachePaused' = TRUE
  /\ UNCHANGED <<ioVars, runVars, handlerVars, commitVars, fileVars, cacheDone, fileLock>>

-----------------------------------------------------------------------------
(* Commit(), called at most once.                                          *)

\* Mutant of CommitCall: finishCache() is not called.
CommitCallNoFinish ==
  /\ commitPc = "idle"
  /\ IF Cache
     THEN commitPc' = "loop" /\ UNCHANGED cacheCommitted
     ELSE cacheCommitted' = TRUE /\ commitPc' = "done"
  /\ UNCHANGED <<ioVars, runVars, handlerVars, commitVal, readerStopped, fileVars, cachePaused,
                 cacheDone, fileLock>>

CommitCall ==
  /\ commitPc = "idle"
  /\ IF Cache
     THEN finishCache /\ commitPc' = "loop" /\ UNCHANGED cacheCommitted
     ELSE cacheCommitted' = TRUE /\ commitPc' = "done" /\ UNCHANGED cacheDone
  /\ UNCHANGED <<ioVars, runVars, handlerVars, commitVal, readerStopped, fileVars, cachePaused,
                 fileLock>>

CommitAck ==
  /\ commitPc = "loop" /\ cacheAck /\ ~readerStopped
  /\ readerStopped' = TRUE
  /\ UNCHANGED <<ioVars, runVars, handlerVars, commitPc, commitVal, cacheCommitted, fileVars,
                 cachePaused, cacheDone, fileLock>>

CommitTake ==
  /\ commitPc = "loop" /\ out # <<>>
  /\ out' = Tail(out)
  /\ IF Head(out) = Nil
     THEN UNCHANGED <<commitPc, commitVal>>
     ELSE commitPc' = "wait" /\ commitVal' = Head(out)
  /\ UNCHANGED <<accepted, delivered, inClosed, outClosed, runVars, handlerVars, readerStopped,
                 cacheCommitted, fileVars, cachePaused, cacheDone, fileLock>>

CommitCacheWait ==
  /\ commitPc = "wait" /\ ~CacheFull
  /\ commitPc' = "encode"
  /\ UNCHANGED <<ioVars, runVars, handlerVars, commitVal, readerStopped, cacheCommitted,
                 fileVars, cachePaused, cacheDone, fileLock>>

CommitEncode ==
  /\ commitPc = "encode"
  /\ Encode(commitVal)
  /\ commitVal' = NoVal /\ commitPc' = "loop"
  /\ UNCHANGED <<ioVars, runVars, handlerVars, readerStopped, cacheCommitted, cachePaused,
                 cacheDone, fileLock>>

\* Mutant of CommitClose: Commit() does not wait for the cache reader.
CommitCloseEarly ==
  /\ commitPc = "loop"
  /\ runDone /\ out = <<>>
  /\ fileLock' = FALSE
  /\ cacheCommitted' = TRUE
  /\ commitPc' = "done"
  /\ UNCHANGED <<ioVars, runVars, handlerVars, commitVal, readerStopped, fileVars, cachePaused,
                 cacheDone>>

CommitClose ==
  /\ commitPc = "loop"
  /\ runDone /\ out = <<>> /\ readerStopped
  /\ fileLock' = FALSE
  /\ cacheCommitted' = TRUE
  /\ commitPc' = "done"
  /\ UNCHANGED <<ioVars, runVars, handlerVars, commitVal, readerStopped, fileVars, cachePaused,
                 cacheDone>>

Commit ==
  CommitAck \/ CommitTake \/ CommitCacheWait \/ CommitEncode \/ CommitClose

-----------------------------------------------------------------------------
\* Everything has stopped and every value has been received.
Finished == outClosed /\ out = <<>> /\ commitPc \in {"idle", "done"} /\ UNCHANGED vars

Next ==
  \/ \E v \in Values : SendIn(v)
  \/ CloseIn
  \/ ReceiveOut
  \/ Run
  \/ cacheHandler
  \/ CacheStart \/ CacheStop
  \/ CommitCall \/ Commit
  \/ Finished

Spec == Init /\ [][Next]_vars

(***************************************************************************)
(* The Go scheduler runs every goroutine that can run.  The select with    *)
(* which cacheHandler() sleeps takes cacheDone when it finds it closed and *)
(* not the timer, which needs a second: strong fairness of HandlerAck.     *)
(* Nothing obliges a user to close In, to call Commit() or to start and    *)
(* stop the cache.                                                         *)
(***************************************************************************)
Fairness ==
  /\ WF_vars(Run) /\ WF_vars(cacheHandler) /\ SF_vars(HandlerAck) /\ WF_vars(Commit)

\* The consumer may stop receiving.
FairSpec == Spec /\ Fairness

-----------------------------------------------------------------------------
FileType == [data : Seq((Value \ {Nil}) \cup {Torn}), count : Nat, pos : Nat]

\* The types of the fields of a ChanCacher and of the locals of its
\* goroutines; Out never holds more than its capacity.
TypeOK ==
  /\ accepted \subseteq Values /\ delivered \subseteq Value /\ lost \subseteq Value
  /\ fails \in 0..MaxFails
  /\ inClosed \in BOOLEAN /\ outClosed \in BOOLEAN
  /\ out \in Seq(Value) /\ Len(out) <= MaxDepth
  /\ runPc \in {"recv", "try", "select", "wait", "encode", "poll", "poll2", "finish", "ack",
                "close", "done"}
  /\ runVal \in Value \cup {NoVal}
  /\ handlerPc \in {"off", "start", "decode", "send", "check", "wait", "sleep", "swap", "done"}
  /\ handlerVal \in Value \cup {NoVal}
  /\ commitPc \in {"idle", "loop", "wait", "encode", "done"}
  /\ commitVal \in Value \cup {NoVal}
  /\ cacheR \in FileType /\ cacheW \in FileType
  /\ decoded \in 0..cacheR.pos /\ cacheR.pos <= Len(cacheR.data)
  /\ selReady \in BOOLEAN /\ runDone \in BOOLEAN /\ readerStopped \in BOOLEAN
  /\ cacheModified \in BOOLEAN /\ cacheReading \in BOOLEAN /\ cachePaused \in BOOLEAN
  /\ cacheDone \in BOOLEAN /\ cacheAck \in BOOLEAN /\ cacheCommitted \in BOOLEAN
  /\ cacheLock \in BOOLEAN /\ fileLock \in BOOLEAN

\* The non-nil values this ChanCacher has become responsible for.
Owned == (accepted \ {Nil}) \cup Elems(Cached)

\* A value that was taken from In, or was on disk at the start, has been
\* received from Out, was dropped with a logged error, or is still in Out, in
\* a cache file or in the hands of run(), cacheHandler() or Commit(),
\* whatever the order in which the three move values between Out and the two files.
NothingLost ==
  Owned \subseteq delivered \cup lost \cup Elems(out) \cup {runVal, handlerVal, commitVal}
                 \cup Undecoded \cup Elems(cacheW.data)

\* Values are only ever dropped after a write to a cache file failed.
LossNeedsFailure == lost # {} => fails > 0

\* The places where a value may be: received, dropped, in Out, in the hands
\* of run(), cacheHandler() or Commit(), in the read and in the write file.
Holders ==
  <<delivered, lost, Elems(out), {runVal} \ {NoVal}, {handlerVal} \ {NoVal},
    {commitVal} \ {NoVal}, Undecoded, Elems(cacheW.data) \ {Torn}>>

Apart(h) == \A i, j \in 1..8 : i # j => h[i] \cap h[j] = {}

\* No value is twice in s behind its first n elements.
NoRepeat(s, n) == \A i, j \in (n + 1)..Len(s) : s[i] = s[j] => i = j \/ s[i] = Torn

\* Within one life no value is delivered twice: the moves through Out and
\* the two files never leave a second copy of a value behind.
ExactlyOnce ==
  /\ Apart(Holders)
  /\ NoRepeat(out, 0) /\ NoRepeat(cacheR.data, decoded) /\ NoRepeat(cacheW.data, 0)

\* "close ChanCacher.In and wait for the ChanCacher.Out to close, which does
\* carry guarantees that the internal buffers and cache are fully drained":
\* when run() closes Out and nobody called Commit(), both files are empty and
\* all that is left to receive is in Out.
DrainedWhenClosed ==
  outClosed /\ commitPc = "idle" => cacheR.data = <<>> /\ cacheW.data = <<>> /\ handlerVal = NoVal

\* Once Commit() has returned nothing is left in memory: every value was
\* received, was dropped with a logged error, or is in the file just synced.
CommitSaves ==
  cacheCommitted /\ Cache => Owned \subseteq delivered \cup lost \cup Elems(cacheW.data)

\* run() closes Out only when cacheHandler() can no longer send on it; a send
\* on a closed channel panics.
NoSendOnClosedOut == outClosed => handlerPc \in {"off", "done"} /\ runPc = "done"

\* The cache exceeds maxSize by at most one value, the one that the other of
\* run() and Commit() encodes between the test of the size and the lock.
SizeBound == MaxSize # 0 => Size <= MaxSize + 1 \/ Size <= Len(Cached)

\* Once In is closed, and if the consumer keeps receiving, run() drains the
\* cache and closes Out, unless Commit() is called or a write has failed: its
\* value is counted in Size for good, and run() may find the cache full and
\* wait for room forever.
ClosesOut ==
  WF_vars(ReceiveOut) =>
    (inClosed ~> (outClosed \/ commitPc # "idle" \/ [](fails > 0 /\ MaxSize # 0 /\ Size >= MaxSize)))

\* A Commit() called after In was closed returns, unless it finds the cache
\* full: then it sleeps forever, as nothing drains the cache any more.
CommitReturns ==
  (commitPc = "loop" /\ inClosed) ~> (cacheCommitted \/ [](MaxSize # 0 /\ Size >= MaxSize))

\* After a Commit(), run() stops waiting for the cache to drain and closes Out.
CommitClosesOut == (cacheCommitted /\ inClosed) ~> outClosed

-----------------------------------------------------------------------------
(* The inductive invariant behind the safety properties.                   *)

\* Each goroutine holds a value exactly where its code says so.
HandsInv ==
  /\ runPc \in {"try", "select"} => runVal \in Value
  /\ runPc \in {"wait", "encode"} => runVal \in Value \ {Nil}
  /\ runPc \notin {"try", "select", "wait", "encode"} => runVal = NoVal
  /\ handlerPc = "send" => handlerVal \in Value
  /\ handlerPc # "send" => handlerVal = NoVal
  /\ commitPc \in {"wait", "encode"} => commitVal \in Value \ {Nil}
  /\ commitPc \notin {"wait", "encode"} => commitVal = NoVal

\* The handler goes for the write file with an empty read file, and a write
\* file with data in it is marked as modified.  The counts never fall behind.
FilesInv ==
  /\ handlerPc \in {"check", "wait", "sleep", "done", "off"} =>
       cacheR.data = <<>> /\ cacheR.pos = 0
  /\ handlerPc \in {"check", "wait", "sleep", "done", "off", "swap", "start"} => decoded = 0
  /\ ~cacheModified => cacheW.data = <<>>
  /\ cacheW.pos = 0
  /\ cacheR.count >= Len(cacheR.data) - cacheR.pos
  /\ cacheW.count >= Len(cacheW.data)
  /\ Torn \in Elems(cacheR.data) \cup Elems(cacheW.data) => fails > 0

\* How the hand-shake of run(), cacheHandler() and Commit() proceeds.
ControlInv ==
  /\ cacheLock <=> handlerPc = "swap"
  /\ runDone <=> runPc \in {"poll", "poll2", "finish", "ack", "close", "done"}
  /\ cacheAck <=> handlerPc = "done"
  /\ cacheAck => cacheDone
  /\ outClosed <=> runPc = "done"
  /\ Cache /\ runPc \in {"close", "done"} => cacheAck
  /\ readerStopped => cacheAck
  /\ cacheCommitted <=> commitPc = "done"
  /\ Cache /\ commitPc = "done" => runDone /\ readerStopped /\ out = <<>>
  /\ commitPc = "idle" /\ runPc \in {"poll2", "finish", "ack", "close", "done"} => ~cacheModified
  /\ handlerPc = "off" <=> ~Cache
  /\ ~Cache => /\ ~selReady /\ ~cacheModified /\ commitPc \in {"idle", "done"}
               /\ runPc \in {"recv", "try", "select", "close", "done"}

\* What is held was taken from In or was on disk at the start; so a value
\* that the producer sends is not held yet.
OnceInv == ExactlyOnce /\ \A i \in 1..8 : Holders[i] \subseteq accepted \cup Elems(Cached)

\* The writers that have found room in the cache and have not encoded yet
\* were all counted when the last of them looked.
Encoding == (IF runPc = "encode" THEN 1 ELSE 0) + (IF commitPc = "encode" THEN 1 ELSE 0)
RoomInv == SizeBound /\ (MaxSize # 0 /\ Encoding > 0 => Size + Encoding <= MaxSize + 1)

IInv == TypeOK /\ HandsInv /\ FilesInv /\ ControlInv /\ NothingLost /\ LossNeedsFailure

=============================================================================
