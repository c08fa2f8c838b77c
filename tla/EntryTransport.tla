--------------------------- MODULE EntryTransport ---------------------------
(***************************************************************************)
(* One connection between an ingester's EntryWriter                        *)
(* (ingest/entryWriter.go) and an indexer's EntryReader                    *)
(* (ingest/entryReader.go) once both have been set up: the writer's calls, *)
(* which its mutex serialises, the reader's Read() loop, the reader's      *)
(* ackRoutine, and the two directions of the connection, which hold a      *)
(* bounded number of commands and may break at any time.                   *)
(*                                                                         *)
(* A command is its magic and its value: an EntryID, a tag (the indexer's  *)
(* tag for the n-th name is n) or the result of a ditto block.  Commands   *)
(* are sent and read whole.  Whether bytes that have arrived are already   *)
(* in the writer's bAckReader is not modelled: a decode that does not      *)
(* block may find the next command or not.                                 *)
(***************************************************************************)
EXTENDS Integers, Sequences

CONSTANTS
  Capacity,     \* OutstandingEntryCount of the writer
  AckCap,       \* OutstandingEntryCount of the reader: capacity of ackChan
  AckBuf,       \* commands in the buffer of the ackRoutine
  BufCap,       \* commands in the writer's buffer
  UpCap,        \* commands in flight to the reader
  DownCap,      \* commands in flight to the writer
  MaxId,        \* bound on the EntryIDs used
  MaxBatch,     \* bound on the size of a batch
  Requests,     \* which of the calls that wait for an answer are made
  MaxCalls,     \* bound on the calls that do not write entries
  MaxTag,       \* bound on the tags negotiated
  MaxTimeout,   \* bound on the reads of the writer that time out
  MaxThrottle,  \* bound on SendThrottle() calls
  MayBreak      \* whether the connection may break and the muxer may give up

ASSUME TransportAssumption ==
  /\ Capacity \in Nat \ {0, 1} /\ AckCap \in Nat \ {0} /\ AckBuf \in Nat \ {0, 1}
  /\ BufCap \in Nat \ {0} /\ UpCap \in Nat \ {0} /\ DownCap \in Nat \ {0}
  /\ MaxId \in Nat /\ MaxBatch \in Nat /\ MaxTag \in Nat /\ MaxCalls \in Nat
  /\ Requests \subseteq {"TAG", "INGESTER_STATE", "DITTO_BLOCK", "PING"}
  /\ MaxTimeout \in Nat /\ MaxThrottle \in Nat /\ MayBreak \in BOOLEAN

VARIABLES
  \* the writer: where its current call is and what it has to do there
  wPc,        \* next step of the call, "idle" when there is none
  next,       \* where flush() returns to
  svc,        \* the locals of serviceAcks() and readAcks() and where they return to
  goal,       \* what the call is for once everything is acked
  todo,       \* entries of the batch still to write
  bIO, ecb, sent, tags, ejected,
  \* the connection, the context of the muxer, and the error that bIO keeps
  \* once a write has timed out
  up, down, link, cancelled, wErr,
  \* the reader and its ackRoutine
  hand,       \* commands Read() has decided to send, at most one
  ackChan, aPc, abuf,
  \* history: entries Read() has taken, entries confirmed, entries that Add()
  \* refused after they were sent, and the bounds
  read, acked, refused, calls, timeouts, throttles

callVars == <<wPc, next, svc, goal, todo>>
writerVars == <<bIO, ecb, sent, tags, ejected>>
linkVars == <<up, down, link, cancelled, wErr>>
readerVars == <<hand, ackChan, aPc, abuf>>
histVars == <<read, acked, refused, calls, timeouts, throttles>>
vars == <<callVars, writerVars, linkVars, readerVars, histVars>>

Cmd(c, v) == [cmd |-> c, val |-> v]

Init ==
  /\ wPc = "idle" /\ next = "idle" /\ goal = "none" /\ todo = 0
  /\ svc = [orig |-> FALSE, blocking |-> FALSE, got |-> FALSE, last |-> FALSE, ret |-> "idle"]
  /\ bIO = <<>> /\ ecb = <<>> /\ sent = 0 /\ tags = <<>> /\ ejected = <<>>
  /\ up = <<>> /\ down = <<>> /\ link = TRUE /\ cancelled = FALSE /\ wErr = FALSE
  /\ hand = <<>> /\ ackChan = <<>> /\ aPc = "select" /\ abuf = <<>>
  /\ read = {} /\ acked = {} /\ refused = {} /\ calls = 0 /\ timeouts = 0 /\ throttles = 0

-----------------------------------------------------------------------------
\* The writer's helpers.

Full == Len(ecb) >= Capacity - 1

\* The call returns an error.  A failed Close() still closes the connection,
\* and the muxer then takes the unconfirmed entries back.
Fail ==
  IF goal = "CLOSE"
    THEN /\ wPc' = "closed" /\ link' = FALSE
         /\ ejected' = ecb /\ ecb' = <<>>
    ELSE wPc' = "failed" /\ UNCHANGED <<link, ejected, ecb>>

flush(to) == wPc' = "flush" /\ next' = to

\* serviceAcks(blocking), which returns to the step to.
serviceAcks(blocking, to) ==
  /\ svc' = [orig |-> blocking, blocking |-> blocking, got |-> FALSE, last |-> FALSE, ret |-> to]
  /\ IF blocking THEN flush("read") ELSE wPc' = "read" /\ UNCHANGED next

throwAckSync(to) == bIO' = Append(bIO, Cmd("FORCE_ACK", 0)) /\ flush(to)

\* ecb.Confirm(id); an ID that is not the oldest one is not expected.
Confirm(id) ==
  IF id = Head(ecb) THEN ecb' = Tail(ecb) /\ acked' = acked \cup {id}
                    ELSE UNCHANGED <<ecb, acked>>

-----------------------------------------------------------------------------
\* The calls.

Write ==
  /\ wPc = "idle" /\ sent < MaxId
  /\ todo' = 1 /\ goal' = "none" /\ serviceAcks(Full, "entry")
  /\ UNCHANGED <<writerVars, linkVars, readerVars, histVars>>

WriteBatch ==
  /\ wPc = "idle"
  /\ \E n \in 1..MaxBatch : sent + n <= MaxId /\ todo' = n
  /\ goal' = "none" /\ wPc' = "entry"
  /\ UNCHANGED <<next, svc, writerVars, linkVars, readerVars, histVars>>

\* The calls that start with a sync: ForceAck(), NegotiateTag(),
\* SendIngesterState() and Close().
StartSync(g) ==
  /\ goal' = g /\ throwAckSync("sync")
  /\ UNCHANGED <<svc, todo, ecb, sent, tags, ejected, linkVars, readerVars, read, acked, refused, timeouts, throttles>>

\* A call that does not write entries; only Close() is not limited.
Call == wPc = "idle" /\ calls < MaxCalls /\ calls' = calls + 1

ForceAck == Call /\ StartSync("none")
NegotiateTag == "TAG" \in Requests /\ Len(tags) < MaxTag /\ Call /\ StartSync("TAG")
SendIngesterState == "INGESTER_STATE" \in Requests /\ Call /\ StartSync("INGESTER_STATE")
Close == wPc \in {"idle", "failed"} /\ StartSync("CLOSE") /\ UNCHANGED calls

Ping ==
  /\ "PING" \in Requests /\ Call
  /\ goal' = "PING" /\ bIO' = Append(bIO, Cmd("PING", 0)) /\ flush("answer")
  /\ UNCHANGED <<svc, todo, ecb, sent, tags, ejected, linkVars, readerVars, read, acked, refused, timeouts, throttles>>

\* A block uses EntryIDs but is not put into the confirmation buffer.
WriteDittoBlock ==
  /\ "DITTO_BLOCK" \in Requests /\ Call /\ sent < MaxId
  /\ sent' = sent + 1
  /\ goal' = "DITTO_BLOCK" /\ bIO' = Append(bIO, Cmd("DITTO_BLOCK", 0)) /\ flush("answer")
  /\ UNCHANGED <<svc, todo, ecb, tags, ejected, linkVars, readerVars, read, acked, refused, timeouts, throttles>>

\* The relay drops a ditto block whose tags it could not negotiate and goes
\* on with the connection; after any other error it closes the connection.
DittoTagFailed ==
  /\ wPc = "failed" /\ goal = "TAG"
  /\ wPc' = "idle"
  /\ UNCHANGED <<next, svc, goal, todo, writerVars, linkVars, readerVars, histVars>>

-----------------------------------------------------------------------------
\* The steps of a call.

\* WriteDittoBlock() ignores the error of its last flush.
FlushFailed ==
  \/ Fail
  \/ goal = "DITTO_BLOCK" /\ wPc' = "answer" /\ UNCHANGED <<link, ejected, ecb>>

Flush ==
  /\ wPc = "flush"
  /\ \/ /\ bIO # <<>> /\ link /\ ~wErr /\ Len(up) < UpCap
        /\ up' = Append(up, Head(bIO)) /\ bIO' = Tail(bIO)
        /\ UNCHANGED <<wPc, link, ejected, ecb, wErr, timeouts>>
     \/ /\ bIO = <<>> /\ wPc' = next
        /\ UNCHANGED <<up, bIO, link, ejected, ecb, wErr, timeouts>>
     \/ bIO # <<>> /\ (~link \/ wErr) /\ FlushFailed /\ UNCHANGED <<up, bIO, wErr, timeouts>>
     \/ /\ bIO # <<>> /\ link /\ ~wErr /\ Len(up) = UpCap /\ timeouts < MaxTimeout
        /\ timeouts' = timeouts + 1 /\ wErr' = TRUE /\ FlushFailed /\ UNCHANGED <<up, bIO>>
  /\ UNCHANGED <<next, svc, goal, todo, sent, tags, down, cancelled, readerVars, read, acked, refused, calls, throttles>>

\* writeEntry(), with a full confirmation buffer.
WaitForSlot ==
  /\ wPc = "entry" /\ Full
  /\ serviceAcks(TRUE, "send")
  /\ UNCHANGED <<goal, todo, writerVars, linkVars, readerVars, histVars>>

\* encodeAndSendEntry() and ecb.Add().
SendEntry ==
  /\ wPc = "send" \/ (wPc = "entry" /\ ~Full)
  /\ \/ Len(bIO) >= BufCap /\ flush("send") /\ UNCHANGED <<bIO, ecb, sent, todo, refused>>
     \/ /\ Len(bIO) < BufCap
        /\ bIO' = Append(bIO, Cmd("NEW_ENTRY", sent + 1)) /\ sent' = sent + 1
        /\ IF Full
             THEN wPc' = "failed" /\ refused' = refused \cup {sent + 1} /\ UNCHANGED <<ecb, todo>>
             ELSE /\ ecb' = Append(ecb, sent + 1) /\ todo' = todo - 1
                  /\ wPc' = IF todo = 1 THEN "idle" ELSE "entry"
                  /\ UNCHANGED refused
        /\ UNCHANGED next
  /\ UNCHANGED <<svc, goal, tags, ejected, linkVars, readerVars, read, acked, calls, timeouts, throttles>>

\* The end of readAcks() without an error: serviceAcks() forces one more
\* round when there is still no slot.
readAcksDone ==
  IF Full /\ ~svc.last
    THEN /\ svc' = [svc EXCEPT !.orig = TRUE, !.blocking = TRUE, !.got = FALSE, !.last = TRUE]
         /\ throwAckSync("read")
    ELSE wPc' = svc.ret /\ UNCHANGED <<svc, next, bIO>>

ReadAcksEnd ==
  /\ wPc = "read" /\ (ecb = <<>> \/ ~svc.blocking)
  /\ readAcksDone
  /\ UNCHANGED <<goal, todo, ecb, sent, tags, ejected, linkVars, readerVars, histVars>>

\* Mutant of ReadAck: after a keepalive the next decode does not block.
ReadAckPongUnblocks ==
  /\ wPc = "read" /\ ecb # <<>> /\ down # <<>>
  /\ down' = Tail(down)
  /\ IF Head(down).cmd = "CONFIRM_ENTRY" THEN Confirm(Head(down).val) ELSE UNCHANGED <<ecb, acked>>
  /\ svc' = [svc EXCEPT !.blocking = FALSE]
  /\ UNCHANGED <<wPc, link, ejected, next, goal, todo, bIO, sent, tags, up, cancelled, wErr, readerVars,
                 read, refused, calls, timeouts, throttles>>

\* readAcks() decodes a command.
ReadAck ==
  /\ wPc = "read" /\ ecb # <<>> /\ down # <<>>
  /\ down' = Tail(down)
  /\ LET c == Head(down)
     IN \/ /\ c.cmd = "CONFIRM_ENTRY" /\ Confirm(c.val)
           /\ svc' = [svc EXCEPT !.blocking = FALSE, !.got = TRUE]
           /\ UNCHANGED <<wPc, link, ejected>>
        \/ /\ c.cmd \in {"PONG", "THROTTLE"} /\ ~cancelled
           /\ svc' = [svc EXCEPT !.blocking = svc.orig]
           /\ UNCHANGED <<wPc, link, ejected, ecb, acked>>
        \/ /\ c.cmd \in {"PONG", "THROTTLE"} /\ cancelled /\ Fail
           /\ UNCHANGED <<svc, acked>>
        \* throttle() waits for the next byte and finds the connection gone
        \/ /\ c.cmd = "THROTTLE" /\ ~cancelled /\ ~link /\ Len(down) = 1 /\ Fail
           /\ UNCHANGED <<svc, acked>>
        \/ /\ c.cmd \notin {"CONFIRM_ENTRY", "PONG", "THROTTLE"}
           /\ svc' = [svc EXCEPT !.blocking = FALSE]
           /\ UNCHANGED <<wPc, link, ejected, ecb, acked>>
  /\ UNCHANGED <<next, goal, todo, bIO, sent, tags, up, cancelled, wErr, readerVars, read, refused, calls, timeouts, throttles>>

\* A blocking decode finds nothing: the connection is gone, or it times out
\* and serviceAcks() forces an ack once.
ReadNothing ==
  /\ wPc = "read" /\ ecb # <<>> /\ svc.blocking /\ down = <<>>
  /\ \/ ~link /\ Fail /\ UNCHANGED <<svc, next, bIO, timeouts>>
     \/ /\ link /\ timeouts < MaxTimeout /\ timeouts' = timeouts + 1
        /\ \/ svc.got /\ readAcksDone /\ UNCHANGED <<link, ejected, ecb>>
           \/ /\ ~svc.got /\ ~svc.last /\ throwAckSync("read")
              /\ svc' = [svc EXCEPT !.last = TRUE]
              /\ UNCHANGED <<link, ejected, ecb>>
           \/ ~svc.got /\ svc.last /\ Fail /\ UNCHANGED <<svc, next, bIO>>
  /\ UNCHANGED <<goal, todo, sent, tags, up, down, cancelled, wErr, readerVars, read, acked, refused, calls, throttles>>

\* forceAckNoLock(): the loop, and what the call does after it.
Sync ==
  /\ wPc = "sync"
  /\ \/ /\ ecb # <<>> /\ ~cancelled /\ serviceAcks(TRUE, "sync")
        /\ UNCHANGED <<bIO, link, ejected, ecb>>
     \/ cancelled /\ Fail /\ UNCHANGED <<svc, next, bIO>>
     \/ /\ ecb = <<>> /\ ~cancelled /\ goal = "none" /\ wPc' = "idle"
        /\ UNCHANGED <<svc, next, bIO, link, ejected, ecb>>
     \/ ecb = <<>> /\ ~cancelled /\ goal = "CLOSE" /\ Fail /\ UNCHANGED <<svc, next, bIO>>
     \/ /\ ecb = <<>> /\ ~cancelled /\ goal \in {"TAG", "INGESTER_STATE"}
        /\ bIO' = Append(bIO, Cmd(goal, IF goal = "TAG" THEN Len(tags) + 1 ELSE 0))
        /\ flush("answer")
        /\ UNCHANGED <<svc, link, ejected, ecb>>
  /\ UNCHANGED <<goal, todo, sent, tags, up, down, cancelled, wErr, readerVars, histVars>>

AnswerTo(g) ==
  CASE g = "TAG" -> "CONFIRM_TAG"
    [] g = "INGESTER_STATE" -> "CONFIRM_INGESTER_STATE"
    [] g = "DITTO_BLOCK" -> "CONFIRM_DITTO_BLOCK"
    [] OTHER -> "PONG"

\* Mutant of ReadAnswer: the command that follows the acks is taken for the answer.
ReadAnswerAny ==
  /\ wPc = "answer" /\ down # <<>>
  /\ down' = Tail(down)
  /\ LET c == Head(down)
     IN IF c.cmd = "CONFIRM_ENTRY"
          THEN Confirm(c.val) /\ UNCHANGED <<wPc, tags>>
          ELSE /\ wPc' = "idle" /\ tags' = IF goal = "TAG" THEN Append(tags, c.val) ELSE tags
               /\ UNCHANGED <<ecb, acked>>
  /\ UNCHANGED <<link, ejected, next, svc, goal, todo, bIO, sent, up, cancelled, wErr, readerVars, read,
                 refused, calls, timeouts, throttles>>

\* NegotiateTag() and readCommandsUntil() decode a command.
ReadAnswer ==
  /\ wPc = "answer" /\ down # <<>>
  /\ down' = Tail(down)
  /\ LET c == Head(down)
     IN \/ /\ c.cmd = "CONFIRM_ENTRY" /\ UNCHANGED <<tags, timeouts>>
           /\ IF ecb = <<>> THEN Fail /\ UNCHANGED acked
                            ELSE Confirm(c.val) /\ UNCHANGED <<wPc, link, ejected>>
        \/ /\ c.cmd = AnswerTo(goal) /\ (goal = "DITTO_BLOCK" => c.val = 0)
           /\ tags' = IF goal = "TAG" THEN Append(tags, c.val) ELSE tags
           /\ wPc' = "idle" /\ UNCHANGED <<link, ejected, ecb, acked, timeouts>>
        \/ /\ c.cmd = AnswerTo(goal) /\ goal = "DITTO_BLOCK" /\ c.val # 0 /\ Fail
           /\ UNCHANGED <<tags, acked, timeouts>>
        \/ /\ goal = "TAG" /\ c.cmd \notin {"CONFIRM_ENTRY", "CONFIRM_TAG", "PONG"} /\ Fail
           /\ UNCHANGED <<tags, acked, timeouts>>
        \/ /\ goal = "TAG" /\ c.cmd = "PONG" /\ timeouts < MaxTimeout
           /\ timeouts' = timeouts + 1 /\ Fail
           /\ UNCHANGED <<tags, acked>>
        \/ /\ c.cmd \notin {"CONFIRM_ENTRY", AnswerTo(goal)} /\ (goal = "TAG" => c.cmd = "PONG")
           /\ UNCHANGED <<wPc, tags, link, ejected, ecb, acked, timeouts>>
  /\ UNCHANGED <<next, svc, goal, todo, bIO, sent, up, cancelled, wErr, readerVars, read, refused, calls, throttles>>

AnswerNothing ==
  /\ wPc = "answer" /\ down = <<>>
  /\ \/ ~link /\ UNCHANGED timeouts
     \/ link /\ timeouts < MaxTimeout /\ timeouts' = timeouts + 1
  /\ Fail
  /\ UNCHANGED <<next, svc, goal, todo, bIO, sent, tags, up, down, cancelled, wErr, readerVars, read, acked, refused, calls, throttles>>

-----------------------------------------------------------------------------
\* The reader.

\* Mutant of ReadCommand: an entry is acked before its data has been read.
ReadCommandAcksEarly ==
  /\ hand = <<>> /\ up # <<>>
  /\ up' = Tail(up)
  /\ LET c == Head(up)
     IN IF c.cmd = "NEW_ENTRY"
          THEN hand' = <<Cmd("CONFIRM_ENTRY", c.val)>> /\ read' \in {read, read \cup {c.val}}
          ELSE hand' = <<c>> /\ UNCHANGED read
  /\ UNCHANGED <<callVars, writerVars, down, link, cancelled, wErr, ackChan, aPc, abuf, acked, refused, calls, timeouts, throttles>>

\* Read() takes a command off the connection and decides what to send back.
ReadCommand ==
  /\ hand = <<>> /\ up # <<>>
  /\ up' = Tail(up)
  /\ LET c == Head(up)
     IN \/ /\ c.cmd = "NEW_ENTRY" /\ hand' = <<Cmd("CONFIRM_ENTRY", c.val)>>
           /\ read' = read \cup {c.val}
        \/ c.cmd = "FORCE_ACK" /\ hand' = <<c>> /\ UNCHANGED read
        \/ /\ c.cmd = "TAG" /\ UNCHANGED read
           /\ hand' \in {<<Cmd("CONFIRM_TAG", c.val)>>, <<Cmd("ERROR_TAG", 0)>>}
        \/ /\ c.cmd = "INGESTER_STATE" /\ hand' = <<Cmd("CONFIRM_INGESTER_STATE", 0)>>
           /\ UNCHANGED read
        \* the caller of Read() stores the block and then acks or nacks it
        \/ /\ c.cmd = "DITTO_BLOCK" /\ UNCHANGED read
           /\ \E v \in {0, 1} : hand' = <<Cmd("CONFIRM_DITTO_BLOCK", v)>>
        \* there is no case for PING: fillHeader() skips it
        \/ c.cmd = "PING" /\ UNCHANGED <<hand, read>>
  /\ UNCHANGED <<callVars, writerVars, down, link, cancelled, wErr, ackChan, aPc, abuf, acked, refused, calls, timeouts, throttles>>

AckChanRoom == Len(ackChan) < AckCap

\* Mutant of throwAck: an ack that finds the channel full is dropped.
throwAckDrops ==
  /\ hand # <<>> /\ hand' = <<>>
  /\ ackChan' = IF AckChanRoom THEN Append(ackChan, hand[1]) ELSE ackChan
  /\ UNCHANGED <<callVars, writerVars, linkVars, aPc, abuf, histVars>>

\* Mutant of throwAck: a tag that could not be negotiated is not answered.
throwAckNoError ==
  /\ hand # <<>> /\ AckChanRoom /\ hand' = <<>>
  /\ ackChan' = IF hand[1].cmd = "ERROR_TAG" THEN ackChan ELSE Append(ackChan, hand[1])
  /\ UNCHANGED <<callVars, writerVars, linkVars, aPc, abuf, histVars>>

throwAck ==
  /\ hand # <<>> /\ AckChanRoom
  /\ ackChan' = Append(ackChan, hand[1]) /\ hand' = <<>>
  /\ UNCHANGED <<callVars, writerVars, linkVars, aPc, abuf, histVars>>

SendThrottle ==
  /\ throttles < MaxThrottle /\ throttles' = throttles + 1
  /\ AckChanRoom /\ ackChan' = Append(ackChan, Cmd("THROTTLE", 0))
  /\ UNCHANGED <<callVars, writerVars, linkVars, hand, aPc, abuf, read, acked, refused, calls, timeouts>>

\* The commands that encode() asks to flush; FORCE_ACK is encoded as nothing.
flushes(c) == c.cmd # "CONFIRM_ENTRY"
encode(b, c) == IF c.cmd = "FORCE_ACK" THEN b ELSE Append(b, c)

ackVars == <<callVars, writerVars, linkVars, hand, histVars>>

\* ackRoutine: the select, and the first command of fillAndSendAckBuffer().
AckSelect ==
  /\ aPc = "select" /\ ackChan # <<>>
  /\ ackChan' = Tail(ackChan) /\ abuf' = encode(abuf, Head(ackChan))
  /\ aPc' = IF flushes(Head(ackChan)) THEN "send" ELSE "feed"
  /\ UNCHANGED ackVars

\* A keepalive that would follow an unread one is the same command to the
\* writer, so a run of them is one.
AckKeepAlive ==
  /\ aPc = "select" /\ ~(down # <<>> /\ down[Len(down)].cmd = "PONG")
  /\ abuf' = <<Cmd("PONG", 0)>> /\ aPc' = "send"
  /\ UNCHANGED <<ackVars, ackChan>>

\* feedLoop: one more command; the buffer is written out first when the
\* command might not fit.
AckFeed ==
  /\ aPc = "feed" /\ ackChan # <<>>
  /\ LET c == Head(ackChan)
     IN /\ abuf' = encode(abuf, c)
        /\ aPc' = CASE c.cmd # "FORCE_ACK" /\ Len(abuf) + 1 >= AckBuf -> "spill"
                    [] OTHER -> IF flushes(c) \/ Len(ackChan) = 1 THEN "send" ELSE "feed"
  /\ ackChan' = Tail(ackChan)
  /\ UNCHANGED ackVars

AckTimer == aPc = "feed" /\ aPc' = "send" /\ UNCHANGED <<ackVars, ackChan, abuf>>

\* The buffer is written to the connection and flushed.
AckWrite ==
  /\ \/ aPc = "send" /\ abuf # <<>>
     \/ aPc = "spill" /\ Len(abuf) > 1
  /\ \/ /\ link /\ Len(down) < DownCap
        /\ down' = Append(down, Head(abuf)) /\ abuf' = Tail(abuf) /\ UNCHANGED aPc
     \* routineCleanFail()
     \/ ~link /\ aPc' = "failed" /\ abuf' = <<>> /\ UNCHANGED down
  /\ UNCHANGED <<callVars, writerVars, up, link, cancelled, wErr, hand, ackChan, histVars>>

AckWritten ==
  /\ \/ aPc = "send" /\ abuf = <<>> /\ aPc' = "select"
     \/ /\ aPc = "spill" /\ Len(abuf) = 1
        /\ aPc' = IF flushes(abuf[1]) \/ ackChan = <<>> THEN "send" ELSE "feed"
  /\ UNCHANGED <<ackVars, ackChan, abuf>>

\* discard() empties the channel so that Read() does not block on it.
AckDiscard ==
  /\ aPc = "failed" /\ ackChan # <<>>
  /\ ackChan' = Tail(ackChan)
  /\ UNCHANGED <<ackVars, aPc, abuf>>

-----------------------------------------------------------------------------
\* The connection breaks: a suffix of what is in flight is lost each way.
Break ==
  /\ MayBreak /\ link
  /\ link' = FALSE
  /\ \E m \in 0..Len(up), n \in 0..Len(down) :
       up' = SubSeq(up, 1, m) /\ down' = SubSeq(down, 1, n)
  /\ UNCHANGED <<callVars, writerVars, cancelled, wErr, readerVars, histVars>>

\* The muxer cancels its context.
Cancel ==
  /\ MayBreak /\ ~cancelled /\ cancelled' = TRUE
  /\ UNCHANGED <<callVars, writerVars, up, down, link, wErr, readerVars, histVars>>

-----------------------------------------------------------------------------
Calls ==
  \/ Write \/ WriteBatch \/ ForceAck \/ NegotiateTag \/ SendIngesterState \/ Close
  \/ Ping \/ WriteDittoBlock \/ DittoTagFailed

Steps ==
  \/ Flush \/ WaitForSlot \/ SendEntry \/ ReadAcksEnd \/ ReadAck \/ ReadNothing
  \/ Sync \/ ReadAnswer \/ AnswerNothing

Reader == ReadCommand \/ throwAck

AckOther == AckKeepAlive \/ AckFeed \/ AckTimer \/ AckWrite \/ AckWritten \/ AckDiscard

\* The connection has been closed and there is nothing left to do.
Finished == wPc = "closed" /\ UNCHANGED vars

Next ==
  \/ Calls \/ Steps \/ Reader \/ SendThrottle \/ AckSelect \/ AckOther
  \/ Break \/ Cancel \/ Finished

Spec == Init /\ [][Next]_vars

\* The goroutines are scheduled, the reader's caller keeps calling Read(), the
\* keepalive timer runs, and a select that is offered a command over and over
\* takes it at some point.
FairSpec ==
  /\ Spec
  /\ WF_vars(Steps) /\ WF_vars(ReadAcksEnd) /\ WF_vars(Reader) /\ WF_vars(AckOther) /\ SF_vars(AckSelect)

-----------------------------------------------------------------------------
Commands ==
  {"NEW_ENTRY", "FORCE_ACK", "TAG", "INGESTER_STATE", "DITTO_BLOCK", "PING",
   "CONFIRM_ENTRY", "CONFIRM_TAG", "ERROR_TAG", "CONFIRM_INGESTER_STATE",
   "CONFIRM_DITTO_BLOCK", "PONG", "THROTTLE"}
CmdType == [cmd : Commands, val : Nat]

\* Every buffer keeps to its capacity: what the writer has outstanding, what
\* is in flight, and what waits for the ackRoutine.
TypeOK ==
  /\ wPc \in {"idle", "flush", "read", "entry", "send", "sync", "answer", "failed", "closed"}
  /\ next \in {"idle", "read", "send", "sync", "answer"}
  /\ svc \in [orig : BOOLEAN, blocking : BOOLEAN, got : BOOLEAN, last : BOOLEAN,
              ret : {"idle", "entry", "send", "sync"}]
  /\ goal \in {"none", "TAG", "INGESTER_STATE", "DITTO_BLOCK", "PING", "CLOSE"}
  /\ todo \in Nat /\ sent \in 0..MaxId
  /\ bIO \in Seq(CmdType) /\ ecb \in Seq(1..MaxId) /\ Len(ecb) < Capacity
  /\ tags \in Seq(Nat) /\ ejected \in Seq(1..MaxId)
  /\ up \in Seq(CmdType) /\ Len(up) <= UpCap /\ down \in Seq(CmdType) /\ Len(down) <= DownCap
  /\ link \in BOOLEAN /\ cancelled \in BOOLEAN /\ wErr \in BOOLEAN
  /\ hand \in Seq(CmdType) /\ Len(hand) <= 1
  /\ ackChan \in Seq(CmdType) /\ Len(ackChan) <= AckCap
  /\ aPc \in {"select", "feed", "spill", "send", "failed"} /\ abuf \in Seq(CmdType)
  /\ read \subseteq 1..MaxId /\ acked \subseteq 1..MaxId /\ refused \subseteq 1..MaxId
  /\ calls \in 0..MaxCalls /\ timeouts \in 0..MaxTimeout /\ throttles \in 0..MaxThrottle

\* An entry that leaves the confirmation buffer because of an ack has been
\* read by the indexer, however the acks were batched, and also when the
\* connection broke with acks in flight: what ejectAll() returns then covers
\* everything the indexer may not have.
AckedIsRead == acked \subseteq read

\* The ack that the writer decodes next is always the one for the head of the
\* confirmation buffer, or for an entry that Add() refused: Confirm() never
\* meets the ID of another unconfirmed entry, an ID it has confirmed before,
\* or an empty buffer.
AcksInOrder ==
  wPc # "closed" /\ down # <<>> /\ Head(down).cmd = "CONFIRM_ENTRY"
    => \/ ecb # <<>> /\ Head(down).val = Head(ecb)
       \/ Head(down).val \in refused

\* Once writeEntry() has serviced acks the confirmation buffer has a slot: the
\* entry it sends is never refused by Add(), which would leave it on the wire
\* and unknown to the buffer.
AddHasRoom == wPc = "send" => ~Full

\* The tag that NegotiateTag() returns for a name is the indexer's tag for
\* that name.
TagsRight == \A n \in DOMAIN tags : tags[n] = n

\* No call of the writer hangs while the connection is up and the indexer
\* reads: the writer waiting for room on the connection, Read() waiting for
\* room in ackChan and the ackRoutine waiting for the writer to read acks never
\* wait for each other, and a lone ack is not held back forever.
CallsReturn == []<>(wPc \in {"idle", "failed", "closed"})
=============================================================================
