---------------------------- MODULE FileFollower ----------------------------
(***************************************************************************)
(* One file and the follower that reads it (followers.go, with the line    *)
(* engine of liner.go): the bytes that are read but make no line yet, the  *)
(* offset *state that the next reader starts at, the state file it is      *)
(* saved to (filters.go), and a writer that appends and truncates at any   *)
(* moment.  A byte is a newline or not, and is known by the generation of  *)
(* the file (the number of truncations before it) and its position.        *)
(* Carriage returns are left out.                                          *)
(***************************************************************************)
EXTENDS Integers, Sequences, FiniteSets

CONSTANTS
  MaxBytes,    \* bound on the length of the file
  MaxAgain,    \* bound on its length after a truncation
  MaxTruncs,   \* bound on the number of truncations
  MaxFaults    \* bound on the number of deaths of the process and errors of HandleLog

ASSUME FollowerAssumption ==
  {MaxBytes, MaxAgain, MaxTruncs, MaxFaults} \subseteq Nat /\ MaxAgain <= MaxBytes

VARIABLES
  file,      \* its bytes; TRUE is a newline
  gen,       \* number of truncations
  event,     \* fsn.Events holds a Write; those that are pending are one
  pc,        \* where the follower is
  mode,      \* the arguments processLines was called with, or "sync"
  size,      \* the length of the file when Sync, or the last processLines, began
  force,     \* ReadRemaining gave the line in hand
  ln,        \* the line that is handed to HandleLog
  foff,      \* the offset of the open file
  buf,       \* bytes bufio.Reader holds
  idx,       \* LineReader.idx
  currLine,  \* LineReader.currLine
  state,     \* *f.state, kept by the FilterManager
  saved,     \* the offset in the state file; 0 when it has none
  handled,   \* history: bytes given to HandleLog since the last truncation
  again,     \* history: bytes given to it more than once before any crash
  cuts,      \* history: bytes after which ReadRemaining ended a line
  rgen,      \* history: the generation whose start the reader counts from
  stateGen,  \* history: the same for *state
  savedGen,  \* history: the same for the state file
  crashes, fails

fileVars == <<file, gen>>
readerVars == <<foff, buf, idx, currLine, rgen>>
stateVars == <<state, stateGen>>
savedVars == <<saved, savedGen>>
callVars == <<pc, mode, size, force, ln>>
histVars == <<handled, again, cuts>>
vars == <<fileVars, event, callVars, readerVars, stateVars, savedVars, histVars, crashes, fails>>

\* The bytes of the file.
Bytes == [p \in 1..Len(file) |-> [gen |-> gen, pos |-> p, nl |-> file[p]]]

First(S) == CHOOSE i \in S : \A j \in S : i <= j
Last(S) == CHOOSE i \in S : \A j \in S : j <= i

\* b without the empty lines before its text (they are skipped) and the
\* newlines after it (TrimRight).
Text(b) ==
  LET T == {i \in 1..Len(b) : ~b[i].nl} IN
  IF T = {} THEN <<>> ELSE SubSeq(b, First(T), Last(T))

Ids(b) == {<<b[i].gen, b[i].pos>> : i \in 1..Len(b)}

-----------------------------------------------------------------------------
(* ReadEntry.  data is what the calls of ReadBytes can give it: bytes of   *)
(* the buffer, then of the file.  It ends with the first newline that ends *)
(* a line with text in it, or at the end of the file.                      *)

Data == buf \o SubSeq(Bytes, foff + 1, Len(file))

\* Mutant of Ends: a newline alone does not end the line that was begun.
EndsOfNewText(data) == {k \in 1..Len(data) : data[k].nl /\ \E j \in 1..k : ~data[j].nl}

Ends(data) == {k \in 1..Len(data) :
                 data[k].nl /\ (currLine # <<>> \/ \E j \in 1..k : ~data[j].nl)}

FirstEnd(data) == First(Ends(data))

\* Mutant of ReadLine: the part of the line that was read before is dropped.
ReadLineAlone(data) ==
  LET k == FirstEnd(data) IN
  /\ ln' = Text(SubSeq(data, 1, k)) /\ ln' # <<>>
  /\ currLine' = <<>>
  /\ idx' = idx + k
  /\ buf' = SubSeq(data, k + 1, Len(data))
  /\ foff' = foff + Len(data) - Len(buf)
  /\ rgen' = IF foff = 0 THEN gen ELSE rgen

\* Mutant of ReadLine: what bufio.Reader holds behind the line is dropped.
ReadLineDropsBuffer(data) ==
  LET k == FirstEnd(data) IN
  /\ ln' = currLine \o Text(SubSeq(data, 1, k))
  /\ currLine' = <<>> /\ idx' = idx + k /\ buf' = <<>>
  /\ foff' = foff + Len(data) - Len(buf)
  /\ rgen' = IF foff = 0 THEN gen ELSE rgen

\* The buffer is filled from the file only when it has no end of a line.
ReadLine(data) ==
  LET k == FirstEnd(data) IN
  /\ ln' = currLine \o Text(SubSeq(data, 1, k))
  /\ currLine' = <<>>
  /\ idx' = idx + k
  /\ buf' = SubSeq(IF k <= Len(buf) THEN buf ELSE data, k + 1, IF k <= Len(buf) THEN Len(buf) ELSE Len(data))
  /\ foff' = IF k <= Len(buf) THEN foff ELSE Len(file)
  /\ rgen' = IF foff = 0 THEN gen ELSE rgen

\* All of data is read, and is no whole line.
ReadPart(data) ==
  /\ idx' = idx + Len(data)
  /\ buf' = <<>>
  /\ foff' = foff + Len(data) - Len(buf)
  /\ rgen' = IF foff = 0 THEN gen ELSE rgen

-----------------------------------------------------------------------------
Init ==
  /\ file = <<>> /\ gen = 0 /\ event = FALSE
  /\ pc = "closed" /\ mode = "init" /\ size = 0 /\ force = FALSE /\ ln = <<>>
  /\ foff = 0 /\ buf = <<>> /\ idx = 0 /\ currLine = <<>> /\ rgen = 0
  /\ state = 0 /\ stateGen = 0 /\ saved = 0 /\ savedGen = 0
  /\ handled = {} /\ again = {} /\ cuts = {} /\ crashes = 0 /\ fails = 0

\* The inotify watch is there from Start on, until the follower is closed.
Watching == pc \notin {"down", "closed", "opened", "dead"} /\ mode # "sync"

Write ==
  /\ Len(file) < (IF gen = 0 THEN MaxBytes ELSE MaxAgain)
  /\ \E b \in BOOLEAN : file' = Append(file, b)
  /\ event' = Watching
  /\ UNCHANGED <<gen, callVars, readerVars, stateVars, savedVars, histVars, crashes, fails>>

Truncate ==
  /\ gen < MaxTruncs /\ file # <<>>
  /\ file' = <<>> /\ gen' = gen + 1
  /\ event' = Watching
  /\ handled' = {} /\ cuts' = {}
  /\ UNCHANGED <<callVars, readerVars, stateVars, savedVars, again, crashes, fails>>

\* The follower is gone, and its reader with it.
Shut(next) ==
  /\ pc' = next /\ mode' = "init" /\ size' = 0 /\ force' = FALSE /\ ln' = <<>> /\ event' = FALSE
  /\ foff' = 0 /\ buf' = <<>> /\ idx' = 0 /\ currLine' = <<>> /\ rgen' = 0

\* NewFollower, for a follower that is started or, before any is, for Sync.
NewFollower ==
  /\ pc = "closed"
  /\ pc' = "opened" /\ mode' \in {"init", "sync"}
  /\ foff' = state /\ idx' = state /\ rgen' = stateGen
  /\ UNCHANGED <<fileVars, event, size, force, ln, buf, currLine, stateVars, savedVars, histVars,
                 crashes, fails>>

\* Call processLines (or go into the loop of Sync).
Enter(m) ==
  /\ pc' = "read" /\ mode' = m /\ size' = IF m \in {"sync", "remove"} THEN Len(file) ELSE 0
  /\ UNCHANGED <<fileVars, force, ln, readerVars, stateVars, savedVars, histVars, crashes, fails>>

Start == pc = "opened" /\ Enter(mode) /\ UNCHANGED event

WriteEvent == pc = "select" /\ event /\ Enter("write") /\ event' = FALSE

Tick == pc = "select" /\ Enter("tick") /\ UNCHANGED event

\* A Remove event, or abortCh: f.Close() by the FilterManager.
Abort == pc = "select" /\ Enter("remove") /\ UNCHANGED event

ReadEntry ==
  /\ pc = "read" /\ Ends(Data) # {}
  /\ ReadLine(Data) /\ pc' = "handle"
  /\ UNCHANGED <<fileVars, event, mode, size, force, stateVars, savedVars, histVars, crashes, fails>>

\* Mutant of ReadEntryEOF: removing does not force the last part out.
ReadEntryEOFKeepsPart ==
  /\ pc = "read" /\ Ends(Data) = {}
  /\ IF mode \in {"remove", "sync"}
     THEN Shut("closed")
     ELSE /\ ReadPart(Data) /\ currLine' = currLine \o Text(Data)
          /\ pc' = "select" /\ UNCHANGED <<event, mode, size, force, ln>>
  /\ UNCHANGED <<fileVars, stateVars, savedVars, histVars, crashes, fails>>

\* The end of the file.  After a write event its size is looked at; data
\* that is no line is taken when the follower is being closed, or has been
\* idle for long enough (Sync: the file has).
ReadEntryEOF ==
  /\ pc = "read" /\ Ends(Data) = {}
  /\ \/ /\ ReadPart(Data) /\ currLine' = currLine \o Text(Data)
        /\ \/ mode = "write" /\ pc' = "size"
           \/ mode \in {"init", "tick"} /\ pc' = "select"
           \/ mode \in {"remove", "tick", "sync"} /\ pc' = "remain"
        /\ UNCHANGED <<event, mode, size, force, ln>>
     \/ mode = "sync" /\ Shut("closed")
  /\ UNCHANGED <<fileVars, stateVars, savedVars, histVars, crashes, fails>>

\* SeekFile(0): the offset and idx; currLine stays.
SeekFile ==
  /\ foff' = 0 /\ idx' = 0
  /\ UNCHANGED <<buf, currLine, rgen>>

\* A file that is shorter than *state was truncated.
FileSize ==
  /\ pc = "size" /\ pc' = "select"
  /\ IF Len(file) < state
     THEN state' = 0 /\ stateGen' = 0 /\ SeekFile
     ELSE UNCHANGED <<stateVars, readerVars>>
  /\ UNCHANGED <<fileVars, event, mode, size, force, ln, savedVars, histVars, crashes, fails>>

\* Where the follower goes when processLines or Sync has forced a line out.
Return ==
  IF mode \in {"remove", "sync"}
  THEN Shut("closed")
  ELSE /\ pc' = "select" /\ force' = FALSE /\ ln' = <<>>
       /\ UNCHANGED <<event, mode, size, readerVars>>

ReadRemaining ==
  /\ pc = "remain"
  /\ IF Ends(Data) # {}
     THEN ReadLine(Data) /\ pc' = "handle" /\ force' = TRUE /\ UNCHANGED <<event, mode, size>>
     ELSE IF currLine \o Text(Data) # <<>>
     THEN /\ ReadPart(Data) /\ ln' = currLine \o Text(Data) /\ currLine' = <<>>
          /\ pc' = "handle" /\ force' = TRUE /\ UNCHANGED <<event, mode, size>>
     ELSE IF mode = "tick"
     THEN /\ ReadPart(Data) /\ pc' = "select" /\ UNCHANGED <<event, mode, size, force, ln, currLine>>
     ELSE Shut("closed")
  /\ UNCHANGED <<fileVars, stateVars, savedVars, histVars, crashes, fails>>

HandleLog ==
  /\ pc = "handle" /\ pc' = "store"
  /\ handled' = handled \cup Ids(ln)
  /\ again' = IF crashes = 0 THEN again \cup (handled \cap Ids(ln)) ELSE {}
  /\ cuts' = IF force THEN cuts \cup {<<ln[Len(ln)].gen, ln[Len(ln)].pos>>} ELSE cuts
  /\ UNCHANGED <<fileVars, event, mode, size, force, ln, readerVars, stateVars, savedVars, crashes, fails>>

\* HandleLog returns an error: the routine ends, the follower stays in the map.
HandleLogFails ==
  /\ pc = "handle" /\ crashes + fails < MaxFaults
  /\ fails' = fails + 1
  /\ Shut(IF mode \in {"remove", "sync"} THEN "closed" ELSE "dead")
  /\ UNCHANGED <<fileVars, stateVars, savedVars, histVars, crashes>>

\* Mutant of StoreState: not after a line that was forced out.
StoreStateOfLines ==
  /\ pc = "store"
  /\ state' = (IF force THEN state ELSE idx) /\ stateGen' = (IF force THEN stateGen ELSE rgen)
  /\ \/ force /\ Return
     \/ ~force /\ pc' = "read" /\ ln' = <<>> /\ UNCHANGED <<event, mode, size, force, readerVars>>
  /\ UNCHANGED <<fileVars, savedVars, histVars, crashes, fails>>

\* fsn.Errors: the routine ends.
WatchError ==
  /\ pc = "select" /\ crashes + fails < MaxFaults
  /\ fails' = fails + 1 /\ Shut("dead")
  /\ UNCHANGED <<fileVars, stateVars, savedVars, histVars, crashes>>

\* *f.state = f.lnr.Index().  Sync stops at the size it saw first, or when
\* the process is told to quit.
StoreState ==
  /\ pc = "store"
  /\ state' = idx /\ stateGen' = rgen
  /\ \/ force /\ Return
     \/ /\ ~force /\ (mode = "sync" => idx < size)
        /\ pc' = "read" /\ ln' = <<>> /\ UNCHANGED <<event, mode, size, force, readerVars>>
     \/ ~force /\ mode = "sync" /\ Shut("closed")
  /\ UNCHANGED <<fileVars, savedVars, histVars, crashes, fails>>

\* The FilterManager drops a follower whose routine has ended.
CloseDead ==
  /\ pc = "dead" /\ pc' = "closed"
  /\ UNCHANGED <<fileVars, event, mode, size, force, ln, readerVars, stateVars, savedVars, histVars,
                 crashes, fails>>

-----------------------------------------------------------------------------
(* The state file.                                                         *)

\* Mutant of DumpStates: the reader's index is saved.
DumpIndexes ==
  /\ pc # "down" /\ mode # "sync"
  /\ saved' = idx /\ savedGen' = rgen
  /\ UNCHANGED <<fileVars, event, callVars, readerVars, stateVars, histVars, crashes, fails>>

\* FlushStates.
DumpStates ==
  /\ pc # "down" /\ mode # "sync"
  /\ saved' = state /\ savedGen' = stateGen
  /\ UNCHANGED <<fileVars, event, callVars, readerVars, stateVars, histVars, crashes, fails>>

\* FilterManager.Close dumps the states when all followers are closed.
Exit ==
  /\ pc = "closed"
  /\ pc' = "down" /\ saved' = state /\ savedGen' = stateGen
  /\ state' = 0 /\ stateGen' = 0
  /\ UNCHANGED <<fileVars, event, mode, size, force, ln, readerVars, histVars, crashes, fails>>

\* A death between Truncate and Encode of nolockDumpStates leaves an empty
\* state file, and one inside Encode a file that is put aside.
Crash ==
  /\ pc # "down" /\ crashes + fails < MaxFaults
  /\ crashes' = crashes + 1
  /\ Shut("down") /\ state' = 0 /\ stateGen' = 0
  /\ \/ UNCHANGED savedVars
     \/ mode # "sync" /\ saved' = 0 /\ savedGen' = 0
  /\ UNCHANGED <<fileVars, histVars, fails>>

\* initStateFile and cleanStates: a file that shrank starts at 0 again.
NewFilterManager ==
  /\ pc = "down" /\ pc' = "closed"
  /\ state' = IF Len(file) < saved THEN 0 ELSE saved
  /\ stateGen' = IF state' = 0 THEN 0 ELSE savedGen
  /\ UNCHANGED <<fileVars, event, mode, size, force, ln, readerVars, savedVars, histVars, crashes, fails>>

-----------------------------------------------------------------------------
Steps ==
  \/ Start \/ WriteEvent \/ Tick \/ ReadEntry \/ ReadEntryEOF \/ FileSize
  \/ ReadRemaining \/ HandleLog \/ StoreState

Next ==
  \/ Steps \/ NewFollower \/ Abort \/ HandleLogFails \/ WatchError \/ CloseDead
  \/ DumpStates \/ Exit \/ Crash \/ NewFilterManager
  \/ Write \/ Truncate

Spec == Init /\ [][Next]_vars

\* A follower that runs goes on; its ticker fires every five seconds.
FairSpec == Spec /\ WF_vars(Steps)

-----------------------------------------------------------------------------
Byte == [gen : 0..MaxTruncs, pos : 1..MaxBytes, nl : BOOLEAN]
Id == (0..MaxTruncs) \X (1..MaxBytes)

\* The types of the file, the reader, the offsets and the histories.
TypeOK ==
  /\ Len(file) <= MaxBytes /\ gen \in 0..MaxTruncs /\ event \in BOOLEAN
  /\ pc \in {"down", "closed", "opened", "select", "read", "handle", "store", "size", "remain", "dead"}
  /\ mode \in {"init", "write", "tick", "remove", "sync"} /\ force \in BOOLEAN
  /\ \A s \in {ln, buf, currLine} : \A i \in 1..Len(s) : s[i] \in Byte
  /\ {foff, idx, state, saved, size} \subseteq 0..MaxBytes
  /\ {rgen, stateGen, savedGen} \subseteq 0..MaxTruncs
  /\ handled \subseteq Id /\ again \subseteq Id /\ cuts \subseteq handled

\* Every text byte of the file before o has been handed to HandleLog, or is in b.
Accounted(o, b) ==
  \A p \in 1..o : p <= Len(file) /\ ~file[p] => <<gen, p>> \in handled \cup Ids(b)

\* The reader skips nothing: what it has counted in idx was handled, is in
\* hand or is kept in currLine, so long as the file it opened is not cut
\* behind its back.
NothingSkipped == rgen = gen => Accounted(idx, currLine \o ln)

\* The offset in memory and the one in the state file never pass what was
\* handled: whatever follower starts there, after whatever crash, the lines
\* before it are not lost.
OffsetsSafe ==
  /\ stateGen = gen => Accounted(state, <<>>)
  /\ savedGen = gen => Accounted(saved, <<>>)

\* Without a crash no byte is handled twice: not when a partial line is
\* forced out, when HandleLog fails, or when the follower is closed, saved
\* and opened again.
OnceWithoutCrash == crashes = 0 => again = {}

\* What HandleLog gets is a line: it begins after a newline or after a part
\* that ReadRemaining forced out, its bytes are neighbours in the file, and
\* a newline follows it unless ReadRemaining gave it.
HandsOutLines ==
  LET p == ln[1].pos  q == ln[Len(ln)].pos IN
  (pc = "handle" /\ rgen = gen /\ \A i \in 1..Len(ln) : ln[i].gen = gen) =>
     /\ p = 1 \/ file[p - 1] \/ <<gen, p - 1>> \in cuts
     /\ \A i \in 1..Len(ln) : ln[i].pos = p + i - 1
     /\ ~force => q < Len(file) /\ file[q + 1]

\* "if the file was removed, we read what we can and bail": when a follower
\* has been closed, all that was in the file when this began was handled,
\* the part after the last newline included (if the file was only appended to).
FinalReadComplete ==
  [][(mode = "remove" /\ pc' = "closed" /\ fails' = fails /\ gen = 0) =>
       Accounted(size, <<>>)]_vars

\* The text bytes of whole lines that are not handled yet.
Backlog == {p \in 1..Len(file) : /\ ~file[p] /\ <<gen, p>> \notin handled
                                 /\ \E q \in p..Len(file) : file[q]}

\* A follower catches up with the whole lines of its file, also with those
\* no event told it of (the writer pauses at MaxBytes), unless it is closed,
\* the handler fails or the file is truncated.
CatchesUp ==
  (gen = 0 /\ pc = "select" /\ Backlog # {})
    ~> (gen # 0 \/ Backlog = {} \/ pc \in {"closed", "dead", "down"})
=============================================================================
