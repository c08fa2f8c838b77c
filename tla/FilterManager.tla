---------------------------- MODULE FilterManager ----------------------------
(***************************************************************************)
(* The WatchManager and FilterManager of package filewatch over one        *)
(* directory with one filter: files are created, written, renamed and      *)
(* removed at any moment, inotify queues what happened, and the routine    *)
(* works the queue off, following each file whose name matches and keeping *)
(* the offsets of the files in a state file.  A follower is that of module *)
(* FileFollower, seen from outside: it reads the lines its file has.       *)
(* What a handler does under the mutexes is one step, except for the loop  *)
(* of expungeOldFiles.                                                     *)
(***************************************************************************)
EXTENDS Integers, Sequences, FiniteSets, FiniteSetsExt

CONSTANTS
  Paths,            \* names in the directory, numbers from 1
  Matching,         \* those that match the filter
  Inodes,           \* identities of files
  MaxFilesWatched,
  MaxLines,         \* bound on the lines of a file
  MaxOps,           \* bound on the number of operations on the directory
  MaxCrashes        \* bound on the number of deaths of the process

ASSUME FilterAssumption ==
  /\ Paths = 1..Cardinality(Paths) /\ Matching \subseteq Paths /\ 0 \notin Inodes
  /\ MaxFilesWatched \in Nat \ {0} /\ {MaxLines, MaxOps, MaxCrashes} \subseteq Nat

VARIABLES
  dir,      \* the directory: the file a name stands for, or 0
  lines,    \* the number of lines of each file
  born,     \* the files there have been
  used,     \* history: the names that have been in use
  moved,    \* history: files that were renamed, got a name that was in use, or
            \* were created during start-up
  events,   \* the queue of the directory's watcher
  fm,       \* the FilterManager and its followers
  mgr,      \* where the WatchManager is
  saved,    \* the state file: an offset for each name, or -1
  crashes, ops

dirVars == <<dir, lines, born, used, moved, ops>>
fsVars == <<dirVars, events>>
vars == <<fsVars, fm, mgr, saved, crashes>>

\* Followers and states are numbered; a number nothing refers to is free
\* again, so that these suffice.
Slots == 1..(Cardinality(Paths) + 1)

Watched(m) == {p \in Paths : m.followers[p] # 0}

Running(m) == {o \in Slots : m.flw[o].id # 0}

Least(S) == CHOOSE x \in S : \A y \in S : x <= y

NoFlw == [id |-> 0, path |-> 0, ptr |-> 0]

FreeFlw(m) == Least(Slots \ Running(m))

FreePtr(m) == Least(Slots \ ({m.states[p] : p \in Paths} \cup {m.flw[o].ptr : o \in Running(m)}))

NoManager(h, a) ==
  [followers |-> [p \in Paths |-> 0],      \* followers, by name
   states    |-> [p \in Paths |-> 0],      \* states, by name: pointers
   val       |-> [x \in Slots |-> 0],      \* what they point to
   flw       |-> [o \in Slots |-> NoFlw],  \* the followers: FileId, FilePath, state
   order     |-> <<>>,                     \* the followers by lastAct, the most idle first
   handled   |-> h,                        \* history: lines given to HandleLog
   again     |-> a]                        \* history: lines given to it more than once

-----------------------------------------------------------------------------
(* A follower.                                                             *)

\* The lines of file i behind the offset v.
Unread(i, v) == {<<i, l>> : l \in (v + 1)..lines[i]}

Handle(m, new) == [m EXCEPT !.handled = @ \cup new, !.again = @ \cup (new \cap m.handled)]

\* The follower o has read all its file has; an offset behind the end of the
\* file is reset.
ReadAll(m, o) ==
  LET w == m.flw[o]
      new == Unread(w.id, m.val[w.ptr]) IN
  [Handle(m, new) EXCEPT !.val[w.ptr] = IF @ > lines[w.id] THEN 0 ELSE lines[w.id],
                         !.order = IF new # {} THEN Append(SelectSeq(@, LAMBDA x : x # o), o) ELSE @]

\* follower.Close: it reads what is left and ends.
Close(m, o) ==
  LET r == ReadAll(m, o) IN
  [r EXCEPT !.flw[o] = NoFlw, !.order = SelectSeq(@, LAMBDA x : x # o)]

-----------------------------------------------------------------------------
(* The FilterManager: what its methods make of it.                         *)

\* Mutants.
RemoveKeepsEntry(m, p, purge) ==
  IF m.followers[p] = 0
  THEN m
  ELSE Close([m EXCEPT !.states[p] = IF purge THEN 0 ELSE @], m.followers[p])

RemoveLeavesRunning(m, p, purge) ==
  [m EXCEPT !.followers[p] = 0, !.states[p] = IF purge THEN 0 ELSE @]

nolockRemoveFollower(m, p, purge) ==
  IF m.followers[p] = 0
  THEN m
  ELSE Close([m EXCEPT !.followers[p] = 0, !.states[p] = IF purge THEN 0 ELSE @], m.followers[p])

\* The names of the followers of file i.
NamesOf(m, i) == {k \in Watched(m) : m.flw[m.followers[k]].id = i}

\* checkRename, when the new name p matches the filter: every follower of
\* the file gets it, and k is the one the loop over the map comes to last.
MoveTo(m, p, K, k) ==
  LET o == m.followers[k]
      os == {m.followers[x] : x \in K} IN
  [m EXCEPT !.followers = [x \in Paths |-> IF x = p THEN o ELSE IF x \in K THEN 0 ELSE @[x]],
            !.states = [x \in Paths |-> IF x = p THEN m.flw[o].ptr ELSE IF x \in K THEN 0 ELSE @[x]],
            !.flw = [y \in Slots |-> IF y \in os THEN [@[y] EXCEPT !.path = p] ELSE @[y]]]

\* checkRename, when it does not: the followers are closed, their states deleted.
MoveAway(m, K) ==
  FoldSet(LAMBDA k, acc : nolockRemoveFollower(acc, k, TRUE), m, K)

\* The loop of launchFollowers over the followers: this file is tracked already.
Tracked(m, p) ==
  \E k \in Watched(m) : m.flw[m.followers[k]].id = dir[p] /\ m.flw[m.followers[k]].path = p

addSeekInfo(m, p) ==
  LET x == FreePtr(m) IN [m EXCEPT !.states[p] = x, !.val[x] = 0]

\* At start-up the list goes on; in the routine there is none.
NextOfList == IF mgr.todo = <<>> THEN <<>> ELSE Tail(mgr.todo)

\* launchFollowers, up to the call of addFollower for the filter.
launchFollowers(p, deleteState) ==
  LET K == NamesOf(fm, dir[p])
      done == [mgr EXCEPT !.todo = NextOfList] IN
  IF p \in Matching /\ K \ {p} # {}
  THEN (\E k \in K \ {p} : fm' = MoveTo(fm, p, K \ {p}, k)) /\ mgr' = done
  ELSE IF p \notin Matching
  THEN fm' = MoveAway(fm, K) /\ mgr' = done
  ELSE IF Tracked(fm, p)
  THEN fm' = fm /\ mgr' = done
  ELSE /\ fm' = IF deleteState \/ fm.states[p] = 0 THEN addSeekInfo(fm, p) ELSE fm
       /\ mgr' = [mgr EXCEPT !.pc = "add", !.path = p, !.ptr = fm'.states[p]]

-----------------------------------------------------------------------------
(* The end of the process.                                                 *)

\* Mutant: the sizes of the files are dumped.
DumpSizes(m) == [p \in Paths |-> IF m.states[p] = 0 THEN -1 ELSE IF dir[p] = 0 THEN 0 ELSE lines[dir[p]]]

\* nolockDumpStates.
Dump(m) == [p \in Paths |-> IF m.states[p] = 0 THEN -1 ELSE m.val[m.states[p]]]

\* The process is gone, and its followers and watches with it.
Down(m) ==
  /\ fm' = NoManager(m.handled, m.again) /\ events' = <<>>
  /\ mgr' = [pc |-> "down", todo |-> <<>>, path |-> 0, ptr |-> 0]

\* WatchManager.Close: the followers are closed, and the states dumped.
CloseManager ==
  LET m == FoldSet(LAMBDA k, acc : nolockRemoveFollower(acc, k, FALSE), fm, Watched(fm)) IN
  saved' = Dump(m) /\ Down(m)

-----------------------------------------------------------------------------
(* addFollower.                                                            *)

Full == Cardinality(Watched(fm)) >= MaxFilesWatched

\* Mutant: the states of expunged files are deleted.
ExpungePurges ==
  /\ mgr.pc = "add" /\ Full
  /\ LET inMap == {fm.followers[p] : p \in Watched(fm)}
         oldest == SelectSeq(fm.order, LAMBDA o : o \in inMap)[1] IN
     fm' = nolockRemoveFollower(fm, fm.flw[oldest].path, TRUE)
  /\ UNCHANGED <<fsVars, mgr, saved, crashes>>

\* One turn of the loop of expungeOldFiles.  The follower is looked up
\* under its FilePath.
expungeOldFiles ==
  /\ mgr.pc = "add" /\ Full
  /\ LET inMap == {fm.followers[p] : p \in Watched(fm)}
         oldest == SelectSeq(fm.order, LAMBDA o : o \in inMap)[1] IN
     fm' = nolockRemoveFollower(fm, fm.flw[oldest].path, FALSE)
  /\ UNCHANGED <<fsVars, mgr, saved, crashes>>

\* The follower of a file that was replaced is closed, and its state deleted.
DropReplaced(m, p) ==
  IF m.followers[p] # 0 THEN nolockRemoveFollower(m, p, TRUE) ELSE m

StartFollower(m, p, ptr) ==
  LET o == FreeFlw(m) IN
  [m EXCEPT !.flw[o] = [id |-> dir[p], path |-> p, ptr |-> ptr],
            !.followers[p] = o, !.order = Append(@, o)]

\* A file that is gone fails the call, and with it Start.
addFollower ==
  LET p == mgr.path  IN
  /\ mgr.pc = "add" /\ ~Full
  /\ IF dir[p] = 0 /\ mgr.todo # <<>>
     THEN CloseManager
     ELSE /\ fm' = IF dir[p] = 0 \/ p \in NamesOf(fm, dir[p])
                   THEN fm
                   ELSE StartFollower(DropReplaced(fm, p), p, mgr.ptr)
          /\ mgr' = [pc |-> "idle", todo |-> NextOfList, path |-> 0, ptr |-> 0]
          /\ UNCHANGED <<events, saved>>
  /\ UNCHANGED <<dirVars, crashes>>

-----------------------------------------------------------------------------
(* The WatchManager's routine.                                             *)

Routine == mgr.pc = "idle" /\ mgr.todo = <<>>

Take(op) ==
  /\ Routine /\ events # <<>> /\ Head(events).op = op
  /\ events' = Tail(events)
  /\ UNCHANGED <<dirVars, saved, crashes>>

Ignore == UNCHANGED <<fm, mgr>>

\* A file that is gone again is not followed.
CreateEvent ==
  /\ Take("create")
  /\ LET p == Head(events).path IN IF dir[p] = 0 THEN Ignore ELSE launchFollowers(p, TRUE)

RemoveEvent ==
  /\ Take("remove")
  /\ fm' = nolockRemoveFollower(fm, Head(events).path, TRUE)
  /\ UNCHANGED mgr

\* Mutant: only a created file is loaded.
WriteEventNoLoad == Take("write") /\ Ignore

WriteEvent ==
  /\ Take("write")
  /\ LET p == Head(events).path IN
     IF fm.followers[p] # 0 \/ dir[p] = 0 THEN Ignore ELSE launchFollowers(p, FALSE)

\* The name of the follower that is found under p becomes q in the maps;
\* its FilePath becomes p, the name it had.
RenameTo(m, p, q) ==
  LET o == m.followers[p] IN
  [m EXCEPT !.followers[p] = 0, !.followers[q] = o,
            !.states[p] = 0, !.states[q] = m.states[p],
            !.flw[o].path = p]

\* RenameFollower: i is the file of the last follower in the order of the
\* map whose FilePath is p.
RenameFollower(p, i) ==
  LET found == {q \in Matching : dir[q] = i} IN
  fm' = IF fm.followers[p] = 0 THEN fm
        ELSE IF found = {} THEN nolockRemoveFollower(fm, p, TRUE)
        ELSE IF p \in found THEN fm
        ELSE IF fm.states[p] = 0 THEN Close([fm EXCEPT !.followers[p] = 0], fm.followers[p])
        ELSE RenameTo(fm, p, Least(found))

RenameEvent ==
  /\ Take("rename")
  /\ LET p == Head(events).path
         hits == {k \in Watched(fm) : fm.flw[fm.followers[k]].path = p} IN
     IF hits = {} THEN fm' = fm
     ELSE \E k \in hits : RenameFollower(p, fm.flw[fm.followers[k]].id)
  /\ UNCHANGED mgr

\* The ticker of the routine.
FlushStates ==
  /\ Routine
  /\ saved' = Dump(fm)
  /\ UNCHANGED <<fsVars, fm, mgr, crashes>>

Crash ==
  /\ mgr.pc # "down" /\ crashes < MaxCrashes
  /\ crashes' = crashes + 1
  /\ Down(fm)
  /\ UNCHANGED <<dirVars, saved>>

\* The process is told to quit.
Quit ==
  /\ mgr.pc = "catchup" \/ Routine
  /\ CloseManager
  /\ UNCHANGED <<dirVars, crashes>>

-----------------------------------------------------------------------------
(* Start-up.                                                               *)

\* getWatchedFileList: the files and their sizes.
List == SelectSeq([p \in Paths |-> [pth |-> p, size |-> IF dir[p] = 0 THEN 0 ELSE lines[dir[p]]]],
                  LAMBDA wf : dir[wf.pth] # 0)

\* NewFilterManager with cleanStates, and Add: the watcher is there.
NewWatcher ==
  /\ mgr.pc = "down"
  /\ fm' = [fm EXCEPT !.states = [p \in Paths |-> IF saved[p] >= 0 /\ dir[p] # 0 THEN p ELSE 0],
                      !.val = [x \in Slots |-> IF x \in Paths /\ saved[x] >= 0 /\ dir[x] # 0
                                                 /\ saved[x] <= lines[dir[x]] THEN saved[x] ELSE 0]]
  /\ mgr' = [mgr EXCEPT !.pc = "catchup", !.todo = List]
  /\ UNCHANGED <<fsVars, saved, crashes>>

\* CatchupFile for the next file of the list: when its size then was more
\* than its offset, Sync reads it, without a follower.
CatchupFile ==
  LET wf == Head(mgr.todo)
      m == IF fm.states[wf.pth] = 0 THEN addSeekInfo(fm, wf.pth) ELSE fm
      x == m.states[wf.pth]
      i == dir[wf.pth] IN
  /\ mgr.pc = "catchup" /\ mgr.todo # <<>>
  /\ fm' = IF wf.pth \notin Matching \/ i = 0 \/ m.val[x] >= wf.size THEN fm
           ELSE [Handle(m, Unread(i, m.val[x])) EXCEPT !.val[x] = IF @ < lines[i] THEN lines[i] ELSE @]
  /\ mgr' = [mgr EXCEPT !.todo = Tail(@)]
  /\ UNCHANGED <<fsVars, saved, crashes>>

\* Start: initExisting lists the directory again and keeps the first names.
Start ==
  /\ mgr.pc = "catchup" /\ mgr.todo = <<>>
  /\ mgr' = [mgr EXCEPT !.pc = "idle",
                        !.todo = SubSeq(List, 1, IF Len(List) > MaxFilesWatched THEN MaxFilesWatched ELSE Len(List))]
  /\ UNCHANGED <<fsVars, fm, saved, crashes>>

\* LoadFileList for the next file of the list.  A file that is gone fails
\* Start, and the process ends.
LoadFile ==
  LET p == Head(mgr.todo).pth IN
  /\ mgr.pc = "idle" /\ mgr.todo # <<>>
  /\ IF dir[p] = 0
     THEN CloseManager
     ELSE launchFollowers(p, FALSE) /\ UNCHANGED <<events, saved>>
  /\ UNCHANGED <<dirVars, crashes>>

-----------------------------------------------------------------------------
(* The directory, and the events inotify queues.                           *)

Emit(es) ==
  events' = IF mgr.pc = "down" THEN <<>>
            ELSE IF events # <<>> /\ <<events[Len(events)]>> = es THEN events
            ELSE events \o es

Event(op, p) == [op |-> op, path |-> p]

Operation == ops < MaxOps /\ ops' = ops + 1 /\ UNCHANGED <<fm, mgr, saved, crashes>>

CreateFile(p) ==
  /\ Operation /\ dir[p] = 0 /\ born # Inodes
  /\ LET i == Least(Inodes \ born) IN
     /\ dir' = [dir EXCEPT ![p] = i] /\ born' = born \cup {i}
     /\ moved' = IF p \in used \/ mgr.pc = "catchup" THEN moved \cup {i} ELSE moved
  /\ used' = used \cup {p}
  /\ Emit(<<Event("create", p)>>)
  /\ UNCHANGED lines

WriteLine(p) ==
  /\ Operation /\ dir[p] # 0 /\ lines[dir[p]] < MaxLines
  /\ lines' = [lines EXCEPT ![dir[p]] = @ + 1]
  /\ Emit(<<Event("write", p)>>)
  /\ UNCHANGED <<dir, born, used, moved>>

RemoveFile(p) ==
  /\ Operation /\ dir[p] # 0
  /\ dir' = [dir EXCEPT ![p] = 0]
  /\ Emit(<<Event("remove", p)>>)
  /\ UNCHANGED <<lines, born, used, moved>>

RenameFile(p, q) ==
  /\ Operation /\ dir[p] # 0 /\ p # q
  /\ dir' = [dir EXCEPT ![p] = 0, ![q] = dir[p]]
  /\ moved' = moved \cup {dir[p]} /\ used' = used \cup {q}
  /\ Emit(<<Event("rename", p), Event("create", q)>>)
  /\ UNCHANGED <<lines, born>>

-----------------------------------------------------------------------------
\* The routine of follower o.
Follow(o) ==
  /\ o \in Running(fm) /\ fm.val[fm.flw[o].ptr] # lines[fm.flw[o].id]
  /\ fm' = ReadAll(fm, o)
  /\ UNCHANGED <<fsVars, mgr, saved, crashes>>

Init ==
  /\ dir = [p \in Paths |-> 0] /\ lines = [i \in Inodes |-> 0]
  /\ born = {} /\ used = {} /\ moved = {} /\ events = <<>>
  /\ fm = NoManager({}, {}) /\ mgr = [pc |-> "down", todo |-> <<>>, path |-> 0, ptr |-> 0]
  /\ saved = [p \in Paths |-> -1] /\ crashes = 0 /\ ops = 0

Manager ==
  \/ CreateEvent \/ RemoveEvent \/ WriteEvent \/ RenameEvent
  \/ expungeOldFiles \/ addFollower
  \/ CatchupFile \/ Start \/ LoadFile

Next ==
  \/ Manager \/ FlushStates \/ Quit \/ Crash \/ NewWatcher
  \/ \E o \in Slots : Follow(o)
  \/ \E p \in Paths : CreateFile(p) \/ WriteLine(p) \/ RemoveFile(p)
  \/ \E p, q \in Paths : RenameFile(p, q)

Spec == Init /\ [][Next]_vars

\* The routine and the followers go on; the select of the routine does not
\* prefer its tickers for ever.
FairSpec == Spec /\ WF_vars(Manager) /\ WF_vars(\E o \in Slots : Follow(o))

-----------------------------------------------------------------------------
\* The types of the directory, the queue and the FilterManager's maps.
TypeOK ==
  /\ dir \in [Paths -> Inodes \cup {0}] /\ lines \in [Inodes -> 0..MaxLines]
  /\ born \subseteq Inodes /\ used \subseteq Paths /\ moved \subseteq born
  /\ \A e \in {events[i] : i \in 1..Len(events)} : e.path \in Paths
  /\ fm.followers \in [Paths -> {0} \cup Running(fm)] /\ fm.states \in [Paths -> {0} \cup Slots]
  /\ fm.val \in [Slots -> 0..MaxLines]
  /\ {fm.order[i] : i \in 1..Len(fm.order)} = Running(fm) /\ Len(fm.order) = Cardinality(Running(fm))
  /\ saved \in [Paths -> -1..MaxLines]

Offset(o) == fm.val[fm.flw[o].ptr]

\* A follower starts and goes on where the lines of its file were handled
\* up to, through crashes, restarts, expunging and whatever happens to other
\* files: unless its file was renamed or its name was in use before.
SkipsNothing ==
  \A o \in Running(fm) : fm.flw[o].id \notin moved =>
    \A l \in 1..Offset(o) : <<fm.flw[o].id, l>> \in fm.handled

\* Without a crash a file that keeps its name is not read twice, however
\* often it is expunged and loaded again.  (One that is created between Add
\* and Start may be: it is caught up with, and then its Create event deletes
\* the state.)
ReadOnce == crashes = 0 => \A x \in fm.again : x[1] \in moved

\* No two followers read a file that keeps its name.
OneFollower ==
  \A o, r \in Running(fm) : o # r /\ fm.flw[o].id = fm.flw[r].id => fm.flw[o].id \in moved

\* The loop of expungeOldFiles turns without an effect.
Spinning == mgr.pc = "add" /\ Full /\
  LET inMap == {fm.followers[p] : p \in Watched(fm)} IN
  fm.followers[fm.flw[SelectSeq(fm.order, LAMBDA o : o \in inMap)[1]].path] = 0

There(i) == \E p \in Matching : dir[p] = i

\* A line of a file that stays in the directory under a name that matches is
\* handled, also when the file is one of more than MaxFilesWatched, was
\* renamed or replaced: unless the loop of expungeOldFiles never ends.
EveryLineHandled ==
  \A i \in Inodes : (lines[i] = MaxLines /\ There(i) /\ mgr.pc # "down")
    ~> (<<i, MaxLines>> \in fm.handled \/ ~There(i) \/ mgr.pc = "down" \/ []Spinning)

\* "FlushStates flushes the current state of followed files to the disk":
\* the state file has the offset of every follower whose file kept its name.
\* (After RenameFollower the Create event of the new name makes a state for it
\* that no follower has.)
FlushesFollowed ==
  [][FlushStates =>
       \A p \in Watched(fm) : fm.flw[fm.followers[p]].id \notin moved => saved'[p] = Offset(fm.followers[p])]_vars
=============================================================================
