---------------------------- MODULE CacheRecovery ----------------------------
(***************************************************************************)
(* Lives of ChanCachers over one cache directory: the start-up work of     *)
(* NewChanCacher on the files an earlier life left (housekeeping, flock,   *)
(* validation and quarantine, rename or merge), the life of module         *)
(* ChanCacher, and the death of the process at any point.  A death is that *)
(* of the process, not of the machine: what was written to a file stays.   *)
(***************************************************************************)
EXTENDS ChanCacher

CONSTANTS
  NoFile,          \* the merge file does not exist
  MaxCrashes,      \* bound on the number of deaths
  CrashInMerge,    \* may the process die between the two removes and the rename of merge()?
  MaxQuarantine,   \* bound on the number in the name of a quarantined file
  OldNumbers       \* numbers of the files that are in quarantine at the start

ASSUME RecoveryAssumption ==
  /\ Cache /\ Cached = <<>>
  /\ MaxCrashes \in Nat /\ MaxQuarantine \in Nat
  /\ CrashInMerge \in BOOLEAN /\ OldNumbers \in [{"cache_a", "cache_b"} -> SUBSET (1..MaxQuarantine)]

VARIABLES
  boot,        \* where NewChanCacher is; "up" when it has returned
  disk,        \* contents of cache_a and cache_b while no ChanCacher has them open
  mergeFile,   \* contents of merge*, or NoFile
  quarantine,  \* quarantined files: for each name, number -> contents
  swapped,     \* cacheR is cache_b
  durable,     \* history: values that were encoded into a cache file
  released,    \* history: values sent to Out from a file since truncated, or removed by the operator
  crashes

dirVars == <<disk, mergeFile, quarantine>>
bootVars == <<boot, dirVars, swapped, durable, released, crashes>>
allVars == <<vars, bootVars>>

Names == {"cache_a", "cache_b"}

\* The values of the fields of a ChanCacher whose files are r and <<>>; the
\* histories of the earlier lives are kept.
NewLife(r) ==
  /\ inClosed' = FALSE /\ out' = <<>> /\ outClosed' = FALSE
  /\ runPc' = "recv" /\ runVal' = NoVal /\ selReady' = FALSE /\ runDone' = FALSE
  /\ handlerPc' = "start" /\ handlerVal' = NoVal /\ decoded' = 0
  /\ commitPc' = "idle" /\ commitVal' = NoVal /\ readerStopped' = FALSE
  /\ cacheR' = NewFileCounter(r) /\ cacheW' = NewFileCounter(<<>>)
  /\ cacheModified' = FALSE /\ cacheReading' = FALSE
  /\ cachePaused' = FALSE /\ cacheDone' = FALSE /\ cacheAck' = FALSE
  /\ cacheCommitted' = FALSE /\ cacheLock' = FALSE
  /\ UNCHANGED <<accepted, delivered, lost, fails>>

RInit ==
  /\ Init
  /\ boot = "up" /\ disk = [n \in Names |-> <<>>] /\ mergeFile = NoFile
  /\ quarantine = [n \in Names |-> [k \in OldNumbers[n] |-> <<Torn>>]]
  /\ swapped = FALSE /\ durable = {} /\ released = {} /\ crashes = 0

\* A step of the running ChanCacher.
Live ==
  /\ boot = "up" /\ Next
  /\ swapped' = IF handlerPc = "wait" /\ handlerPc' = "swap" THEN ~swapped ELSE swapped
  /\ durable' = durable \cup (Elems(cacheW'.data) \ {Torn})
  /\ released' = IF handlerPc = "decode" /\ handlerPc' = "check"
                 THEN released \cup (Elems(cacheR.data) \ ({Torn} \cup Undecoded)) ELSE released
  /\ UNCHANGED <<boot, dirVars, crashes>>

\* The process dies.  A write of cacheValue() that is under way may reach
\* the file in part.
Crash ==
  /\ boot = "up" /\ crashes < MaxCrashes
  /\ \E w \in {cacheW.data} \cup
              (IF "encode" \in {runPc, commitPc} THEN {Append(cacheW.data, Torn)} ELSE {}) :
       disk' = [n \in Names |-> IF (n = "cache_b") = swapped THEN cacheR.data ELSE w]
  /\ boot' = "down" /\ crashes' = crashes + 1
  /\ swapped' = FALSE /\ fileLock' = FALSE
  /\ NewLife(<<>>)
  /\ UNCHANGED <<mergeFile, quarantine, durable, released>>

\* It dies inside NewChanCacher.
CrashBooting ==
  /\ boot \notin {"up", "down"} /\ crashes < MaxCrashes
  /\ ~CrashInMerge => boot \notin {"removeW", "rename"}
  /\ boot' = "down" /\ crashes' = crashes + 1 /\ fileLock' = FALSE
  /\ UNCHANGED <<ioVars, runVars, handlerVars, commitVars, fileVars, cachePaused, cacheDone,
                 dirVars, swapped, durable, released>>

lifeVars == <<ioVars, runVars, handlerVars, commitVars, fileVars, cachePaused, cacheDone>>

-----------------------------------------------------------------------------
(* NewChanCacher, with a cachePath.                                        *)

\* Remove merge*; this happens before the flock is taken.
RemoveDetritus ==
  /\ boot = "down"
  /\ mergeFile' = NoFile
  /\ boot' = "lock"
  /\ UNCHANGED <<lifeVars, fileLock, disk, quarantine, swapped, durable, released, crashes>>

TryLock ==
  /\ boot = "lock"
  /\ fileLock' = TRUE
  /\ boot' = "validateR"
  /\ UNCHANGED <<lifeVars, dirVars, swapped, durable, released, crashes>>

\* Mutant of NextNumber: the number of files instead of the largest number.
CountNumber(q) == 1 + Cardinality(DOMAIN q)

\* getQuarantineCacheName: one more than the largest number in use.
NextNumber(q) == 1 + CHOOSE m \in DOMAIN q \cup {0} : \A k \in DOMAIN q : k <= m

\* validateCache: a file that does not decode to its end is moved away.
ValidateCache(n) ==
  IF Torn \in Elems(disk[n])
  THEN LET k == NextNumber(quarantine[n]) IN
       /\ k <= MaxQuarantine
       /\ disk' = [disk EXCEPT ![n] = <<>>]
       /\ quarantine' = [quarantine EXCEPT ![n] =
            [i \in DOMAIN @ \cup {k} |-> IF i = k THEN disk[n] ELSE @[i]]]
  ELSE UNCHANGED <<disk, quarantine>>

ValidateR ==
  /\ boot = "validateR" /\ ValidateCache("cache_a") /\ boot' = "validateW"
  /\ UNCHANGED <<lifeVars, fileLock, mergeFile, swapped, durable, released, crashes>>

ValidateW ==
  /\ boot = "validateW" /\ ValidateCache("cache_b") /\ boot' = "stat"
  /\ UNCHANGED <<lifeVars, fileLock, mergeFile, swapped, durable, released, crashes>>

\* Only one file has data, or none has.
Shuffle ==
  /\ boot = "stat"
  /\ disk["cache_a"] = <<>> \/ disk["cache_b"] = <<>>
  /\ disk' = IF disk["cache_b"] # <<>>
             THEN [disk EXCEPT !["cache_a"] = disk["cache_b"], !["cache_b"] = <<>>] ELSE disk
  /\ boot' = "open"
  /\ UNCHANGED <<lifeVars, fileLock, mergeFile, quarantine, swapped, durable, released, crashes>>

\* Mutant of MergeCopy: the write file is not copied.
MergeCopyFirst ==
  /\ boot = "stat" /\ disk["cache_a"] # <<>> /\ disk["cache_b"] # <<>>
  /\ mergeFile' = disk["cache_a"]
  /\ boot' = "removeR"
  /\ UNCHANGED <<lifeVars, fileLock, disk, quarantine, swapped, durable, released, crashes>>

\* merge(): copy both into a new merge file.  A partial copy is like none:
\* the file is only ever renamed when complete.
MergeCopy ==
  /\ boot = "stat" /\ disk["cache_a"] # <<>> /\ disk["cache_b"] # <<>>
  /\ mergeFile' = disk["cache_a"] \o disk["cache_b"]
  /\ boot' = "removeR"
  /\ UNCHANGED <<lifeVars, fileLock, disk, quarantine, swapped, durable, released, crashes>>

MergeRemoveR ==
  /\ boot = "removeR" /\ disk' = [disk EXCEPT !["cache_a"] = <<>>] /\ boot' = "removeW"
  /\ UNCHANGED <<lifeVars, fileLock, mergeFile, quarantine, swapped, durable, released, crashes>>

MergeRemoveW ==
  /\ boot = "removeW" /\ disk' = [disk EXCEPT !["cache_b"] = <<>>] /\ boot' = "rename"
  /\ UNCHANGED <<lifeVars, fileLock, mergeFile, quarantine, swapped, durable, released, crashes>>

\* The rename fails when the merge file is gone: NewChanCacher returns the
\* error, and the process ends.
MergeRename ==
  /\ boot = "rename"
  /\ IF mergeFile # NoFile
     THEN /\ disk' = [disk EXCEPT !["cache_a"] = mergeFile]
          /\ boot' = "open" /\ UNCHANGED fileLock
     ELSE /\ boot' = "down" /\ fileLock' = FALSE /\ UNCHANGED disk
  /\ mergeFile' = NoFile
  /\ UNCHANGED <<lifeVars, quarantine, swapped, durable, released, crashes>>

OpenFiles ==
  /\ boot = "open"
  /\ NewLife(disk["cache_a"])
  /\ disk' = [n \in Names |-> <<>>]
  /\ boot' = "up"
  /\ UNCHANGED <<fileLock, mergeFile, quarantine, swapped, durable, released, crashes>>

\* The operator takes a quarantined file away.  Only ValidateCache looks at
\* these files, so it is enough to let this happen while the process is down.
OperatorRemoves ==
  /\ boot = "down"
  /\ \E n \in Names : \E k \in DOMAIN quarantine[n] :
       /\ quarantine' = [quarantine EXCEPT ![n] = [i \in DOMAIN @ \ {k} |-> @[i]]]
       /\ released' = released \cup (Elems(quarantine[n][k]) \ {Torn})
  /\ UNCHANGED <<lifeVars, fileLock, boot, disk, mergeFile, swapped, durable, crashes>>

NewChanCacher ==
  \/ RemoveDetritus \/ TryLock \/ ValidateR \/ ValidateW \/ Shuffle
  \/ MergeCopy \/ MergeRemoveR \/ MergeRemoveW \/ MergeRename \/ OpenFiles

RNext == Live \/ Crash \/ CrashBooting \/ NewChanCacher \/ OperatorRemoves

RSpec == RInit /\ [][RNext]_allVars

-----------------------------------------------------------------------------
OnDisk ==
  Elems(cacheR.data) \cup Elems(cacheW.data)
  \cup UNION {Elems(disk[n]) : n \in Names}
  \cup (IF mergeFile = NoFile THEN {} ELSE Elems(mergeFile))
  \cup UNION {UNION {Elems(quarantine[n][k]) : k \in DOMAIN quarantine[n]} : n \in Names}

\* "In this way, you can recover data sent to disk on a crash or previous use
\* of Commit()": a value that reached a cache file stays in a file of the
\* cache directory, through every crash and every start-up, until its file
\* has been sent to Out to the end (or an error about it was logged).
DurableKept == durable \subseteq OnDisk \cup released \cup lost

\* A quarantined file is never overwritten by a later one, whatever numbers
\* the operator has freed.
QuarantineKept ==
  [][\A n \in Names : \A k \in DOMAIN quarantine[n] \cap DOMAIN quarantine'[n] :
       quarantine'[n][k] = quarantine[n][k]]_quarantine
=============================================================================
