--------------------------- MODULE CodeStateCache ---------------------------
(***************************************************************************)
(* The on-disk CodeState cache that concurrent `semantic-ci check`         *)
(* processes share (cli/code_state_cache.py, driven by _extract_code_state *)
(* in cli/commands/check.py).                                              *)
(*                                                                         *)
(* The cache takes no lock.  A key k owns two names in the directory       *)
(* code_state/: k.json and k.json.tmp.  Files are inodes, so that a rename *)
(* moves a name while a second writer still holds the inode open, and a    *)
(* write is a truncating open followed by Chunks separate write calls.     *)
(* A CodeState is abstracted to the key it was extracted for: extraction   *)
(* is a function of the key, so the payload of k is k itself.              *)
(***************************************************************************)
EXTENDS Integers, Sequences, FiniteSets, SequencesExt

CONSTANTS
    Procs,      \* concurrent CLI processes
    Keys,       \* cache keys in use
    Inodes,     \* pool of file objects, reused once unlinked and closed
    None,       \* "no file", "no descriptor", "no answer"
    Gap,        \* a chunk that was truncated away or not yet written
    Bad,        \* bytes of an entry with another cache or schema version
    Chunks,     \* write calls needed for one entry, also its size
    Budget,     \* --cache-max-bytes in chunks; 0 disables eviction
    MaxFaults   \* bound on crashes and OS errors together

ASSUME CacheConstants ==
    /\ Chunks \in Nat \ {0}
    /\ Budget \in Nat
    /\ MaxFaults \in Nat
    /\ {Gap, Bad} \cap Keys = {} /\ Gap # Bad
    /\ None \notin Keys \cup Inodes

ASSUME FiniteSystem ==
    IsFiniteSet(Procs) /\ Procs # {} /\ IsFiniteSet(Keys)

VARIABLES
    json,       \* json[k]: inode named k.json, or None
    tmp,        \* tmp[k]: inode named k.json.tmp, or None
    data,       \* data[i][n]: what chunk n of inode i holds
    order,      \* linked inodes, oldest modification first (st_mtime)
    stale,      \* keys whose tmp file is older than STALE_TMP_SECONDS
    pc,         \* where each process is in _extract_code_state
    key,        \* the key of the lookup in progress, or None
    pos,        \* next chunk to read or write
    fd,         \* inode the process has open, or None
    rval,       \* the chunk values read so far
    answer,     \* the CodeState the lookup returns, or None
    tally,      \* CacheStats counters this lookup has incremented
    recs,       \* evict_to_budget: the file records still to be visited
    total,      \* evict_to_budget: running byte total
    faults      \* crashes and OS errors so far

files == <<json, tmp, data, order, stale>>
local == <<pc, key, pos, fd, rval, answer, tally>>
evict == <<recs, total>>
vars == <<files, local, evict, faults>>

-----------------------------------------------------------------------------
Cells == Keys \cup {Gap, Bad}

Labels == {"idle", "open", "read", "parse", "tmpopen",
           "write", "replace", "cleanup", "scan", "evict", "done",
           "crashed"}

Counters == {"hit", "miss", "invalid", "write_failed"}

\* _cache_path and the sibling with_name(f"{path.name}.tmp").
Paths == {"json", "tmp"} \X Keys

\* Mutant: one temporary file for the whole cache directory.
TmpNameShared(k) == CHOOSE c \in Keys : TRUE

\* The name of the temporary file of k: one per key, not one per writer.
TmpName(k) == k

\* Bytes up to the last chunk written; a gap below it is a hole.
Size(i) == Cardinality({n \in 1..Chunks : \E m \in n..Chunks : data[i][m] # Gap})

Linked(i) == \E k \in Keys : json[k] = i \/ tmp[k] = i

\* The kernel reuses an inode once no name and no descriptor refers to it.
Free(i) == ~Linked(i) /\ \A p \in Procs : fd[p] # i

NewInode == CHOOSE i \in Inodes : Free(i)

EmptyFile == [n \in 1..Chunks |-> Gap]

\* The place of file i in the order o.
Place(o, i) == CHOOSE n \in 1..Len(o) : o[n] = i

Forget(o, i) == IF \E n \in 1..Len(o) : o[n] = i THEN RemoveAt(o, Place(o, i)) ELSE o

Touch(o, i) == Append(Forget(o, i), i)

\* Mutant: the factor is taken for a whole number.
LowWaterWrong == Budget * 8

\* int(budget_bytes * low_water) with DEFAULT_EVICTION_LOW_WATER = 0.8
LowWater == (Budget * 4) \div 5

\* A first invocation in a fresh checkout: no cache directory yet.
Init ==
    /\ json = [k \in Keys |-> None]
    /\ tmp = [k \in Keys |-> None]
    /\ data = [i \in Inodes |-> EmptyFile]
    /\ order = <<>>
    /\ stale = {}
    /\ pc = [p \in Procs |-> "idle"]
    /\ key = [p \in Procs |-> None]
    /\ pos = [p \in Procs |-> 1]
    /\ fd = [p \in Procs |-> None]
    /\ rval = [p \in Procs |-> {}]
    /\ answer = [p \in Procs |-> None]
    /\ tally = [p \in Procs |-> {}]
    /\ recs = [p \in Procs |-> <<>>]
    /\ total = [p \in Procs |-> 0]
    /\ faults = 0

Goto(p, l) == pc' = [pc EXCEPT ![p] = l]
Count(p, C) == tally' = [tally EXCEPT ![p] = @ \cup C]

\* extract_python_code_state_result on the materialised tree of key k.
Extract(p, k) == answer' = [answer EXCEPT ![p] = k]

\* Mutant: an invalid entry is not counted as a miss.
RecomputeUncounted(p) ==
    /\ Count(p, {"invalid"})
    /\ Extract(p, key[p])
    /\ Goto(p, "tmpopen")

\* Mutant: an invalid entry is recomputed but left in place.
RecomputeUnwritten(p) ==
    /\ Count(p, {"invalid", "miss"})
    /\ Extract(p, key[p])
    /\ Goto(p, "done")

\* Every failure to read an entry is counted, then recomputed.
Recompute(p) ==
    /\ Count(p, {"invalid", "miss"})
    /\ Extract(p, key[p])
    /\ Goto(p, "tmpopen")

-----------------------------------------------------------------------------
(* read_cached_code_state: exists(), then open and read, then validate.    *)

\* _extract_code_state has computed the key of one side: path.exists().
StartLookup(p, k) ==
    /\ pc[p] = "idle"
    /\ key' = [key EXCEPT ![p] = k]
    /\ IF json[k] = None
       THEN Goto(p, "tmpopen") /\ Count(p, {"miss"}) /\ Extract(p, k)
       ELSE Goto(p, "open") /\ UNCHANGED <<tally, answer>>
    /\ UNCHANGED <<files, pos, fd, rval, evict, faults>>

\* _extract_code_state returns and its locals die.
Return(p) ==
    /\ pc[p] = "done"
    /\ Goto(p, "idle")
    /\ key' = [key EXCEPT ![p] = None]
    /\ answer' = [answer EXCEPT ![p] = None]
    /\ tally' = [tally EXCEPT ![p] = {}]
    /\ UNCHANGED <<files, pos, fd, rval, evict, faults>>

\* Mutant: the reader waits for an entry that has vanished.
OpenReadWaits(p) ==
    /\ pc[p] = "open"
    /\ json[key[p]] # None
    /\ Goto(p, "read")
    /\ fd' = [fd EXCEPT ![p] = json[key[p]]]
    /\ UNCHANGED <<files, key, pos, rval, tally, answer, evict, faults>>

\* The entry may have been evicted since exists(): open raises OSError.
OpenRead(p) ==
    /\ pc[p] = "open"
    /\ IF json[key[p]] = None
       THEN Recompute(p) /\ UNCHANGED fd
       ELSE /\ Goto(p, "read")
            /\ fd' = [fd EXCEPT ![p] = json[key[p]]]
            /\ UNCHANGED <<tally, answer>>
    /\ UNCHANGED <<files, key, pos, rval, evict, faults>>

\* Mutant: the descriptor is not closed after the last chunk.
ReadChunkLeaky(p) ==
    /\ pc[p] = "read"
    /\ rval' = [rval EXCEPT ![p] = @ \cup {data[fd[p]][pos[p]]}]
    /\ IF pos[p] = Chunks
       THEN Goto(p, "parse") /\ pos' = [pos EXCEPT ![p] = 1]
       ELSE UNCHANGED pc /\ pos' = [pos EXCEPT ![p] = @ + 1]
    /\ UNCHANGED <<files, key, fd, answer, tally, evict, faults>>

\* A gap read as a hole or as end of file spoils the JSON text either way.
ReadChunk(p) ==
    /\ pc[p] = "read"
    /\ rval' = [rval EXCEPT ![p] = @ \cup {data[fd[p]][pos[p]]}]
    /\ IF pos[p] = Chunks
       THEN /\ Goto(p, "parse")
            /\ fd' = [fd EXCEPT ![p] = None]
            /\ pos' = [pos EXCEPT ![p] = 1]
       ELSE UNCHANGED <<pc, fd>> /\ pos' = [pos EXCEPT ![p] = @ + 1]
    /\ UNCHANGED <<files, key, answer, tally, evict, faults>>

\* The text is accepted when every chunk is the text of one CodeState.
Validates(cells, c) == cells = {c}

Parse(p) ==
    /\ pc[p] = "parse"
    /\ \/ \E c \in Keys :
            /\ Validates(rval[p], c)
            /\ answer' = [answer EXCEPT ![p] = c]
            /\ Count(p, {"hit"})
            /\ Goto(p, "done")
       \/ /\ \A c \in Keys : ~Validates(rval[p], c)
          /\ Recompute(p)
    /\ rval' = [rval EXCEPT ![p] = {}]
    /\ UNCHANGED <<files, key, pos, fd, evict, faults>>

\* Any OSError while opening or reading is a miss, not an error.
ReadFails(p) ==
    /\ pc[p] \in {"open", "read"}
    /\ faults < MaxFaults
    /\ faults' = faults + 1
    /\ fd' = [fd EXCEPT ![p] = None]
    /\ pos' = [pos EXCEPT ![p] = 1]
    /\ rval' = [rval EXCEPT ![p] = {}]
    /\ Recompute(p)
    /\ UNCHANGED <<files, key, evict>>

-----------------------------------------------------------------------------
(* write_cached_code_state                                                 *)

\* tmp_path.write_text opens with O_CREAT | O_TRUNC.
OpenTmp(p) ==
    LET t == TmpName(key[p])
    IN  /\ pc[p] = "tmpopen"
        /\ \E i \in Inodes :
             /\ IF tmp[t] = None THEN Free(i) /\ i = NewInode ELSE i = tmp[t]
             /\ tmp' = [tmp EXCEPT ![t] = i]
             /\ data' = [data EXCEPT ![i] = EmptyFile]
             /\ order' = Touch(order, i)
             /\ fd' = [fd EXCEPT ![p] = i]
        /\ stale' = stale \ {t}
        /\ Goto(p, "write")
        /\ UNCHANGED <<json, key, pos, rval, answer, tally, evict, faults>>

WriteUpTo(p, last) ==
    LET i == fd[p]
    IN  /\ pc[p] = "write"
        /\ data' = [data EXCEPT ![i][pos[p]] = answer[p]]
        /\ order' = IF Linked(i) THEN Touch(order, i) ELSE order
        /\ stale' = {t \in stale : tmp[t] # i}
        /\ IF pos[p] = last
           THEN /\ Goto(p, "replace")
                /\ fd' = [fd EXCEPT ![p] = None]
                /\ pos' = [pos EXCEPT ![p] = 1]
           ELSE UNCHANGED <<pc, fd>> /\ pos' = [pos EXCEPT ![p] = @ + 1]
        /\ UNCHANGED <<json, tmp, key, rval, answer, tally, evict, faults>>

\* Mutant: the file is renamed before its last chunk is flushed.
WriteChunkShort(p) == WriteUpTo(p, Chunks - 1)

\* One write call at the descriptor's own offset; closed after the last.
WriteChunk(p) == WriteUpTo(p, Chunks)

\* Mutant: the tmp file is copied over the entry and stays.
ReplaceCopies(p) ==
    /\ pc[p] = "replace"
    /\ tmp[key[p]] # None
    /\ json' = [json EXCEPT ![key[p]] = tmp[key[p]]]
    /\ order' = Forget(order, json[key[p]])
    /\ Goto(p, "scan")
    /\ UNCHANGED <<tmp, data, stale, key, pos, fd, rval, answer, tally, evict,
                   faults>>

\* os.replace(tmp_path, path).  The shared tmp name may be gone: another
\* writer of the same key renamed or removed it, which is an OSError here.
Replace(p) ==
    LET k == key[p]
        t == TmpName(k)
    IN  /\ pc[p] = "replace"
        /\ IF tmp[t] # None
           THEN /\ json' = [json EXCEPT ![k] = tmp[t]]
                /\ tmp' = [tmp EXCEPT ![t] = None]
                /\ order' = Forget(order, json[k])
                /\ stale' = stale \ {t}
                /\ Goto(p, "scan")
                /\ UNCHANGED tally
           ELSE /\ Goto(p, "cleanup")
                /\ Count(p, {"write_failed"})
                /\ UNCHANGED <<json, tmp, order, stale>>
        /\ UNCHANGED <<data, key, pos, fd, rval, answer, evict, faults>>

\* mkdir, open, write, rename or the directory walk raises OSError.
WriteFails(p) ==
    /\ pc[p] \in {"tmpopen", "write", "replace", "scan"}
    /\ faults < MaxFaults
    /\ faults' = faults + 1
    /\ fd' = [fd EXCEPT ![p] = None]
    /\ pos' = [pos EXCEPT ![p] = 1]
    /\ Count(p, {"write_failed"})
    /\ Goto(p, "cleanup")
    /\ UNCHANGED <<files, key, rval, answer, evict>>

\* The handler unlinks the tmp name, whoever created the file behind it.
Cleanup(p) ==
    LET t == TmpName(key[p])
    IN  /\ pc[p] = "cleanup"
        /\ tmp' = [tmp EXCEPT ![t] = None]
        /\ order' = Forget(order, tmp[t])
        /\ stale' = stale \ {t}
        /\ Goto(p, "done")
        /\ UNCHANGED <<json, data, key, pos, fd, rval, answer, tally, evict, faults>>

\* That unlink raises an OSError too, which the handler swallows.
CleanupFails(p) ==
    /\ pc[p] = "cleanup"
    /\ faults < MaxFaults
    /\ faults' = faults + 1
    /\ Goto(p, "done")
    /\ UNCHANGED <<files, key, pos, fd, rval, answer, tally, evict>>

-----------------------------------------------------------------------------
(* evict_to_budget                                                         *)

\* _cache_file_records: every .json, and every .tmp that is an hour old.
Counted ==
    {q \in Paths : IF q[1] = "json" THEN json[q[2]] # None ELSE q[2] \in stale}

FileOf(q) == IF q[1] = "json" THEN json[q[2]] ELSE tmp[q[2]]

\* The file records, by path.
Records ==
    [q \in Counted |-> [mtime |-> Place(order, FileOf(q)), size |-> Size(FileOf(q))]]

\* The chunks of the files in the records R, and the sum of their sizes.
Blocks(R) == {b \in (DOMAIN R) \X (1..Chunks) : b[2] <= R[b[1]].size}
SumSize(R) == Cardinality(Blocks(R))

\* The next path in the order of modification.
Oldest(R) == CHOOSE q \in DOMAIN R : \A r \in DOMAIN R : R[q].mtime <= R[r].mtime

Without(R, q) == Restrict(R, (DOMAIN R) \ {q})

Scan(p) ==
    /\ pc[p] = "scan"
    /\ IF Budget > 0 /\ SumSize(Records) > Budget
       THEN /\ recs' = [recs EXCEPT ![p] = Records]
            /\ total' = [total EXCEPT ![p] = SumSize(Records)]
            /\ Goto(p, "evict")
       ELSE UNCHANGED evict /\ Goto(p, "done")
    /\ UNCHANGED <<files, key, pos, fd, rval, answer, tally, faults>>

\* One turn of the loop.  unlink takes the name away from whatever inode
\* bears it now; a name already gone still counts as freed.
EvictStep(p) ==
    /\ pc[p] = "evict"
    /\ DOMAIN recs[p] # {} /\ total[p] > LowWater
    /\ LET q == Oldest(recs[p])
           k == q[2]
       IN  /\ total' = [total EXCEPT ![p] = @ - recs[p][q].size]
           /\ recs' = [recs EXCEPT ![p] = Without(@, q)]
           /\ IF q[1] = "json"
              THEN /\ json' = [json EXCEPT ![k] = None]
                   /\ order' = Forget(order, json[k])
                   /\ UNCHANGED <<tmp, stale>>
              ELSE /\ tmp' = [tmp EXCEPT ![k] = None]
                   /\ order' = Forget(order, tmp[k])
                   /\ stale' = stale \ {k}
                   /\ UNCHANGED json
    /\ UNCHANGED <<data, local, faults>>

\* unlink raises another OSError: the file stays and still counts.
EvictFails(p) ==
    /\ pc[p] = "evict"
    /\ DOMAIN recs[p] # {} /\ total[p] > LowWater
    /\ faults < MaxFaults
    /\ faults' = faults + 1
    /\ recs' = [recs EXCEPT ![p] = Without(@, Oldest(@))]
    /\ UNCHANGED <<files, local, total>>

EvictDone(p) ==
    /\ pc[p] = "evict"
    /\ DOMAIN recs[p] = {} \/ total[p] <= LowWater
    /\ Goto(p, "done")
    /\ recs' = [recs EXCEPT ![p] = <<>>]
    /\ total' = [total EXCEPT ![p] = 0]
    /\ UNCHANGED <<files, key, pos, fd, rval, answer, tally, faults>>

-----------------------------------------------------------------------------
(* The environment                                                         *)

\* The process is killed.  Its files stay as they are.
Crash(p) ==
    /\ pc[p] \notin {"idle", "crashed"}
    /\ faults < MaxFaults
    /\ faults' = faults + 1
    /\ Goto(p, "crashed")
    /\ fd' = [fd EXCEPT ![p] = None]
    /\ key' = [key EXCEPT ![p] = None]
    /\ pos' = [pos EXCEPT ![p] = 1]
    /\ rval' = [rval EXCEPT ![p] = {}]
    /\ answer' = [answer EXCEPT ![p] = None]
    /\ tally' = [tally EXCEPT ![p] = {}]
    /\ recs' = [recs EXCEPT ![p] = <<>>]
    /\ total' = [total EXCEPT ![p] = 0]
    /\ UNCHANGED files

\* The next invocation takes the dead process's place.
Restart(p) ==
    /\ pc[p] = "crashed"
    /\ Goto(p, "idle")
    /\ UNCHANGED <<files, key, pos, fd, rval, answer, tally, evict, faults>>

\* An entry is damaged on disk, or was left by a build that wrote another
\* cache_format_version or code_state_schema_version under the same name.
Corrupt(k) ==
    /\ json[k] # None
    /\ faults < MaxFaults
    /\ faults' = faults + 1
    /\ data' = [data EXCEPT ![json[k]][1] = Bad]
    /\ UNCHANGED <<json, tmp, order, stale, local, evict>>

\* STALE_TMP_SECONDS pass with no write.
HourPasses ==
    /\ \E k \in Keys : tmp[k] # None
    /\ stale' = {k \in Keys : tmp[k] # None}
    /\ UNCHANGED <<json, tmp, data, order, local, evict, faults>>

Step(p) ==
    \/ OpenRead(p) \/ ReadChunk(p) \/ Parse(p)
    \/ OpenTmp(p) \/ WriteChunk(p) \/ Replace(p) \/ Cleanup(p)
    \/ Scan(p) \/ EvictStep(p) \/ EvictDone(p) \/ Return(p)

Fault(p) == ReadFails(p) \/ WriteFails(p) \/ CleanupFails(p) \/ EvictFails(p) \/ Crash(p)

Next ==
    \/ \E p \in Procs :
          \/ Step(p)
          \/ Fault(p)
          \/ Restart(p)
          \/ \E k \in Keys : StartLookup(p, k)
    \/ \E k \in Keys : Corrupt(k)
    \/ HourPasses

Spec == Init /\ [][Next]_vars

\* No step of a lookup waits for another process, so the operating system
\* schedules every one.  Nothing obliges a user to start a lookup, nor an
\* operating system to fail one.
Fairness == \A p \in Procs : WF_vars(Step(p))

FairSpec == Spec /\ Fairness

-----------------------------------------------------------------------------
(* Properties                                                              *)

\* The types of what the proofs reason about.
CoreTypes ==
    /\ json \in [Keys -> Inodes \cup {None}]
    /\ tmp \in [Keys -> Inodes \cup {None}]
    /\ data \in [Inodes -> [1..Chunks -> Cells]]
    /\ pc \in [Procs -> Labels]
    /\ key \in [Procs -> Keys \cup {None}]
    /\ pos \in [Procs -> 1..Chunks]
    /\ fd \in [Procs -> Inodes \cup {None}]
    /\ rval \in [Procs -> SUBSET Cells]
    /\ answer \in [Procs -> Keys \cup {None}]
    /\ faults \in 0..MaxFaults

\* What a process holds at each program point.
Locals ==
    \A p \in Procs :
        /\ key[p] = None <=> pc[p] \in {"idle", "crashed"}
        /\ fd[p] # None <=> pc[p] \in {"read", "write"}
        /\ answer[p] = None
              <=> pc[p] \in {"idle", "crashed", "open", "read", "parse"}

\* `order` lists each linked file once.
ListedOnce ==
    /\ order \in Seq(Inodes)
    /\ \A m, n \in 1..Len(order) : order[m] = order[n] => m = n
    /\ \A i \in Inodes : Linked(i) <=> \E n \in 1..Len(order) : order[n] = i

EvictTypes ==
    /\ DOMAIN recs = Procs
    /\ \A p \in Procs :
          /\ DOMAIN recs[p] \subseteq Paths
          /\ recs[p] \in [DOMAIN recs[p] -> [mtime : Nat, size : 0..Chunks]]
    /\ total \in [Procs -> Int]

\* Every value has its type; a process holds a descriptor exactly while it
\* reads or writes and an answer once it has read or computed one; `order`
\* lists each linked file once.
TypeOK ==
    /\ CoreTypes
    /\ Locals
    /\ tally \in [Procs -> SUBSET Counters]
    /\ ListedOnce
    /\ stale \in SUBSET {k \in Keys : tmp[k] # None}
    /\ EvictTypes

\* The cache is transparent: whatever other processes write, rename, evict,
\* tear or corrupt meanwhile, the CodeState a lookup of k hands to the
\* comparison is the one extraction of k computes.
Transparent == \A p \in Procs : answer[p] # None => answer[p] = key[p]

Writing(i) == \E p \in Procs : pc[p] = "write" /\ fd[p] = i

\* Without a fault, an entry nobody is writing is complete: although writers
\* of one key share the tmp file and truncate each other's text, and the
\* rename may publish a file that is still being written, the last writer to
\* truncate goes on to write every chunk.
NoTornAtRest ==
    faults = 0 =>
        \A k \in Keys : json[k] # None /\ ~Writing(json[k])
                        => \A n \in 1..Chunks : data[json[k]][n] = k

\* Without a fault, no tmp file survives the lookups that made it: each
\* writer renames it away or, finding it gone, unlinks the name.
NoTmpAtRest ==
    faults = 0 /\ (\A p \in Procs : pc[p] = "idle")
        => \A k \in Keys : tmp[k] = None

\* Each lookup counts as exactly one of hit and miss; an invalid entry is a
\* miss; only a lookup that had to extract can fail to write.
StatsAgree ==
    \A p \in Procs : pc[p] = "done" =>
        /\ ("hit" \in tally[p]) # ("miss" \in tally[p])
        /\ ("invalid" \in tally[p] \/ "write_failed" \in tally[p])
              => "miss" \in tally[p]

\* Without a fault, the cache at rest exceeds the budget by at most one entry
\* per other process.  A writer scans after its rename, so only text that
\* others were still writing then is missed; and such a writer, whose tmp
\* name is gone when it comes to rename, fails and never scans.
OvershootBounded ==
    Budget > 0 /\ faults = 0 /\ (\A p \in Procs : pc[p] = "idle")
        => SumSize(Records) <= Budget + Chunks * (Cardinality(Procs) - 1)

\* A lookup never waits for another one: it returns, or its process dies.
LookupReturns ==
    \A p \in Procs : pc[p] \notin {"idle", "crashed"} ~> pc[p] \in {"idle", "crashed"}

TornEntry(k) == json[k] # None /\ \E n \in 1..Chunks : data[json[k]][n] # k

\* A torn or corrupt entry does not survive one process that keeps looking
\* it up while the others rest: it is recomputed and replaced.  With two
\* processes it may survive for ever, since each failed writer unlinks the
\* tmp file the other has just opened and so fails the other's rename.
TornEntryHeals ==
    \A p \in Procs, k \in Keys :
        /\ <>[](\A q \in Procs \ {p} : pc[q] \in {"idle", "crashed"})
        /\ []<>(key[p] = k)
        => []<>(~TornEntry(k))

=============================================================================
