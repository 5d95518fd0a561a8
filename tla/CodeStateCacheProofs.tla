------------------------ MODULE CodeStateCacheProofs ------------------------
(***************************************************************************)
(* Proofs, for any number of processes, keys, files, chunks and faults,    *)
(* that the shared cache keeps its types and is transparent, and that      *)
(* without a fault it comes to rest with whole entries, without temporary  *)
(* files and within its budget but for what evades every scan.             *)
(***************************************************************************)
EXTENDS CodeStateCache, FiniteSetTheorems, SequenceTheorems, TLAPS

\* File i is reachable through key k: by a name of k, or by a descriptor
\* opened while looking k up.
Refers(i, k) ==
    \/ json[k] = i
    \/ tmp[k] = i
    \/ \E p \in Procs : fd[p] = i /\ key[p] = k

\* No file is ever shared between two keys.
OneOwner ==
    \A i \in Inodes : \A k, l \in Keys : Refers(i, k) /\ Refers(i, l) => k = l

\* A file holds nothing but text of its key, holes and damage.
OwnText ==
    \A i \in Inodes : \A k \in Keys :
        Refers(i, k) => \A n \in 1..Chunks : data[i][n] \in {k, Gap, Bad}

\* So does what a reader has read of it.
ReadOwn ==
    \A p \in Procs :
        /\ rval[p] \subseteq {key[p], Gap, Bad}
        /\ rval[p] # {} => pc[p] \in {"read", "parse"}

\* The inductive invariant behind Transparent.
CacheInv ==
    /\ CoreTypes
    /\ Locals
    /\ OneOwner
    /\ OwnText
    /\ ReadOwn
    /\ Transparent

-----------------------------------------------------------------------------
\* A step that gives no file to a new key and leaves its text alone, or
\* changes it only to text the owner allows, keeps files apart.
LEMMA NoNewOwner ==
    ASSUME OneOwner,
           \A i \in Inodes, k \in Keys : Refers(i, k)' => Refers(i, k),
           \A i \in Inodes, k \in Keys : Refers(i, k) =>
               \A n \in 1..Chunks : data'[i][n] \in {k, Gap, Bad}
    PROVE  OneOwner' /\ OwnText'
  BY DEF OneOwner, OwnText

\* The program starts in the invariant: there is no file and no lookup.
LEMMA InitInv == Init => CacheInv
<1> SUFFICES ASSUME Init PROVE CacheInv
  OBVIOUS
<1> USE CacheConstants
<1>1. CoreTypes
  BY DEF Init, CoreTypes, EmptyFile, Cells, Labels, Counters
<1>2. Locals
  BY DEF Init, Locals
<1>3. \A i \in Inodes, k \in Keys : ~Refers(i, k)
  BY DEF Init, Refers
<1>4. OneOwner /\ OwnText
  BY <1>3 DEF OneOwner, OwnText
<1>5. ReadOwn /\ Transparent
  BY DEF Init, ReadOwn, Transparent
<1> QED
  BY <1>1, <1>2, <1>4, <1>5 DEF CacheInv

\* A new lookup takes a key; a miss computes that key's state.
LEMMA StartLookupInv ==
    ASSUME CacheInv, NEW p \in Procs, NEW k \in Keys, StartLookup(p, k)
    PROVE  CacheInv'
<1> USE CacheConstants DEF CacheInv, files, local, evict, Goto, Count
<1>0. /\ key' = [key EXCEPT ![p] = k]
      /\ \/ pc' = [pc EXCEPT ![p] = "tmpopen"] /\ answer' = [answer EXCEPT ![p] = k]
         \/ pc' = [pc EXCEPT ![p] = "open"] /\ answer' = answer
      /\ json' = json /\ tmp' = tmp /\ data' = data /\ pos' = pos /\ fd' = fd
      /\ rval' = rval /\ faults' = faults
  BY DEF StartLookup, Extract
<1>1. CoreTypes'
  BY <1>0 DEF CoreTypes, Labels
<1>2. Locals'
  BY DEF StartLookup, CoreTypes, Locals, Labels, Extract
<1>3. \A i \in Inodes, c \in Keys : Refers(i, c)' => Refers(i, c)
  BY DEF StartLookup, CoreTypes, Locals, Refers, Extract
<1>4. OneOwner' /\ OwnText'
  BY <1>3, NoNewOwner DEF StartLookup, OwnText, Extract
<1>5. ReadOwn'
  BY DEF StartLookup, CoreTypes, Locals, ReadOwn, OwnText, Refers, Extract
<1>6. Transparent'
  BY DEF StartLookup, CoreTypes, Locals, Transparent, ReadOwn, Extract
<1> QED
  BY <1>1, <1>2, <1>4, <1>5, <1>6

\* A returning lookup drops its locals.
LEMMA ReturnInv ==
    ASSUME CacheInv, NEW p \in Procs, Return(p)
    PROVE  CacheInv'
<1> USE CacheConstants DEF CacheInv, files, local, evict, Goto, Count
<1>0. key[p] \in Keys
  BY DEF Return, CoreTypes, Locals
<1>1. CoreTypes'
  BY <1>0 DEF Return, CoreTypes, Labels, Cells
<1>2. Locals'
  BY <1>0 DEF Return, CoreTypes, Locals, Labels
<1>3. \A i \in Inodes, k \in Keys : Refers(i, k)' => Refers(i, k)
  BY <1>0 DEF Return, CoreTypes, Locals, Refers
<1>4. OneOwner' /\ OwnText'
  BY <1>3, NoNewOwner DEF Return, OwnText
<1>5. ReadOwn'
  BY <1>0 DEF Return, CoreTypes, Locals, ReadOwn, OwnText, Refers
<1>6. Transparent'
  BY <1>0 DEF Return, CoreTypes, Locals, Transparent, ReadOwn
<1> QED
  BY <1>1, <1>2, <1>4, <1>5, <1>6

\* A reader opens a file its key already names.
LEMMA OpenReadInv ==
    ASSUME CacheInv, NEW p \in Procs, OpenRead(p)
    PROVE  CacheInv'
<1> USE CacheConstants DEF CacheInv, files, local, evict, Goto, Count
<1>0. key[p] \in Keys
  BY DEF OpenRead, CoreTypes, Locals
<1>1. CoreTypes'
  BY <1>0 DEF OpenRead, CoreTypes, Labels, Cells, Recompute, Extract
<1>2. Locals'
  <2>1. CASE json[key[p]] = None
    BY <1>0, <2>1 DEF OpenRead, CoreTypes, Locals, Labels, Recompute, Extract
  <2>2. CASE json[key[p]] # None
    <3>1. pc[p] = "open" /\ pc' = [pc EXCEPT ![p] = "read"]
          /\ fd' = [fd EXCEPT ![p] = json[key[p]]] /\ UNCHANGED <<key, answer>>
      BY <2>2 DEF OpenRead
    <3>2. pc \in [Procs -> Labels] /\ fd \in [Procs -> Inodes \cup {None}]
      BY DEF CoreTypes
    <3> QED
      BY <2>2, <3>1, <3>2 DEF Locals
  <2> QED
    BY <2>1, <2>2
<1>3. \A i \in Inodes, k \in Keys : Refers(i, k)' => Refers(i, k)
  BY <1>0 DEF OpenRead, CoreTypes, Locals, Refers, Recompute, Extract
<1>4. OneOwner' /\ OwnText'
  BY <1>3, NoNewOwner DEF OpenRead, OwnText, Recompute, Extract
<1>5. ReadOwn'
  BY <1>0 DEF OpenRead, CoreTypes, Locals, ReadOwn, OwnText, Refers, Recompute, Extract
<1>6. Transparent'
  <2>1. CASE json[key[p]] = None
    <3>1. answer' = [answer EXCEPT ![p] = key[p]] /\ key' = key
      BY <2>1 DEF OpenRead, Recompute, Extract
    <3> QED
      BY <3>1 DEF CoreTypes, Transparent
  <2>2. CASE json[key[p]] # None
    BY <1>0, <2>2 DEF OpenRead, CoreTypes, Transparent
  <2> QED
    BY <2>1, <2>2
<1> QED
  BY <1>1, <1>2, <1>4, <1>5, <1>6

\* A reader sees only what the file of its key holds.
LEMMA ReadChunkInv ==
    ASSUME CacheInv, NEW p \in Procs, ReadChunk(p)
    PROVE  CacheInv'
<1> USE CacheConstants DEF CacheInv, files, local, evict, Goto, Count
<1>0. key[p] \in Keys
  BY DEF ReadChunk, CoreTypes, Locals
<1>a. fd[p] \in Inodes /\ data[fd[p]][pos[p]] \in Cells
  BY DEF ReadChunk, CoreTypes, Locals
<1>b. rval' \in [Procs -> SUBSET Cells]
  BY <1>a DEF ReadChunk, CoreTypes
<1>c. pos' \in [Procs -> 1..Chunks]
  <2>1. pos[p] \in 1..Chunks
    BY DEF CoreTypes
  <2>2. CASE pos[p] = Chunks
    <3>1. 1 \in 1..Chunks
      BY <2>1
    <3>2. pos' = [pos EXCEPT ![p] = 1]
      BY <2>2 DEF ReadChunk
    <3> QED
      BY <3>1, <3>2 DEF CoreTypes
  <2>3. CASE pos[p] # Chunks
    <3>1. pos[p] + 1 \in 1..Chunks
      BY <2>1, <2>3
    <3> QED
      BY <2>3, <3>1 DEF ReadChunk, CoreTypes
  <2> QED
    BY <2>2, <2>3
<1>1. CoreTypes'
  BY <1>0, <1>b, <1>c DEF ReadChunk, CoreTypes, Labels
<1>2. Locals'
  BY <1>0 DEF ReadChunk, CoreTypes, Locals, Labels
<1>3. \A i \in Inodes, k \in Keys : Refers(i, k)' => Refers(i, k)
  BY <1>0 DEF ReadChunk, CoreTypes, Locals, Refers
<1>4. OneOwner' /\ OwnText'
  BY <1>3, NoNewOwner DEF ReadChunk, OwnText
<1>5. ReadOwn'
  <2>1. Refers(fd[p], key[p])
    BY DEF Refers
  <2>2. data[fd[p]][pos[p]] \in {key[p], Gap, Bad}
    BY <1>0, <1>a, <2>1 DEF CoreTypes, OwnText
  <2>3. \A q \in Procs : rval'[q] \subseteq {key[q], Gap, Bad}
    BY <2>2 DEF ReadChunk, CoreTypes, ReadOwn
  <2>4. \A q \in Procs : rval'[q] # {} => pc'[q] \in {"read", "parse"}
    BY DEF ReadChunk, CoreTypes, ReadOwn
  <2> QED
    BY <2>3, <2>4 DEF ReadChunk, ReadOwn
<1>6. Transparent'
  BY <1>0 DEF ReadChunk, CoreTypes, Locals, Transparent, ReadOwn
<1> QED
  BY <1>1, <1>2, <1>4, <1>5, <1>6

\* Text accepted as a CodeState is text of the reader's own key.
LEMMA ParseInv ==
    ASSUME CacheInv, NEW p \in Procs, Parse(p)
    PROVE  CacheInv'
<1> USE CacheConstants DEF CacheInv, files, local, evict, Goto, Count
<1>0. key[p] \in Keys
  BY DEF Parse, CoreTypes, Locals
<1>1. CoreTypes'
  BY <1>0 DEF Parse, CoreTypes, Labels, Cells, Recompute, Extract, Validates
<1>2. Locals'
  BY <1>0 DEF Parse, CoreTypes, Locals, Labels, Recompute, Extract, Validates
<1>3. \A i \in Inodes, k \in Keys : Refers(i, k)' => Refers(i, k)
  BY <1>0 DEF Parse, CoreTypes, Locals, Refers, Recompute, Extract, Validates
<1>4. OneOwner' /\ OwnText'
  BY <1>3, NoNewOwner DEF Parse, OwnText, Recompute, Extract, Validates
<1>5. ReadOwn'
  BY <1>0 DEF Parse, CoreTypes, Locals, ReadOwn, OwnText, Refers, Recompute, Extract, Validates
<1>6. Transparent'
  <2>1. CASE \A c \in Keys : ~Validates(rval[p], c)
    <3>1. answer' = [answer EXCEPT ![p] = key[p]] /\ key' = key
      BY <2>1 DEF Parse, Recompute, Extract
    <3> QED
      BY <3>1 DEF CoreTypes, Transparent
  <2>2. ASSUME NEW c \in Keys, Validates(rval[p], c),
               answer' = [answer EXCEPT ![p] = c]
        PROVE  Transparent'
    <3>1. c \in rval[p]
      BY <2>2 DEF Validates
    <3>2. c = key[p]
      BY <3>1 DEF ReadOwn
    <3> QED
      BY <1>0, <2>2, <3>2 DEF Parse, CoreTypes, Transparent
  <2> QED
    BY <2>1, <2>2 DEF Parse
<1> QED
  BY <1>1, <1>2, <1>4, <1>5, <1>6

\* A failed read falls back to extraction.
LEMMA ReadFailsInv ==
    ASSUME CacheInv, NEW p \in Procs, ReadFails(p)
    PROVE  CacheInv'
<1> USE CacheConstants DEF CacheInv, files, local, evict, Goto, Count
<1>0. key[p] \in Keys
  BY DEF ReadFails, CoreTypes, Locals
<1>1. CoreTypes'
  BY <1>0 DEF ReadFails, CoreTypes, Labels, Cells, Recompute, Extract
<1>2. Locals'
  BY <1>0 DEF ReadFails, CoreTypes, Locals, Labels, Recompute, Extract
<1>3. \A i \in Inodes, k \in Keys : Refers(i, k)' => Refers(i, k)
  BY <1>0 DEF ReadFails, CoreTypes, Locals, Refers, Recompute, Extract
<1>4. OneOwner' /\ OwnText'
  BY <1>3, NoNewOwner DEF ReadFails, OwnText, Recompute, Extract
<1>5. ReadOwn'
  BY <1>0 DEF ReadFails, CoreTypes, Locals, ReadOwn, OwnText, Refers, Recompute, Extract
<1>6. Transparent'
  BY <1>0 DEF ReadFails, CoreTypes, Locals, Transparent, ReadOwn, Recompute, Extract
<1> QED
  BY <1>1, <1>2, <1>4, <1>5, <1>6

\* The rename moves a file from one name of the key to the other.
LEMMA ReplaceInv ==
    ASSUME CacheInv, NEW p \in Procs, Replace(p)
    PROVE  CacheInv'
<1> USE CacheConstants DEF CacheInv, files, local, evict, Goto, Count
<1>0. key[p] \in Keys
  BY DEF Replace, CoreTypes, Locals
<1>1. CoreTypes'
  BY <1>0 DEF Replace, CoreTypes, Labels, Cells, TmpName
<1>2. Locals'
  BY <1>0 DEF Replace, CoreTypes, Locals, Labels, TmpName
<1>3. \A i \in Inodes, k \in Keys : Refers(i, k)' => Refers(i, k)
  BY <1>0 DEF Replace, CoreTypes, Locals, Refers, TmpName
<1>4. OneOwner' /\ OwnText'
  BY <1>3, NoNewOwner DEF Replace, OwnText, TmpName
<1>5. ReadOwn'
  BY <1>0 DEF Replace, CoreTypes, Locals, ReadOwn, OwnText, Refers, TmpName
<1>6. Transparent'
  BY <1>0 DEF Replace, CoreTypes, Locals, Transparent, ReadOwn, TmpName
<1> QED
  BY <1>1, <1>2, <1>4, <1>5, <1>6

\* A failed write closes the file.
LEMMA WriteFailsInv ==
    ASSUME CacheInv, NEW p \in Procs, WriteFails(p)
    PROVE  CacheInv'
<1> USE CacheConstants DEF CacheInv, files, local, evict, Goto, Count
<1>0. key[p] \in Keys
  BY DEF WriteFails, CoreTypes, Locals
<1>1. CoreTypes'
  BY <1>0 DEF WriteFails, CoreTypes, Labels, Cells
<1>2. Locals'
  BY <1>0 DEF WriteFails, CoreTypes, Locals, Labels
<1>3. \A i \in Inodes, k \in Keys : Refers(i, k)' => Refers(i, k)
  BY <1>0 DEF WriteFails, CoreTypes, Locals, Refers
<1>4. OneOwner' /\ OwnText'
  BY <1>3, NoNewOwner DEF WriteFails, OwnText
<1>5. ReadOwn'
  BY <1>0 DEF WriteFails, CoreTypes, Locals, ReadOwn, OwnText, Refers
<1>6. Transparent'
  BY <1>0 DEF WriteFails, CoreTypes, Locals, Transparent, ReadOwn
<1> QED
  BY <1>1, <1>2, <1>4, <1>5, <1>6

\* The handler takes a name away.
LEMMA CleanupInv ==
    ASSUME CacheInv, NEW p \in Procs, Cleanup(p)
    PROVE  CacheInv'
<1> USE CacheConstants DEF CacheInv, files, local, evict, Goto, Count
<1>0. key[p] \in Keys
  BY DEF Cleanup, CoreTypes, Locals
<1>1. CoreTypes'
  BY <1>0 DEF Cleanup, CoreTypes, Labels, Cells, TmpName
<1>2. Locals'
  BY <1>0 DEF Cleanup, CoreTypes, Locals, Labels, TmpName
<1>3. \A i \in Inodes, k \in Keys : Refers(i, k)' => Refers(i, k)
  BY <1>0 DEF Cleanup, CoreTypes, Locals, Refers, TmpName
<1>4. OneOwner' /\ OwnText'
  BY <1>3, NoNewOwner DEF Cleanup, OwnText, TmpName
<1>5. ReadOwn'
  BY <1>0 DEF Cleanup, CoreTypes, Locals, ReadOwn, OwnText, Refers, TmpName
<1>6. Transparent'
  BY <1>0 DEF Cleanup, CoreTypes, Locals, Transparent, ReadOwn, TmpName
<1> QED
  BY <1>1, <1>2, <1>4, <1>5, <1>6

\* A failed unlink leaves the directory as it is.
LEMMA CleanupFailsInv ==
    ASSUME CacheInv, NEW p \in Procs, CleanupFails(p)
    PROVE  CacheInv'
<1> USE CacheConstants DEF CacheInv, files, local, evict, Goto
<1>1. CoreTypes'
  BY DEF CleanupFails, CoreTypes, Labels
<1>2. Locals'
  BY DEF CleanupFails, CoreTypes, Locals, Labels
<1>3. \A i \in Inodes, k \in Keys : Refers(i, k)' => Refers(i, k)
  BY DEF CleanupFails, CoreTypes, Locals, Refers
<1>4. OneOwner' /\ OwnText'
  BY <1>3, NoNewOwner DEF CleanupFails, OwnText
<1>5. ReadOwn'
  BY DEF CleanupFails, CoreTypes, Locals, ReadOwn, OwnText, Refers
<1>6. Transparent'
  BY DEF CleanupFails, CoreTypes, Locals, Transparent, ReadOwn
<1> QED
  BY <1>1, <1>2, <1>4, <1>5, <1>6

\* The scan changes no file.
LEMMA ScanInv ==
    ASSUME CacheInv, NEW p \in Procs, Scan(p)
    PROVE  CacheInv'
<1> USE CacheConstants DEF CacheInv, files, local, evict, Goto, Count
<1>0. key[p] \in Keys
  BY DEF Scan, CoreTypes, Locals
<1>1. CoreTypes'
  BY <1>0 DEF Scan, CoreTypes, Labels, Cells
<1>2. Locals'
  BY <1>0 DEF Scan, CoreTypes, Locals, Labels
<1>3. \A i \in Inodes, k \in Keys : Refers(i, k)' => Refers(i, k)
  BY <1>0 DEF Scan, CoreTypes, Locals, Refers
<1>4. OneOwner' /\ OwnText'
  BY <1>3, NoNewOwner DEF Scan, OwnText
<1>5. ReadOwn'
  BY <1>0 DEF Scan, CoreTypes, Locals, ReadOwn, OwnText, Refers
<1>6. Transparent'
  BY <1>0 DEF Scan, CoreTypes, Locals, Transparent, ReadOwn
<1> QED
  BY <1>1, <1>2, <1>4, <1>5, <1>6

\* Eviction only takes names away.
LEMMA EvictStepInv ==
    ASSUME CacheInv, NEW p \in Procs, EvictStep(p)
    PROVE  CacheInv'
<1> USE CacheConstants DEF CacheInv, files, local, evict, Goto, Count
<1>0. key[p] \in Keys
  BY DEF EvictStep, CoreTypes, Locals
<1>1. CoreTypes'
  BY <1>0 DEF EvictStep, CoreTypes, Labels, Cells
<1>2. Locals'
  BY <1>0 DEF EvictStep, CoreTypes, Locals, Labels
<1>3. \A i \in Inodes, k \in Keys : Refers(i, k)' => Refers(i, k)
  BY <1>0 DEF EvictStep, CoreTypes, Locals, Refers
<1>4. OneOwner' /\ OwnText'
  BY <1>3, NoNewOwner DEF EvictStep, OwnText
<1>5. ReadOwn'
  BY <1>0 DEF EvictStep, CoreTypes, Locals, ReadOwn, OwnText, Refers
<1>6. Transparent'
  BY <1>0 DEF EvictStep, CoreTypes, Locals, Transparent, ReadOwn
<1> QED
  BY <1>1, <1>2, <1>4, <1>5, <1>6

\* A failed unlink changes no file.
LEMMA EvictFailsInv ==
    ASSUME CacheInv, NEW p \in Procs, EvictFails(p)
    PROVE  CacheInv'
<1> USE CacheConstants DEF CacheInv, files, local, evict, Goto, Count
<1>0. key[p] \in Keys
  BY DEF EvictFails, CoreTypes, Locals
<1>1. CoreTypes'
  BY <1>0 DEF EvictFails, CoreTypes, Labels, Cells
<1>2. Locals'
  BY <1>0 DEF EvictFails, CoreTypes, Locals, Labels
<1>3. \A i \in Inodes, k \in Keys : Refers(i, k)' => Refers(i, k)
  BY <1>0 DEF EvictFails, CoreTypes, Locals, Refers
<1>4. OneOwner' /\ OwnText'
  BY <1>3, NoNewOwner DEF EvictFails, OwnText
<1>5. ReadOwn'
  BY <1>0 DEF EvictFails, CoreTypes, Locals, ReadOwn, OwnText, Refers
<1>6. Transparent'
  BY <1>0 DEF EvictFails, CoreTypes, Locals, Transparent, ReadOwn
<1> QED
  BY <1>1, <1>2, <1>4, <1>5, <1>6

\* The end of eviction changes no file.
LEMMA EvictDoneInv ==
    ASSUME CacheInv, NEW p \in Procs, EvictDone(p)
    PROVE  CacheInv'
<1> USE CacheConstants DEF CacheInv, files, local, evict, Goto, Count
<1>0. key[p] \in Keys
  BY DEF EvictDone, CoreTypes, Locals
<1>1. CoreTypes'
  BY <1>0 DEF EvictDone, CoreTypes, Labels, Cells
<1>2. Locals'
  BY <1>0 DEF EvictDone, CoreTypes, Locals, Labels
<1>3. \A i \in Inodes, k \in Keys : Refers(i, k)' => Refers(i, k)
  BY <1>0 DEF EvictDone, CoreTypes, Locals, Refers
<1>4. OneOwner' /\ OwnText'
  BY <1>3, NoNewOwner DEF EvictDone, OwnText
<1>5. ReadOwn'
  BY <1>0 DEF EvictDone, CoreTypes, Locals, ReadOwn, OwnText, Refers
<1>6. Transparent'
  BY <1>0 DEF EvictDone, CoreTypes, Locals, Transparent, ReadOwn
<1> QED
  BY <1>1, <1>2, <1>4, <1>5, <1>6

\* A crash closes the descriptor and frees the locals.
LEMMA CrashInv ==
    ASSUME CacheInv, NEW p \in Procs, Crash(p)
    PROVE  CacheInv'
<1> USE CacheConstants DEF CacheInv, files, local, evict, Goto, Count
<1>0. key[p] \in Keys
  BY DEF Crash, CoreTypes, Locals
<1>1. CoreTypes'
  BY <1>0 DEF Crash, CoreTypes, Labels, Cells
<1>2. Locals'
  BY <1>0 DEF Crash, CoreTypes, Locals, Labels
<1>3. \A i \in Inodes, k \in Keys : Refers(i, k)' => Refers(i, k)
  BY <1>0 DEF Crash, CoreTypes, Locals, Refers
<1>4. OneOwner' /\ OwnText'
  BY <1>3, NoNewOwner DEF Crash, OwnText
<1>5. ReadOwn'
  BY <1>0 DEF Crash, CoreTypes, Locals, ReadOwn, OwnText, Refers
<1>6. Transparent'
  BY <1>0 DEF Crash, CoreTypes, Locals, Transparent, ReadOwn
<1> QED
  BY <1>1, <1>2, <1>4, <1>5, <1>6

\* A restarted process holds nothing.
LEMMA RestartInv ==
    ASSUME CacheInv, NEW p \in Procs, Restart(p)
    PROVE  CacheInv'
<1> USE CacheConstants DEF CacheInv, files, local, evict, Goto, Count
<1>1. CoreTypes'
  BY DEF Restart, CoreTypes, Labels, Cells
<1>2. Locals'
  BY DEF Restart, CoreTypes, Locals, Labels
<1>3. \A i \in Inodes, k \in Keys : Refers(i, k)' => Refers(i, k)
  BY DEF Restart, CoreTypes, Locals, Refers
<1>4. OneOwner' /\ OwnText'
  BY <1>3, NoNewOwner DEF Restart, OwnText
<1>5. ReadOwn'
  BY DEF Restart, CoreTypes, Locals, ReadOwn, OwnText, Refers
<1>6. Transparent'
  BY DEF Restart, CoreTypes, Locals, Transparent, ReadOwn
<1> QED
  BY <1>1, <1>2, <1>4, <1>5, <1>6

\* A writer opens the tmp file of its key, or a file nobody refers to.
LEMMA OpenTmpInv ==
    ASSUME CacheInv, NEW p \in Procs, OpenTmp(p)
    PROVE  CacheInv'
<1> USE CacheConstants DEF CacheInv, TmpName
<1>0. key[p] \in Keys
  BY DEF OpenTmp, CoreTypes, Locals
<1>1. PICK i \in Inodes :
        /\ tmp[key[p]] = None => Free(i)
        /\ tmp[key[p]] # None => i = tmp[key[p]]
        /\ tmp' = [tmp EXCEPT ![key[p]] = i]
        /\ data' = [data EXCEPT ![i] = EmptyFile]
        /\ fd' = [fd EXCEPT ![p] = i]
  BY DEF OpenTmp
<1>2. /\ json' = json /\ key' = key /\ pos' = pos /\ rval' = rval
      /\ answer' = answer /\ faults' = faults
      /\ pc[p] = "tmpopen" /\ pc' = [pc EXCEPT ![p] = "write"]
  BY DEF OpenTmp, Goto
<1>3. CoreTypes'
  BY <1>0, <1>1, <1>2 DEF CoreTypes, Labels, Cells, EmptyFile
<1>4. Locals'
  BY <1>0, <1>1, <1>2 DEF CoreTypes, Locals
<1>5. \A j \in Inodes, k \in Keys :
        Refers(j, k)' => Refers(j, k) \/ (j = i /\ k = key[p])
  BY <1>0, <1>1, <1>2 DEF CoreTypes, Refers
<1>6. \A k \in Keys : Refers(i, k) => k = key[p]
  <2>1. CASE tmp[key[p]] = None
    BY <1>1, <2>1 DEF Free, Linked, Refers
  <2>2. CASE tmp[key[p]] # None
    <3>1. Refers(i, key[p])
      BY <1>1, <2>2 DEF Refers
    <3> QED
      BY <1>0, <3>1 DEF OneOwner
  <2> QED
    BY <2>1, <2>2
<1>7. OneOwner'
  BY <1>5, <1>6 DEF OneOwner
<1>8. OwnText'
  <2> SUFFICES ASSUME NEW j \in Inodes, NEW k \in Keys, Refers(j, k)',
                      NEW n \in 1..Chunks
               PROVE  data'[j][n] \in {k, Gap, Bad}
    BY DEF OwnText
  <2>1. CASE j = i
    BY <1>1, <2>1 DEF CoreTypes, EmptyFile
  <2>2. CASE j # i
    <3>1. Refers(j, k) /\ data'[j] = data[j]
      BY <1>1, <1>5, <2>2 DEF CoreTypes
    <3> QED
      BY <3>1 DEF OwnText
  <2> QED
    BY <2>1, <2>2
<1>9. ReadOwn'
  BY <1>2 DEF CoreTypes, ReadOwn
<1>10. Transparent'
  BY <1>2 DEF Transparent
<1> QED
  BY <1>3, <1>4, <1>7, <1>8, <1>9, <1>10

\* A writer puts text of its own key into the file of its key.
LEMMA WriteChunkInv ==
    ASSUME CacheInv, NEW p \in Procs, WriteChunk(p)
    PROVE  CacheInv'
<1> USE CacheConstants DEF CacheInv, Goto
<1>0. /\ key[p] \in Keys
      /\ fd[p] \in Inodes
      /\ pos[p] \in 1..Chunks
      /\ answer[p] = key[p]
  BY DEF WriteChunk, WriteUpTo, CoreTypes, Locals, Transparent
<1>1. /\ data' = [data EXCEPT ![fd[p]][pos[p]] = key[p]]
      /\ json' = json /\ tmp' = tmp /\ key' = key /\ rval' = rval
      /\ answer' = answer /\ faults' = faults /\ pc[p] = "write"
  BY <1>0 DEF WriteChunk, WriteUpTo
<1>2. \/ /\ pos[p] = Chunks
         /\ pc' = [pc EXCEPT ![p] = "replace"]
         /\ fd' = [fd EXCEPT ![p] = None]
         /\ pos' = [pos EXCEPT ![p] = 1]
      \/ /\ pos[p] # Chunks
         /\ pc' = pc /\ fd' = fd
         /\ pos' = [pos EXCEPT ![p] = pos[p] + 1]
  BY DEF WriteChunk, WriteUpTo
<1>3. data' \in [Inodes -> [1..Chunks -> Cells]]
  BY <1>0, <1>1 DEF CoreTypes, Cells
<1>4. pos' \in [Procs -> 1..Chunks]
  <2>1. 1 \in 1..Chunks /\ (pos[p] # Chunks => pos[p] + 1 \in 1..Chunks)
    BY <1>0
  <2> QED
    BY <1>2, <2>1 DEF CoreTypes
<1>5. CoreTypes'
  BY <1>1, <1>2, <1>3, <1>4 DEF CoreTypes, Labels
<1>6. Locals'
  BY <1>0, <1>1, <1>2 DEF CoreTypes, Locals
<1>7. \A i \in Inodes, k \in Keys : Refers(i, k)' => Refers(i, k)
  BY <1>1, <1>2 DEF CoreTypes, Refers
<1>8. \A i \in Inodes, k \in Keys : Refers(i, k) =>
        \A n \in 1..Chunks : data'[i][n] \in {k, Gap, Bad}
  <2> SUFFICES ASSUME NEW i \in Inodes, NEW k \in Keys, Refers(i, k),
                      NEW n \in 1..Chunks
               PROVE  data'[i][n] \in {k, Gap, Bad}
    OBVIOUS
  <2>1. CASE i = fd[p] /\ n = pos[p]
    <3>1. Refers(i, key[p])
      BY <2>1 DEF Refers
    <3>2. k = key[p]
      BY <1>0, <3>1 DEF OneOwner
    <3> QED
      BY <1>0, <1>1, <2>1, <3>2 DEF CoreTypes
  <2>2. CASE ~(i = fd[p] /\ n = pos[p])
    <3>1. data'[i][n] = data[i][n]
      BY <1>0, <1>1, <2>2 DEF CoreTypes
    <3> QED
      BY <3>1 DEF OwnText
  <2> QED
    BY <2>1, <2>2
<1>9. OneOwner' /\ OwnText'
  BY <1>7, <1>8, NoNewOwner
<1>10. ReadOwn'
  BY <1>1, <1>2 DEF CoreTypes, ReadOwn
<1>11. Transparent'
  BY <1>1 DEF Transparent
<1> QED
  BY <1>5, <1>6, <1>9, <1>10, <1>11

\* Damage is not text of another key.
LEMMA CorruptInv ==
    ASSUME CacheInv, NEW c \in Keys, Corrupt(c)
    PROVE  CacheInv'
<1> USE CacheConstants DEF CacheInv, local
<1>1. data' \in [Inodes -> [1..Chunks -> Cells]]
  BY DEF Corrupt, CoreTypes, Cells
<1>2. CoreTypes'
  BY <1>1 DEF Corrupt, CoreTypes
<1>3. \A i \in Inodes, k \in Keys : Refers(i, k)' => Refers(i, k)
  BY DEF Corrupt, Refers
<1>4. \A i \in Inodes, n \in 1..Chunks : data'[i][n] \in {data[i][n], Bad}
  BY DEF Corrupt, CoreTypes
<1>5. OneOwner' /\ OwnText'
  BY <1>3, <1>4, NoNewOwner DEF OwnText
<1>6. Locals' /\ ReadOwn' /\ Transparent'
  BY DEF Corrupt, Locals, ReadOwn, Transparent
<1> QED
  BY <1>2, <1>5, <1>6

\* Every step of the program keeps the invariant.
LEMMA NextInv == CacheInv /\ [Next]_vars => CacheInv'
<1> SUFFICES ASSUME CacheInv, [Next]_vars PROVE CacheInv'
  OBVIOUS
<1>1. ASSUME NEW p \in Procs, Step(p) PROVE CacheInv'
  BY <1>1, OpenReadInv, ReadChunkInv, ParseInv, OpenTmpInv, WriteChunkInv,
     ReplaceInv, CleanupInv, ScanInv, EvictStepInv, EvictDoneInv, ReturnInv
     DEF Step
<1>2. ASSUME NEW p \in Procs, Fault(p) PROVE CacheInv'
  BY <1>2, ReadFailsInv, WriteFailsInv, CleanupFailsInv, EvictFailsInv, CrashInv DEF Fault
<1>3. ASSUME NEW p \in Procs, Restart(p) PROVE CacheInv'
  BY <1>3, RestartInv
<1>4. ASSUME NEW p \in Procs, NEW k \in Keys, StartLookup(p, k) PROVE CacheInv'
  BY <1>4, StartLookupInv
<1>5. ASSUME NEW k \in Keys, Corrupt(k) PROVE CacheInv'
  BY <1>5, CorruptInv
<1>6. CASE HourPasses \/ UNCHANGED vars
  <2>1. /\ json' = json /\ tmp' = tmp /\ data' = data /\ pc' = pc
        /\ key' = key /\ pos' = pos /\ fd' = fd /\ rval' = rval
        /\ answer' = answer /\ faults' = faults
    BY <1>6 DEF HourPasses, vars, files, local
  <2>2. CoreTypes' /\ Locals' /\ ReadOwn' /\ Transparent'
    BY <2>1 DEF CacheInv, CoreTypes, Locals, ReadOwn, Transparent
  <2>3. \A i \in Inodes, k \in Keys : Refers(i, k)' => Refers(i, k)
    BY <2>1 DEF Refers
  <2>4. OneOwner' /\ OwnText'
    BY <2>1, <2>3, NoNewOwner DEF CacheInv, OwnText
  <2> QED
    BY <2>2, <2>4 DEF CacheInv
<1> QED
  BY <1>1, <1>2, <1>3, <1>4, <1>5, <1>6 DEF Next

LEMMA CacheSafe == Spec => []CacheInv
  BY InitInv, NextInv, PTL DEF Spec

\* Whatever the interleaving, the crashes and the damage, a lookup hands on
\* the CodeState that extraction of its own key computes, for any number of
\* processes, keys and files.
THEOREM CacheTransparent == Spec => []Transparent
<1>1. CacheInv => Transparent
  BY DEF CacheInv
<1> QED
  BY <1>1, CacheSafe, PTL

-----------------------------------------------------------------------------
(* The cache at rest                                                       *)

\* A process that is not between open and close starts at the first chunk.
Rewound == \A p \in Procs : pc[p] \notin {"read", "write"} => pos[p] = 1

\* Without a fault, each cell of a named file is complete or is still ahead
\* of a writer that has the file open.
CellsSettle ==
    faults = 0 =>
        \A k \in Keys, i \in Inodes : json[k] = i \/ tmp[k] = i =>
            \A n \in 1..Chunks :
                data[i][n] = k \/ \E p \in Procs : pc[p] = "write" /\ fd[p] = i /\ pos[p] <= n

\* Without a fault, a tmp file has a writer that will rename or unlink it.
TmpHasWriter ==
    faults = 0 =>
        \A k \in Keys : tmp[k] # None =>
            \E p \in Procs : key[p] = k /\ pc[p] \in {"write", "replace"}

\* What a lookup has counted at each program point.
Tallied ==
    /\ tally \in [Procs -> SUBSET Counters]
    /\ \A p \in Procs :
          /\ pc[p] \in {"idle", "open", "read", "parse", "crashed"} => tally[p] = {}
          /\ pc[p] \in {"tmpopen", "write", "replace", "cleanup", "scan", "evict"}
                => "miss" \in tally[p] /\ "hit" \notin tally[p]
    /\ StatsAgree

RestInv == Rewound /\ CellsSettle /\ TmpHasWriter /\ Tallied

LEMMA RestInit == Init => RestInv
<1> SUFFICES ASSUME Init PROVE RestInv
  OBVIOUS
<1> USE CacheConstants
<1>1. Rewound /\ TmpHasWriter
  BY DEF Init, Rewound, TmpHasWriter
<1>2. CellsSettle
  BY DEF Init, CellsSettle
<1>3. Tallied
  BY DEF Init, Tallied, StatsAgree
<1> QED
  BY <1>1, <1>2, <1>3 DEF RestInv

\* A step that only takes names away, and no writer from its file.
LEMMA NamesVanish ==
    ASSUME CellsSettle, TmpHasWriter, faults' = faults, data' = data,
           \A k \in Keys : json'[k] \in {json[k], None} /\ tmp'[k] \in {tmp[k], None},
           \A p \in Procs : pc[p] = "write" =>
               pc'[p] = "write" /\ fd'[p] = fd[p] /\ pos'[p] = pos[p],
           \A p \in Procs : pc[p] \in {"write", "replace"} =>
               pc'[p] \in {"write", "replace"} /\ key'[p] = key[p]
    PROVE  CellsSettle' /\ TmpHasWriter'
<1> USE CacheConstants
<1>1. CellsSettle'
  <2> SUFFICES ASSUME faults' = 0, NEW k \in Keys, NEW i \in Inodes,
                      json'[k] = i \/ tmp'[k] = i, NEW n \in 1..Chunks
               PROVE  data'[i][n] = k
                        \/ \E p \in Procs : pc'[p] = "write" /\ fd'[p] = i /\ pos'[p] <= n
    BY DEF CellsSettle
  <2>1. json[k] = i \/ tmp[k] = i
    OBVIOUS
  <2>2. data[i][n] = k \/ \E p \in Procs : pc[p] = "write" /\ fd[p] = i /\ pos[p] <= n
    BY <2>1 DEF CellsSettle
  <2> QED
    BY <2>2
<1>2. TmpHasWriter'
  BY DEF TmpHasWriter
<1> QED
  BY <1>1, <1>2

\* After a fault nothing is claimed of the files.
LEMMA FaultsSettle ==
    ASSUME faults \in Nat, faults' = faults + 1
    PROVE  CellsSettle' /\ TmpHasWriter'
  BY DEF CellsSettle, TmpHasWriter

\* One process moves to label l with the counters C.
LEMMA CountKeeps ==
    ASSUME Tallied, pc \in [Procs -> Labels], NEW p \in Procs, NEW l, NEW C \in SUBSET Counters,
           pc' = [pc EXCEPT ![p] = l], tally' = [tally EXCEPT ![p] = C],
           l \in {"idle", "open", "read", "parse", "crashed"} => C = {},
           l \in {"tmpopen", "write", "replace", "cleanup", "scan", "evict"}
              => "miss" \in C /\ "hit" \notin C,
           l = "done" => C = {"hit"} \/ ("miss" \in C /\ "hit" \notin C)
    PROVE  Tallied'
<1>1. tally' \in [Procs -> SUBSET Counters]
  BY DEF Tallied
<1>2. \A q \in Procs : q # p => pc'[q] = pc[q] /\ tally'[q] = tally[q]
  BY DEF Tallied
<1>3. pc'[p] = l /\ tally'[p] = C
  BY DEF Tallied
<1> QED
  BY <1>1, <1>2, <1>3 DEF Tallied, StatsAgree

\* What the steps between a lookup's start and its end count.
LEMMA LocalNext ==
    ASSUME CacheInv, Rewound, Tallied, [Next]_vars
    PROVE  Rewound' /\ Tallied'
<1> USE CacheConstants DEF Goto, Count, Extract, Recompute
<1>0. /\ pc \in [Procs -> Labels] /\ pos \in [Procs -> 1..Chunks] /\ 1 \in 1..Chunks
      /\ tally \in [Procs -> SUBSET Counters] /\ {"hit", "miss", "invalid", "write_failed"} = Counters
  BY DEF CacheInv, CoreTypes, Tallied, Counters
<1>1. ASSUME NEW p \in Procs, Step(p) PROVE Rewound' /\ Tallied'
  <2> DEFINE t == tally[p]
  <2>0. t \in SUBSET Counters
    BY <1>0
  <2>1. CASE OpenRead(p)
    <3>1. t = {}
      BY <2>1 DEF OpenRead, Tallied
    <3>2. CASE json[key[p]] = None
      <4>1. pc' = [pc EXCEPT ![p] = "tmpopen"] /\ tally' = [tally EXCEPT ![p] = t \cup {"invalid", "miss"}]
            /\ pos' = pos /\ pc[p] = "open"
        BY <2>1, <3>2 DEF OpenRead
      <4>2. Rewound'
        BY <1>0, <4>1 DEF Rewound
      <4> QED
        BY <1>0, <2>0, <3>1, <4>1, <4>2, CountKeeps
    <3>3. CASE json[key[p]] # None
      <4>1. pc' = [pc EXCEPT ![p] = "read"] /\ tally' = tally /\ pos' = pos
        BY <2>1, <3>3 DEF OpenRead
      <4>2. tally' = [tally EXCEPT ![p] = {}]
        BY <1>0, <3>1, <4>1
      <4>3. Rewound'
        BY <1>0, <4>1 DEF Rewound
      <4> QED
        BY <1>0, <4>1, <4>2, <4>3, CountKeeps
    <3> QED
      BY <3>2, <3>3
  <2>2. CASE ReadChunk(p)
    <3>1. pc[p] = "read" /\ tally' = tally /\ t = {}
      BY <2>2 DEF ReadChunk, Tallied
    <3>2. CASE pos[p] = Chunks
      <4>1. pc' = [pc EXCEPT ![p] = "parse"] /\ pos' = [pos EXCEPT ![p] = 1]
            /\ tally' = [tally EXCEPT ![p] = {}]
        BY <1>0, <2>2, <3>1, <3>2 DEF ReadChunk
      <4>2. Rewound'
        BY <1>0, <4>1 DEF Rewound
      <4> QED
        BY <1>0, <4>1, <4>2, CountKeeps
    <3>3. CASE pos[p] # Chunks
      BY <1>0, <2>2, <3>1, <3>3 DEF ReadChunk, Rewound, Tallied, StatsAgree
    <3> QED
      BY <3>2, <3>3
  <2>3. CASE Parse(p)
    <3>1. pc[p] = "parse" /\ t = {} /\ pos' = pos
      BY <2>3 DEF Parse, Tallied
    <3>2. \/ pc' = [pc EXCEPT ![p] = "done"] /\ tally' = [tally EXCEPT ![p] = {"hit"}]
          \/ pc' = [pc EXCEPT ![p] = "tmpopen"] /\ tally' = [tally EXCEPT ![p] = {"invalid", "miss"}]
      BY <2>3, <3>1 DEF Parse
    <3>3. Rewound'
      BY <1>0, <3>1, <3>2 DEF Rewound
    <3> QED
      BY <1>0, <3>2, <3>3, CountKeeps
  <2>4. CASE OpenTmp(p) \/ Cleanup(p) \/ Scan(p) \/ EvictDone(p)
    <3>1. /\ tally' = [tally EXCEPT ![p] = t] /\ pos' = pos
          /\ pc[p] \in {"tmpopen", "cleanup", "scan", "evict"}
      BY <1>0, <2>4 DEF OpenTmp, Cleanup, Scan, EvictDone
    <3>2. \E l \in {"write", "done", "evict"} : pc' = [pc EXCEPT ![p] = l]
      BY <2>4 DEF OpenTmp, Cleanup, Scan, EvictDone
    <3>3. "miss" \in t /\ "hit" \notin t
      BY <3>1 DEF Tallied
    <3>4. Rewound'
      BY <1>0, <3>1, <3>2 DEF Rewound
    <3> QED
      BY <1>0, <2>0, <3>1, <3>2, <3>3, <3>4, CountKeeps
  <2>5. CASE WriteChunk(p)
    <3>1. pc[p] = "write" /\ tally' = tally /\ "miss" \in t /\ "hit" \notin t
      BY <2>5 DEF WriteChunk, WriteUpTo, Tallied
    <3>2. CASE pos[p] = Chunks
      <4>1. pc' = [pc EXCEPT ![p] = "replace"] /\ pos' = [pos EXCEPT ![p] = 1]
            /\ tally' = [tally EXCEPT ![p] = t]
        BY <1>0, <2>5, <3>1, <3>2 DEF WriteChunk, WriteUpTo
      <4>2. Rewound'
        BY <1>0, <4>1 DEF Rewound
      <4> QED
        BY <1>0, <2>0, <3>1, <4>1, <4>2, CountKeeps
    <3>3. CASE pos[p] # Chunks
      BY <1>0, <2>5, <3>1, <3>3 DEF WriteChunk, WriteUpTo, Rewound, Tallied, StatsAgree
    <3> QED
      BY <3>2, <3>3
  <2>6. CASE Replace(p)
    <3>1. /\ pc[p] = "replace" /\ pos' = pos
          /\ \/ pc' = [pc EXCEPT ![p] = "scan"] /\ tally' = tally
             \/ /\ pc' = [pc EXCEPT ![p] = "cleanup"]
                /\ tally' = [tally EXCEPT ![p] = t \cup {"write_failed"}]
      BY <2>6 DEF Replace
    <3>2. "miss" \in t /\ "hit" \notin t /\ tally = [tally EXCEPT ![p] = t]
      BY <1>0, <3>1 DEF Tallied
    <3>3. Rewound'
      BY <1>0, <3>1 DEF Rewound
    <3> QED
      BY <1>0, <2>0, <3>1, <3>2, <3>3, CountKeeps
  <2>7. CASE EvictStep(p)
    BY <2>7 DEF EvictStep, local, Rewound, Tallied, StatsAgree
  <2>8. CASE Return(p)
    <3>1. pc' = [pc EXCEPT ![p] = "idle"] /\ tally' = [tally EXCEPT ![p] = {}] /\ pos' = pos
          /\ pc[p] = "done"
      BY <2>8 DEF Return
    <3>2. Rewound'
      BY <1>0, <3>1 DEF Rewound
    <3> QED
      BY <1>0, <3>1, <3>2, CountKeeps
  <2> QED
    BY <1>1, <2>1, <2>2, <2>3, <2>4, <2>5, <2>6, <2>7, <2>8 DEF Step
<1>2. ASSUME NEW p \in Procs, Fault(p) PROVE Rewound' /\ Tallied'
  <2> DEFINE t == tally[p]
  <2>0. t \in SUBSET Counters
    BY <1>0
  <2>1. CASE ReadFails(p)
    <3>1. pc' = [pc EXCEPT ![p] = "tmpopen"] /\ pos' = [pos EXCEPT ![p] = 1]
          /\ tally' = [tally EXCEPT ![p] = t \cup {"invalid", "miss"}] /\ t = {}
      BY <2>1 DEF ReadFails, Tallied
    <3>2. Rewound'
      BY <1>0, <3>1 DEF Rewound
    <3> QED
      BY <1>0, <3>1, <3>2, CountKeeps
  <2>2. CASE WriteFails(p)
    <3>1. pc' = [pc EXCEPT ![p] = "cleanup"] /\ pos' = [pos EXCEPT ![p] = 1]
          /\ tally' = [tally EXCEPT ![p] = t \cup {"write_failed"}]
          /\ "miss" \in t /\ "hit" \notin t
      BY <2>2 DEF WriteFails, Tallied
    <3>2. Rewound'
      BY <1>0, <3>1 DEF Rewound
    <3> QED
      BY <1>0, <2>0, <3>1, <3>2, CountKeeps
  <2>3. CASE EvictFails(p)
    BY <2>3 DEF EvictFails, local, Rewound, Tallied, StatsAgree
  <2>4. CASE Crash(p)
    <3>1. pc' = [pc EXCEPT ![p] = "crashed"] /\ pos' = [pos EXCEPT ![p] = 1]
          /\ tally' = [tally EXCEPT ![p] = {}]
      BY <2>4 DEF Crash
    <3>2. Rewound'
      BY <1>0, <3>1 DEF Rewound
    <3> QED
      BY <1>0, <3>1, <3>2, CountKeeps
  <2>5. CASE CleanupFails(p)
    <3>1. pc' = [pc EXCEPT ![p] = "done"] /\ pos' = pos /\ tally' = tally
          /\ pc[p] = "cleanup"
      BY <2>5 DEF CleanupFails
    <3>2. Rewound'
      BY <1>0, <3>1 DEF Rewound
    <3> QED
      BY <1>0, <2>0, <3>1, <3>2 DEF Tallied, StatsAgree
  <2> QED
    BY <1>2, <2>1, <2>2, <2>3, <2>4, <2>5 DEF Fault
<1>3. ASSUME NEW p \in Procs, Restart(p) PROVE Rewound' /\ Tallied'
  <2>1. pc[p] = "crashed" /\ pc' = [pc EXCEPT ![p] = "idle"] /\ pos' = pos
        /\ tally' = [tally EXCEPT ![p] = {}]
    BY <1>0, <1>3 DEF Restart, Tallied
  <2>2. Rewound'
    BY <1>0, <2>1 DEF Rewound
  <2> QED
    BY <1>0, <2>1, <2>2, CountKeeps
<1>4. ASSUME NEW p \in Procs, NEW k \in Keys, StartLookup(p, k) PROVE Rewound' /\ Tallied'
  <2>1. pc[p] = "idle" /\ tally[p] = {} /\ pos' = pos
    BY <1>4 DEF StartLookup, Tallied
  <2>2. \/ pc' = [pc EXCEPT ![p] = "tmpopen"] /\ tally' = [tally EXCEPT ![p] = {"miss"}]
        \/ pc' = [pc EXCEPT ![p] = "open"] /\ tally' = [tally EXCEPT ![p] = {}]
    BY <1>0, <1>4, <2>1 DEF StartLookup
  <2>3. Rewound'
    BY <1>0, <2>1, <2>2 DEF Rewound
  <2> QED
    BY <1>0, <2>2, <2>3, CountKeeps
<1>5. CASE (\E k \in Keys : Corrupt(k)) \/ HourPasses \/ UNCHANGED vars
  BY <1>5 DEF Corrupt, HourPasses, vars, local, Rewound, Tallied, StatsAgree
<1> QED
  BY <1>1, <1>2, <1>3, <1>4, <1>5 DEF Next

\* A truncating open: every cell of the file is ahead of the new writer.
LEMMA OpenTmpSettles ==
    ASSUME CacheInv, RestInv, NEW p \in Procs, OpenTmp(p)
    PROVE  CellsSettle' /\ TmpHasWriter'
<1> USE CacheConstants DEF CacheInv, RestInv, TmpName
<1>0. key[p] \in Keys /\ pos[p] = 1
  BY DEF OpenTmp, CoreTypes, Locals, Rewound
<1>1. PICK i \in Inodes :
        /\ tmp[key[p]] = None => Free(i)
        /\ tmp[key[p]] # None => i = tmp[key[p]]
        /\ tmp' = [tmp EXCEPT ![key[p]] = i]
        /\ data' = [data EXCEPT ![i] = EmptyFile]
        /\ fd' = [fd EXCEPT ![p] = i]
  BY DEF OpenTmp
<1>2. /\ json' = json /\ key' = key /\ pos' = pos /\ faults' = faults
      /\ pc[p] = "tmpopen" /\ pc' = [pc EXCEPT ![p] = "write"]
  BY DEF OpenTmp, Goto
<1>3. /\ pc'[p] = "write" /\ fd'[p] = i /\ pos'[p] = 1 /\ key'[p] = key[p]
      /\ \A q \in Procs : q # p => pc'[q] = pc[q] /\ fd'[q] = fd[q] /\ pos'[q] = pos[q]
      /\ \A j \in Inodes : j # i => data'[j] = data[j]
      /\ \A k \in Keys : k # key[p] => tmp'[k] = tmp[k]
  BY <1>0, <1>1, <1>2 DEF CoreTypes
<1>4. CellsSettle'
  <2> SUFFICES ASSUME faults' = 0, NEW k \in Keys, NEW j \in Inodes,
                      json'[k] = j \/ tmp'[k] = j, NEW n \in 1..Chunks
               PROVE  data'[j][n] = k
                        \/ \E q \in Procs : pc'[q] = "write" /\ fd'[q] = j /\ pos'[q] <= n
    BY DEF CellsSettle
  <2>1. CASE j = i
    BY <1>3, <2>1
  <2>2. CASE j # i
    <3>1. json[k] = j \/ tmp[k] = j
      BY <1>0, <1>1, <1>2, <2>2 DEF CoreTypes
    <3>2. data[j][n] = k \/ \E q \in Procs : pc[q] = "write" /\ fd[q] = j /\ pos[q] <= n
      BY <1>2, <3>1 DEF CellsSettle
    <3> QED
      BY <1>2, <1>3, <2>2, <3>2
  <2> QED
    BY <2>1, <2>2
<1>5. TmpHasWriter'
  <2> SUFFICES ASSUME faults' = 0, NEW k \in Keys, tmp'[k] # None
               PROVE  \E q \in Procs : key'[q] = k /\ pc'[q] \in {"write", "replace"}
    BY DEF TmpHasWriter
  <2>1. CASE k = key[p]
    BY <1>3, <2>1
  <2>2. CASE k # key[p]
    <3>1. PICK q \in Procs : key[q] = k /\ pc[q] \in {"write", "replace"}
      BY <1>2, <1>3, <2>2 DEF TmpHasWriter
    <3> QED
      BY <1>2, <1>3, <2>2, <3>1
  <2> QED
    BY <2>1, <2>2
<1> QED
  BY <1>4, <1>5

\* A write completes the cell it leaves behind.
LEMMA WriteChunkSettles ==
    ASSUME CacheInv, RestInv, NEW p \in Procs, WriteChunk(p)
    PROVE  CellsSettle' /\ TmpHasWriter'
<1> USE CacheConstants DEF CacheInv, RestInv, Goto
<1>0. /\ key[p] \in Keys /\ fd[p] \in Inodes /\ pos[p] \in 1..Chunks
      /\ answer[p] = key[p] /\ pc[p] = "write"
  BY DEF WriteChunk, WriteUpTo, CoreTypes, Locals, Transparent
<1>1. /\ data' = [data EXCEPT ![fd[p]][pos[p]] = key[p]]
      /\ json' = json /\ tmp' = tmp /\ key' = key /\ faults' = faults
  BY <1>0 DEF WriteChunk, WriteUpTo
<1>2. \/ /\ pos[p] = Chunks
         /\ pc' = [pc EXCEPT ![p] = "replace"]
         /\ fd' = [fd EXCEPT ![p] = None]
         /\ pos' = [pos EXCEPT ![p] = 1]
      \/ /\ pos[p] # Chunks
         /\ pc' = pc /\ fd' = fd
         /\ pos' = [pos EXCEPT ![p] = pos[p] + 1]
  BY DEF WriteChunk, WriteUpTo
<1>3. /\ \A q \in Procs : q # p => pc'[q] = pc[q] /\ fd'[q] = fd[q] /\ pos'[q] = pos[q]
      /\ pc'[p] \in {"write", "replace"}
      /\ pos[p] # Chunks => pc'[p] = "write" /\ fd'[p] = fd[p] /\ pos'[p] = pos[p] + 1
  BY <1>0, <1>2 DEF CoreTypes
<1>4. CellsSettle'
  <2> SUFFICES ASSUME faults' = 0, NEW k \in Keys, NEW j \in Inodes,
                      json'[k] = j \/ tmp'[k] = j, NEW n \in 1..Chunks
               PROVE  data'[j][n] = k
                        \/ \E q \in Procs : pc'[q] = "write" /\ fd'[q] = j /\ pos'[q] <= n
    BY DEF CellsSettle
  <2>1. data[j][n] = k \/ \E q \in Procs : pc[q] = "write" /\ fd[q] = j /\ pos[q] <= n
    BY <1>1 DEF CellsSettle
  <2>2. CASE j = fd[p] /\ n = pos[p]
    <3>1. Refers(j, k) /\ Refers(j, key[p])
      BY <1>1, <2>2 DEF Refers
    <3>2. k = key[p]
      BY <1>0, <3>1 DEF OneOwner
    <3> QED
      BY <1>0, <1>1, <2>2, <3>2 DEF CoreTypes
  <2>3. CASE ~(j = fd[p] /\ n = pos[p])
    <3>1. data'[j][n] = data[j][n]
      BY <1>0, <1>1, <2>3 DEF CoreTypes
    <3>2. ASSUME NEW q \in Procs, pc[q] = "write", fd[q] = j, pos[q] <= n
          PROVE  pc'[q] = "write" /\ fd'[q] = j /\ pos'[q] <= n
      <4>1. CASE q # p
        BY <1>3, <3>2, <4>1
      <4>2. CASE q = p
        <5>1. pos[p] < n /\ n <= Chunks /\ n \in Nat
          BY <1>0, <2>3, <3>2, <4>2
        <5> QED
          BY <1>0, <1>3, <3>2, <4>2, <5>1
      <4> QED
        BY <4>1, <4>2
    <3> QED
      BY <2>1, <3>1, <3>2
  <2> QED
    BY <2>2, <2>3
<1>5. TmpHasWriter'
  BY <1>0, <1>1, <1>3 DEF TmpHasWriter
<1> QED
  BY <1>4, <1>5

\* The rename moves a name, and the file behind it keeps its writers.
LEMMA ReplaceSettles ==
    ASSUME CacheInv, RestInv, NEW p \in Procs, Replace(p)
    PROVE  CellsSettle' /\ TmpHasWriter'
<1> USE CacheConstants DEF CacheInv, RestInv, Goto, TmpName
<1>0. key[p] \in Keys /\ pc[p] = "replace"
  BY DEF Replace, CoreTypes, Locals
<1>1. /\ data' = data /\ key' = key /\ fd' = fd /\ pos' = pos /\ faults' = faults
      /\ \A q \in Procs : q # p => pc'[q] = pc[q]
  BY DEF Replace, CoreTypes
<1>2. /\ tmp'[key[p]] = None /\ json'[key[p]] \in {json[key[p]], tmp[key[p]]}
      /\ \A k \in Keys : k # key[p] => json'[k] = json[k] /\ tmp'[k] = tmp[k]
  BY <1>0 DEF Replace, CoreTypes
<1>3. CellsSettle'
  <2> SUFFICES ASSUME faults' = 0, NEW k \in Keys, NEW j \in Inodes,
                      json'[k] = j \/ tmp'[k] = j, NEW n \in 1..Chunks
               PROVE  data'[j][n] = k
                        \/ \E q \in Procs : pc'[q] = "write" /\ fd'[q] = j /\ pos'[q] <= n
    BY DEF CellsSettle
  <2>1. json[k] = j \/ tmp[k] = j
    BY <1>2
  <2>2. data[j][n] = k \/ \E q \in Procs : pc[q] = "write" /\ fd[q] = j /\ pos[q] <= n
    BY <1>1, <2>1 DEF CellsSettle
  <2> QED
    BY <1>0, <1>1, <2>2
<1>4. TmpHasWriter'
  <2> SUFFICES ASSUME faults' = 0, NEW k \in Keys, tmp'[k] # None
               PROVE  \E q \in Procs : key'[q] = k /\ pc'[q] \in {"write", "replace"}
    BY DEF TmpHasWriter
  <2>1. k # key[p]
    BY <1>2
  <2>2. PICK q \in Procs : key[q] = k /\ pc[q] \in {"write", "replace"}
    BY <1>1, <1>2, <2>1 DEF TmpHasWriter
  <2> QED
    BY <1>1, <2>1, <2>2
<1> QED
  BY <1>3, <1>4

LEMMA FilesNext ==
    ASSUME CacheInv, RestInv, [Next]_vars
    PROVE  CellsSettle' /\ TmpHasWriter'
<1> USE CacheConstants DEF CacheInv, RestInv
<1>0. faults \in Nat /\ pc \in [Procs -> Labels] /\ key \in [Procs -> Keys \cup {None}]
      /\ fd \in [Procs -> Inodes \cup {None}] /\ pos \in [Procs -> 1..Chunks]
  BY DEF CoreTypes
<1>1. ASSUME NEW p \in Procs, \/ OpenRead(p) \/ ReadChunk(p) \/ Parse(p) \/ Scan(p)
                              \/ EvictDone(p) \/ Return(p) \/ Restart(p)
                              \/ \E k \in Keys : StartLookup(p, k)
      PROVE  CellsSettle' /\ TmpHasWriter'
  <2>1. json' = json /\ tmp' = tmp /\ data' = data /\ faults' = faults
    BY <1>1 DEF OpenRead, ReadChunk, Parse, Scan, EvictDone, Return, Restart, StartLookup, files
  <2>2. pc[p] \notin {"write", "replace"}
    BY <1>1 DEF OpenRead, ReadChunk, Parse, Scan, EvictDone, Return, Restart, StartLookup
  <2>3. ASSUME NEW q \in Procs, q # p
        PROVE  pc'[q] = pc[q] /\ fd'[q] = fd[q] /\ pos'[q] = pos[q] /\ key'[q] = key[q]
    <3>1. CASE OpenRead(p) \/ ReadChunk(p) \/ Parse(p) \/ Scan(p)
      BY <1>0, <2>3, <3>1 DEF OpenRead, ReadChunk, Parse, Scan, Goto, Recompute
    <3>2. CASE EvictDone(p) \/ Return(p) \/ Restart(p) \/ \E k \in Keys : StartLookup(p, k)
      BY <1>0, <2>3, <3>2 DEF EvictDone, Return, Restart, StartLookup, Goto
    <3> QED
      BY <1>1, <3>1, <3>2
  <2> QED
    BY <2>1, <2>2, <2>3, NamesVanish
<1>2. ASSUME NEW p \in Procs, Cleanup(p) \/ EvictStep(p)
      PROVE  CellsSettle' /\ TmpHasWriter'
  <2>1. /\ data' = data /\ faults' = faults /\ pos' = pos /\ fd' = fd /\ key' = key
        /\ \A k \in Keys : json'[k] \in {json[k], None} /\ tmp'[k] \in {tmp[k], None}
    BY <1>2 DEF Cleanup, EvictStep, local, CoreTypes
  <2>2. \A q \in Procs : pc[q] \in {"write", "replace"} => pc'[q] = pc[q]
    BY <1>0, <1>2 DEF Cleanup, EvictStep, local, Goto
  <2> QED
    BY <2>1, <2>2, NamesVanish
<1>3. ASSUME NEW p \in Procs, Fault(p) PROVE CellsSettle' /\ TmpHasWriter'
  <2>1. faults' = faults + 1
    BY <1>3 DEF Fault, ReadFails, WriteFails, CleanupFails, EvictFails, Crash
  <2> QED
    BY <1>0, <2>1, FaultsSettle
<1>4. ASSUME NEW k \in Keys, Corrupt(k) PROVE CellsSettle' /\ TmpHasWriter'
  <2>1. faults' = faults + 1
    BY <1>4 DEF Corrupt
  <2> QED
    BY <1>0, <2>1, FaultsSettle
<1>5. CASE HourPasses \/ UNCHANGED vars
  <2>1. /\ json' = json /\ tmp' = tmp /\ data' = data /\ pc' = pc
        /\ key' = key /\ pos' = pos /\ fd' = fd /\ faults' = faults
    BY <1>5 DEF HourPasses, vars, files, local
  <2> QED
    BY <2>1, NamesVanish
<1> QED
  BY <1>1, <1>2, <1>3, <1>4, <1>5, OpenTmpSettles, WriteChunkSettles, ReplaceSettles
     DEF Next, Step

LEMMA RestSafe == Spec => []RestInv
<1>1. CacheInv /\ RestInv /\ [Next]_vars => RestInv'
  BY LocalNext, FilesNext DEF RestInv
<1> QED
  BY <1>1, CacheSafe, RestInit, PTL DEF Spec

\* However many writers of one key truncate, overwrite and rename one shared
\* tmp file, an entry that none of them has open is complete, as long as there
\* is no crash and no I/O error.
THEOREM EntriesComeToRestWhole == Spec => []NoTornAtRest
<1>1. CacheInv /\ RestInv => NoTornAtRest
  <2> SUFFICES ASSUME CacheInv, RestInv, faults = 0, NEW k \in Keys, json[k] # None,
                      ~Writing(json[k]), NEW n \in 1..Chunks
               PROVE  data[json[k]][n] = k
    BY DEF NoTornAtRest
  <2>1. json[k] \in Inodes
    BY DEF CacheInv, CoreTypes
  <2> QED
    BY <2>1 DEF RestInv, CellsSettle, Writing
<1> QED
  BY <1>1, CacheSafe, RestSafe, PTL

\* Without a fault no tmp file outlives the lookups, for any number of them.
THEOREM NoTmpSurvives == Spec => []NoTmpAtRest
<1>1. RestInv => NoTmpAtRest
  BY DEF RestInv, TmpHasWriter, NoTmpAtRest
<1> QED
  BY <1>1, RestSafe, PTL

\* The counters of CacheStats add up for every lookup, faults included.
THEOREM StatsAddUp == Spec => []StatsAgree
<1>1. RestInv => StatsAgree
  BY DEF RestInv, Tallied
<1> QED
  BY <1>1, RestSafe, PTL

-----------------------------------------------------------------------------
(* The directory and the eviction records                                  *)

\* A file never has both names of its key.
NamesApart == \A k \in Keys : json[k] # None => json[k] # tmp[k]

\* A sequence of files in which none occurs twice.
Once(o) == o \in Seq(Inodes) /\ \A m, n \in 1..Len(o) : o[m] = o[n] => m = n

Occurs(o, i) == \E n \in 1..Len(o) : o[n] = i

\* Removing one place of a sequence.
LEMMA RemovedAt ==
    ASSUME NEW o \in Seq(Inodes), NEW m \in 1..Len(o)
    PROVE  /\ RemoveAt(o, m) \in Seq(Inodes)
           /\ Len(RemoveAt(o, m)) = Len(o) - 1
           /\ \A n \in 1..(Len(o) - 1) : RemoveAt(o, m)[n] = IF n < m THEN o[n] ELSE o[n + 1]
<1> DEFINE a == SubSeq(o, 1, m - 1)
           b == SubSeq(o, m + 1, Len(o))
<1>0. Len(o) \in Nat /\ m \in Nat /\ \A n \in 1..Len(o) : o[n] \in Inodes
  OBVIOUS
<1>1. /\ a \in Seq(Inodes) /\ Len(a) = m - 1
      /\ \A n \in 1..(m - 1) : a[n] = o[n]
  BY <1>0, SubSeqProperties
<1>2. /\ b \in Seq(Inodes) /\ Len(b) = Len(o) - m
      /\ \A n \in 1..(Len(o) - m) : b[n] = o[m + n]
  <2>1. \A n \in (m + 1)..Len(o) : o[n] \in Inodes
    BY <1>0
  <2>2. /\ b \in Seq(Inodes)
        /\ Len(b) = IF m + 1 <= Len(o) THEN Len(o) - (m + 1) + 1 ELSE 0
        /\ \A n \in 1..(Len(o) - (m + 1) + 1) : b[n] = o[m + 1 + n - 1]
    BY <1>0, <2>1, SubSeqProperties
  <2>3. \A n \in 1..(Len(o) - m) : m + 1 + n - 1 = m + n
    BY <1>0
  <2> QED
    BY <1>0, <2>2, <2>3
<1> HIDE DEF a, b
<1> DEFINE c == a \o b
<1>3. /\ c \in Seq(Inodes) /\ Len(c) = Len(a) + Len(b)
      /\ \A n \in 1..(Len(a) + Len(b)) : c[n] = IF n <= Len(a) THEN a[n] ELSE b[n - Len(a)]
  BY <1>1, <1>2, ConcatProperties
<1>4. RemoveAt(o, m) = c
  BY DEF RemoveAt, a, b
<1> HIDE DEF c
<1>5. ASSUME NEW n \in 1..(Len(o) - 1)
      PROVE  c[n] = IF n < m THEN o[n] ELSE o[n + 1]
  <2>0. n \in Nat /\ n \in 1..(Len(a) + Len(b))
    BY <1>0, <1>1, <1>2
  <2>1. CASE n < m
    <3>1. n <= Len(a) /\ n \in 1..(m - 1)
      BY <1>0, <1>1, <2>0, <2>1
    <3>2. c[n] = a[n] /\ a[n] = o[n]
      BY <1>1, <1>3, <2>0, <3>1
    <3> QED
      BY <2>1, <3>2
  <2>2. CASE ~(n < m)
    <3>1. n - (m - 1) \in 1..(Len(o) - m) /\ m + (n - (m - 1)) = n + 1
      BY <1>0, <2>0, <2>2
    <3>2. c[n] = b[n - (m - 1)]
      BY <1>0, <1>1, <1>3, <2>0, <2>2
    <3>3. b[n - (m - 1)] = o[n + 1]
      BY <1>2, <3>1
    <3> QED
      BY <2>2, <3>2, <3>3
  <2> QED
    BY <2>1, <2>2
<1>6. Len(c) = Len(o) - 1
  BY <1>0, <1>1, <1>2, <1>3
<1> QED
  BY <1>3, <1>4, <1>5, <1>6

\* Forgetting a file leaves every other one.
LEMMA Forgotten ==
    ASSUME NEW o, Once(o), NEW i
    PROVE  /\ Once(Forget(o, i))
           /\ \A x : Occurs(Forget(o, i), x) <=> x # i /\ Occurs(o, x)
<1>0. o \in Seq(Inodes) /\ Len(o) \in Nat
  BY DEF Once
<1>1. CASE ~Occurs(o, i)
  BY <1>1 DEF Forget, Occurs, Once
<1>2. CASE Occurs(o, i)
  <2> DEFINE m == Place(o, i)
             f == RemoveAt(o, m)
  <2>1. m \in 1..Len(o) /\ o[m] = i
    BY <1>2 DEF Occurs, Place
  <2>2. Forget(o, i) = f
    BY <1>2 DEF Forget, Occurs
  <2>3. /\ f \in Seq(Inodes) /\ Len(f) = Len(o) - 1
        /\ \A n \in 1..(Len(o) - 1) : f[n] = IF n < m THEN o[n] ELSE o[n + 1]
    BY <1>0, <2>1, RemovedAt
  <2> HIDE DEF f, m
  <2>4. ASSUME NEW n \in 1..Len(f)
        PROVE  \E c \in 1..Len(o) : c # m /\ f[n] = o[c] /\ c = IF n < m THEN n ELSE n + 1
    BY <1>0, <2>1, <2>3
  <2>5. ASSUME NEW c \in 1..Len(o), c # m
        PROVE  \E n \in 1..Len(f) : f[n] = o[c]
    <3>1. CASE c < m
      <4>1. c \in 1..(Len(o) - 1)
        BY <1>0, <2>1, <3>1
      <4> QED
        BY <2>3, <3>1, <4>1
    <3>2. CASE c > m
      <4>1. c - 1 \in 1..(Len(o) - 1) /\ ~(c - 1 < m) /\ c - 1 + 1 = c
        BY <1>0, <2>1, <3>2
      <4> QED
        BY <2>3, <4>1
    <3> QED
      BY <1>0, <2>1, <2>5, <3>1, <3>2
  <2>6. Once(f)
    <3> SUFFICES ASSUME NEW n1 \in 1..Len(f), NEW n2 \in 1..Len(f), f[n1] = f[n2]
                 PROVE  n1 = n2
      BY <2>3 DEF Once
    <3>1. PICK c1 \in 1..Len(o) : f[n1] = o[c1] /\ c1 = IF n1 < m THEN n1 ELSE n1 + 1
      BY <2>4
    <3>2. PICK c2 \in 1..Len(o) : f[n2] = o[c2] /\ c2 = IF n2 < m THEN n2 ELSE n2 + 1
      BY <2>4
    <3>3. c1 = c2
      BY <3>1, <3>2 DEF Once
    <3> QED
      BY <1>0, <2>1, <2>3, <3>1, <3>2, <3>3
  <2>7. ASSUME NEW x PROVE Occurs(f, x) <=> x # i /\ Occurs(o, x)
    <3>1. ASSUME Occurs(f, x) PROVE x # i /\ Occurs(o, x)
      BY <2>1, <2>4, <3>1 DEF Occurs, Once
    <3>2. ASSUME x # i, Occurs(o, x) PROVE Occurs(f, x)
      BY <2>1, <2>5, <3>2 DEF Occurs
    <3> QED
      BY <3>1, <3>2
  <2> QED
    BY <2>2, <2>6, <2>7
<1> QED
  BY <1>1, <1>2

\* Touching a file makes it the last one.
LEMMA Touched ==
    ASSUME NEW o, Once(o), NEW i \in Inodes
    PROVE  /\ Once(Touch(o, i))
           /\ \A x : Occurs(Touch(o, i), x) <=> x = i \/ Occurs(o, x)
<1> DEFINE f == Forget(o, i)
           t == Append(f, i)
<1>1. /\ Once(f)
      /\ \A x : Occurs(f, x) <=> x # i /\ Occurs(o, x)
  BY Forgotten
<1>2. f \in Seq(Inodes) /\ Len(f) \in Nat
  BY <1>1 DEF Once
<1> HIDE DEF f
<1>3. /\ t \in Seq(Inodes) /\ Len(t) = Len(f) + 1 /\ t[Len(f) + 1] = i
      /\ \A n \in 1..Len(f) : t[n] = f[n]
  BY <1>2, AppendProperties
<1>4. Touch(o, i) = t
  BY DEF Touch, f
<1> HIDE DEF t
<1>5. Once(t)
  <2> SUFFICES ASSUME NEW m \in 1..Len(t), NEW n \in 1..Len(t), t[m] = t[n]
               PROVE  m = n
    BY <1>3 DEF Once
  <2>1. \A c \in 1..Len(t) : c \in 1..Len(f) \/ c = Len(f) + 1
    BY <1>2, <1>3
  <2>2. \A c \in 1..Len(f) : f[c] # i
    BY <1>1 DEF Occurs
  <2> QED
    BY <1>1, <1>3, <2>1, <2>2 DEF Once
<1>6. ASSUME NEW x PROVE Occurs(t, x) <=> x = i \/ Occurs(f, x)
  <2>1. \A c : c \in 1..Len(t) <=> c \in 1..Len(f) \/ c = Len(f) + 1
    BY <1>2, <1>3
  <2> QED
    BY <1>3, <2>1 DEF Occurs
<1> QED
  BY <1>1, <1>4, <1>5, <1>6

\* There is an oldest file among the records.
LEMMA OldestIsThere ==
    ASSUME NEW R, DOMAIN R # {}, \A q \in DOMAIN R : R[q].mtime \in Nat
    PROVE  Oldest(R) \in DOMAIN R
<1> DEFINE T == {R[q].mtime : q \in DOMAIN R}
<1>1. T \subseteq Nat /\ T # {}
  OBVIOUS
<1> HIDE DEF T
<1>2. \E x \in T : \A y \in T : ~(<<y, x>> \in OpToRel(<, Nat))
  BY <1>1, NatLessThanWellFounded, WFMin
<1>3. PICK x \in T : \A y \in T : ~(y < x)
  BY <1>1, <1>2 DEF OpToRel
<1>4. PICK q \in DOMAIN R : R[q].mtime = x
  BY DEF T
<1>5. \A r \in DOMAIN R : R[q].mtime <= R[r].mtime
  BY <1>1, <1>3, <1>4 DEF T
<1> QED
  BY <1>5 DEF Oldest

LEMMA Sizes == \A i : Size(i) \in 0..Chunks
<1> SUFFICES ASSUME NEW i PROVE Size(i) \in 0..Chunks
  OBVIOUS
<1> DEFINE S == {n \in 1..Chunks : \E m \in n..Chunks : data[i][m] # Gap}
<1>1. Chunks \in Nat
  BY CacheConstants
<1>2. IsFiniteSet(1..Chunks) /\ Cardinality(1..Chunks) = Chunks
  BY <1>1, FS_Interval, CacheConstants
<1>3. S \in SUBSET (1..Chunks)
  OBVIOUS
<1> HIDE DEF S
<1>4. IsFiniteSet(S) /\ Cardinality(S) <= Chunks
  BY <1>2, <1>3, FS_Subset
<1>5. Cardinality(S) \in Nat
  BY <1>4, FS_CardinalityType
<1> QED
  BY <1>1, <1>4, <1>5 DEF Size, S

\* The blocks of a set of records are finitely many.
LEMMA BlocksFinite ==
    /\ IsFiniteSet(Paths)
    /\ \A R : DOMAIN R \subseteq Paths => IsFiniteSet(Blocks(R)) /\ SumSize(R) \in Nat
<1>1. IsFiniteSet(Paths)
  <2>1. IsFiniteSet({"json", "tmp"})
    BY FS_Singleton, FS_AddElement, IsFiniteSet({"json"} \cup {"tmp"})
  <2> QED
    BY <2>1, FiniteSystem, FS_Product DEF Paths
<1>2. ASSUME NEW R, DOMAIN R \subseteq Paths
      PROVE  IsFiniteSet(Blocks(R)) /\ SumSize(R) \in Nat
  <2>1. IsFiniteSet(1..Chunks)
    BY CacheConstants, FS_Interval
  <2>2. IsFiniteSet(Paths \X (1..Chunks))
    BY <1>1, <2>1, FS_Product
  <2>3. Blocks(R) \in SUBSET (Paths \X (1..Chunks))
    BY <1>2 DEF Blocks
  <2>4. IsFiniteSet(Blocks(R))
    BY <2>2, <2>3, FS_Subset
  <2> QED
    BY <2>4, FS_CardinalityType DEF SumSize
<1> QED
  BY <1>1, <1>2

StaleAreThere == stale \in SUBSET {k \in Keys : tmp[k] # None}

DirInv == NamesApart /\ ListedOnce /\ StaleAreThere /\ EvictTypes

\* Every file has one name.
LEMMA OneName ==
    ASSUME CacheInv, NamesApart, NEW k \in Keys, NEW l \in Keys
    PROVE  /\ json[k] # None /\ json[k] = json[l] => k = l
           /\ tmp[k] # None /\ tmp[k] = tmp[l] => k = l
           /\ json[k] # None => json[k] # tmp[l]
<1>1. \A i \in Inodes : Refers(i, k) /\ Refers(i, l) => k = l
  BY DEF CacheInv, OneOwner
<1>2. /\ json[k] # None => json[k] \in Inodes
      /\ tmp[k] # None => tmp[k] \in Inodes
  BY DEF CacheInv, CoreTypes
<1> QED
  BY <1>1, <1>2 DEF Refers, NamesApart

\* A name goes, and its file with it.
LEMMA NameGoes ==
    ASSUME CacheInv, DirInv, NEW k \in Keys,
           \/ /\ json' = [json EXCEPT ![k] = None] /\ tmp' = tmp
              /\ order' = Forget(order, json[k])
           \/ /\ tmp' = [tmp EXCEPT ![k] = None] /\ json' = json
              /\ order' = Forget(order, tmp[k])
    PROVE  NamesApart' /\ ListedOnce'
<1> USE CacheConstants
<1>0. /\ json \in [Keys -> Inodes \cup {None}] /\ tmp \in [Keys -> Inodes \cup {None}]
      /\ NamesApart /\ Once(order)
      /\ \A i \in Inodes : Linked(i) <=> Occurs(order, i)
  BY DEF CacheInv, CoreTypes, DirInv, ListedOnce, Once, Occurs
<1>1. NamesApart'
  BY <1>0 DEF NamesApart
<1>2. CASE json' = [json EXCEPT ![k] = None] /\ tmp' = tmp /\ order' = Forget(order, json[k])
  <2>1. Once(order') /\ \A i : Occurs(order', i) <=> i # json[k] /\ Occurs(order, i)
    BY <1>0, <1>2, Forgotten
  <2>2. \A i \in Inodes : Linked(i)' <=> Linked(i) /\ i # json[k]
    BY <1>0, <1>2, OneName DEF Linked
  <2> QED
    BY <1>0, <1>1, <2>1, <2>2 DEF ListedOnce, Once, Occurs
<1>3. CASE tmp' = [tmp EXCEPT ![k] = None] /\ json' = json /\ order' = Forget(order, tmp[k])
  <2>1. Once(order') /\ \A i : Occurs(order', i) <=> i # tmp[k] /\ Occurs(order, i)
    BY <1>0, <1>3, Forgotten
  <2>2. \A i \in Inodes : Linked(i)' <=> Linked(i) /\ i # tmp[k]
    BY <1>0, <1>3, OneName DEF Linked
  <2> QED
    BY <1>0, <1>1, <2>1, <2>2 DEF ListedOnce, Once, Occurs
<1> QED
  BY <1>2, <1>3

\* The records of a walk have their types.
LEMMA RecordTypes ==
    ASSUME CacheInv, DirInv
    PROVE  /\ DOMAIN Records \subseteq Paths
           /\ Records \in [DOMAIN Records -> [mtime : Nat, size : 0..Chunks]]
<1> USE CacheConstants
<1>1. DOMAIN Records = Counted /\ Counted \subseteq Paths
  BY DEF Records, Counted
<1>2. ASSUME NEW q \in Counted PROVE Place(order, FileOf(q)) \in Nat
  <2>1. q[1] \in {"json", "tmp"} /\ q[2] \in Keys
    BY DEF Counted, Paths
  <2>2. FileOf(q) \in Inodes /\ Linked(FileOf(q))
    BY <2>1 DEF Counted, FileOf, Linked, DirInv, StaleAreThere, CacheInv, CoreTypes
  <2>3. Len(order) \in Nat /\ \E n \in 1..Len(order) : order[n] = FileOf(q)
    BY <2>2 DEF DirInv, ListedOnce
  <2>4. Place(order, FileOf(q)) \in 1..Len(order)
    BY <2>3 DEF Place
  <2> QED
    BY <2>3, <2>4
<1> QED
  BY <1>1, <1>2, Sizes DEF Records

\* What a step on the records of p leaves.
LEMMA RecordsKeep ==
    ASSUME EvictTypes, NEW p \in Procs, NEW R, NEW t \in Int,
           DOMAIN R \subseteq Paths, R \in [DOMAIN R -> [mtime : Nat, size : 0..Chunks]],
           \/ recs' = [recs EXCEPT ![p] = R] \/ recs' = recs,
           \/ total' = [total EXCEPT ![p] = t] \/ total' = total
    PROVE  EvictTypes'
  BY DEF EvictTypes

LEMMA EmptyRecords ==
    /\ DOMAIN <<>> \subseteq Paths
    /\ <<>> \in [DOMAIN <<>> -> [mtime : Nat, size : 0..Chunks]]
  OBVIOUS

LEMMA DirInit == Init => DirInv
<1> SUFFICES ASSUME Init PROVE DirInv
  OBVIOUS
<1> USE CacheConstants
<1>1. NamesApart /\ StaleAreThere
  BY DEF Init, NamesApart, StaleAreThere
<1>2. ListedOnce
  <2>1. order \in Seq(Inodes) /\ Len(order) = 0
    BY DEF Init
  <2>2. \A i \in Inodes : ~Linked(i)
    BY DEF Init, Linked
  <2> QED
    BY <2>1, <2>2 DEF ListedOnce
<1>3. EvictTypes
  <2>1. DOMAIN recs = Procs /\ \A p \in Procs : recs[p] = <<>>
    BY DEF Init
  <2>2. total \in [Procs -> Int]
    BY DEF Init
  <2> QED
    BY <2>1, <2>2, EmptyRecords DEF EvictTypes
<1> QED
  BY <1>1, <1>2, <1>3 DEF DirInv

\* A writer's file is the youngest from then on.
LEMMA OpenTmpDir ==
    ASSUME CacheInv, DirInv, NEW p \in Procs, OpenTmp(p)
    PROVE  DirInv'
<1> USE CacheConstants DEF DirInv, TmpName
<1>0. key[p] \in Keys
  BY DEF OpenTmp, CacheInv, CoreTypes, Locals
<1>1. PICK i \in Inodes :
        /\ tmp[key[p]] = None => Free(i)
        /\ tmp[key[p]] # None => i = tmp[key[p]]
        /\ tmp' = [tmp EXCEPT ![key[p]] = i]
        /\ order' = Touch(order, i)
  BY DEF OpenTmp
<1>2. json' = json /\ stale' = stale \ {key[p]} /\ recs' = recs /\ total' = total
  BY DEF OpenTmp, evict
<1>3. tmp \in [Keys -> Inodes \cup {None}] /\ json \in [Keys -> Inodes \cup {None}]
  BY DEF CacheInv, CoreTypes
<1>4. \A k \in Keys : json[k] # i
  BY <1>0, <1>1, <1>3, OneName DEF Free, Linked
<1>5. NamesApart'
  BY <1>0, <1>1, <1>2, <1>3, <1>4 DEF NamesApart
<1>6. StaleAreThere'
  BY <1>0, <1>1, <1>2, <1>3 DEF StaleAreThere
<1>7. ListedOnce'
  <2>1. Once(order) /\ \A j \in Inodes : Linked(j) <=> Occurs(order, j)
    BY DEF ListedOnce, Once, Occurs
  <2>2. Once(order') /\ \A x : Occurs(order', x) <=> x = i \/ Occurs(order, x)
    BY <1>1, <2>1, Touched
  <2>3. \A j \in Inodes : Linked(j)' <=> j = i \/ Linked(j)
    BY <1>0, <1>1, <1>2, <1>3 DEF Linked
  <2> QED
    BY <2>1, <2>2, <2>3 DEF ListedOnce, Once, Occurs
<1>8. EvictTypes'
  BY <1>2 DEF EvictTypes
<1> QED
  BY <1>5, <1>6, <1>7, <1>8

LEMMA WriteChunkDir ==
    ASSUME CacheInv, DirInv, NEW p \in Procs, WriteChunk(p)
    PROVE  DirInv'
<1> USE CacheConstants DEF DirInv
<1>0. fd[p] \in Inodes
  BY DEF WriteChunk, WriteUpTo, CacheInv, CoreTypes, Locals
<1>1. /\ json' = json /\ tmp' = tmp /\ recs' = recs /\ total' = total
      /\ stale' \subseteq stale
      /\ order' = IF Linked(fd[p]) THEN Touch(order, fd[p]) ELSE order
  BY DEF WriteChunk, WriteUpTo, evict
<1>2. NamesApart' /\ StaleAreThere' /\ EvictTypes'
  BY <1>1 DEF NamesApart, StaleAreThere, EvictTypes
<1>3. ListedOnce'
  <2>1. Once(order) /\ \A j \in Inodes : Linked(j) <=> Occurs(order, j)
    BY DEF ListedOnce, Once, Occurs
  <2>2. Once(order') /\ \A x : Occurs(order', x) <=> Occurs(order, x)
    BY <1>0, <1>1, <2>1, Touched
  <2>3. \A j \in Inodes : Linked(j)' <=> Linked(j)
    BY <1>1 DEF Linked
  <2> QED
    BY <2>1, <2>2, <2>3 DEF ListedOnce, Once, Occurs
<1> QED
  BY <1>2, <1>3

\* The rename takes the old entry's only name.
LEMMA ReplaceDir ==
    ASSUME CacheInv, DirInv, NEW p \in Procs, Replace(p)
    PROVE  DirInv'
<1> USE CacheConstants DEF DirInv, TmpName
<1> DEFINE k == key[p]
<1>0. /\ k \in Keys /\ recs' = recs /\ total' = total
      /\ tmp \in [Keys -> Inodes \cup {None}] /\ json \in [Keys -> Inodes \cup {None}]
  BY DEF Replace, CacheInv, CoreTypes, Locals, evict
<1> HIDE DEF k
<1>1. EvictTypes'
  BY <1>0 DEF EvictTypes
<1>2. CASE tmp[k] # None
  <2>1. /\ json' = [json EXCEPT ![k] = tmp[k]] /\ tmp' = [tmp EXCEPT ![k] = None]
        /\ order' = Forget(order, json[k]) /\ stale' = stale \ {k}
    BY <1>2 DEF Replace, k
  <2>2. NamesApart' /\ StaleAreThere'
    BY <1>0, <2>1 DEF NamesApart, StaleAreThere
  <2>3. Once(order) /\ \A i \in Inodes : Linked(i) <=> Occurs(order, i)
    BY DEF ListedOnce, Once, Occurs
  <2>4. Once(order') /\ \A i : Occurs(order', i) <=> i # json[k] /\ Occurs(order, i)
    BY <2>1, <2>3, Forgotten
  <2>5. \A i \in Inodes : Linked(i)' <=> Linked(i) /\ i # json[k]
    <3> SUFFICES ASSUME NEW i \in Inodes PROVE Linked(i)' <=> Linked(i) /\ i # json[k]
      OBVIOUS
    <3>1. ASSUME Linked(i)' PROVE Linked(i) /\ i # json[k]
      <4>1. PICK l \in Keys : json'[l] = i \/ tmp'[l] = i
        BY <3>1 DEF Linked
      <4>2. CASE l = k
        BY <1>0, <1>2, <2>1, <4>1, <4>2 DEF Linked, NamesApart
      <4>3. CASE l # k
        <5>1. json'[l] = json[l] /\ tmp'[l] = tmp[l]
          BY <1>0, <2>1, <4>3
        <5>2. Linked(i)
          BY <4>1, <5>1 DEF Linked
        <5>3. i # json[k]
          BY <1>0, <4>1, <4>3, <5>1, OneName
        <5> QED
          BY <5>2, <5>3
      <4> QED
        BY <4>2, <4>3
    <3>2. ASSUME Linked(i), i # json[k] PROVE Linked(i)'
      <4>1. PICK l \in Keys : json[l] = i \/ tmp[l] = i
        BY <3>2 DEF Linked
      <4> QED
        BY <1>0, <2>1, <3>2, <4>1 DEF Linked
    <3> QED
      BY <3>1, <3>2
  <2>6. ListedOnce'
    BY <2>3, <2>4, <2>5 DEF ListedOnce, Once, Occurs
  <2> QED
    BY <1>1, <2>2, <2>6
<1>3. CASE tmp[k] = None
  <2>1. json' = json /\ tmp' = tmp /\ order' = order /\ stale' = stale
    BY <1>3 DEF Replace, k
  <2> QED
    BY <1>1, <2>1 DEF NamesApart, ListedOnce, Linked, StaleAreThere
<1> QED
  BY <1>2, <1>3

LEMMA EvictStepDir ==
    ASSUME CacheInv, DirInv, NEW p \in Procs, EvictStep(p)
    PROVE  DirInv'
<1> USE CacheConstants
<1> DEFINE R == recs[p]
           q == Oldest(R)
<1>1. /\ DOMAIN R # {} /\ DOMAIN R \subseteq Paths
      /\ R \in [DOMAIN R -> [mtime : Nat, size : 0..Chunks]]
      /\ total \in [Procs -> Int]
  BY DEF EvictStep, DirInv, EvictTypes
<1>2. q \in DOMAIN R
  <2>1. \A r \in DOMAIN R : R[r].mtime \in Nat
    BY <1>1
  <2> QED
    BY <1>1, <2>1, OldestIsThere
<1>3. q[1] \in {"json", "tmp"} /\ q[2] \in Keys /\ R[q].size \in Int
  BY <1>1, <1>2 DEF Paths
<1>4. /\ total' = [total EXCEPT ![p] = total[p] - R[q].size]
      /\ recs' = [recs EXCEPT ![p] = Without(R, q)]
      /\ IF q[1] = "json"
         THEN /\ json' = [json EXCEPT ![q[2]] = None] /\ order' = Forget(order, json[q[2]])
              /\ tmp' = tmp /\ stale' = stale
         ELSE /\ tmp' = [tmp EXCEPT ![q[2]] = None] /\ order' = Forget(order, tmp[q[2]])
              /\ json' = json /\ stale' = stale \ {q[2]}
  BY DEF EvictStep
<1> HIDE DEF q, R
<1>5. NamesApart' /\ ListedOnce'
  BY <1>3, <1>4, NameGoes
<1>6. StaleAreThere'
  BY <1>3, <1>4 DEF StaleAreThere, DirInv, CacheInv, CoreTypes
<1>7. EvictTypes'
  <2> DEFINE W == Without(R, q)
  <2>1. DOMAIN W \subseteq Paths /\ W \in [DOMAIN W -> [mtime : Nat, size : 0..Chunks]]
    BY <1>1 DEF Without, Restrict
  <2>2. total[p] - R[q].size \in Int
    BY <1>1, <1>3
  <2> HIDE DEF W
  <2>3. recs' = [recs EXCEPT ![p] = W]
    BY <1>4 DEF W
  <2> QED
    BY <1>4, <2>1, <2>2, <2>3, RecordsKeep DEF DirInv
<1> QED
  BY <1>5, <1>6, <1>7 DEF DirInv

LEMMA DirNext == CacheInv /\ DirInv /\ [Next]_vars => DirInv'
<1> SUFFICES ASSUME CacheInv, DirInv, [Next]_vars PROVE DirInv'
  OBVIOUS
<1> USE CacheConstants
<1>a. ASSUME json' = json, tmp' = tmp, order' = order, stale' \in SUBSET {k \in Keys : tmp[k] # None},
             EvictTypes'
      PROVE  DirInv'
  BY <1>a DEF DirInv, NamesApart, ListedOnce, Linked, StaleAreThere
<1>b. EvictTypes /\ stale \in SUBSET {k \in Keys : tmp[k] # None}
  BY DEF DirInv, StaleAreThere
<1>1. CASE \E p \in Procs : \/ OpenRead(p) \/ ReadChunk(p) \/ Parse(p) \/ Return(p)
                            \/ ReadFails(p) \/ WriteFails(p) \/ CleanupFails(p) \/ Restart(p)
                            \/ \E k \in Keys : StartLookup(p, k)
  <2>1. files' = files /\ evict' = evict
    BY <1>1 DEF OpenRead, ReadChunk, Parse, Return, ReadFails, WriteFails, CleanupFails, Restart,
                StartLookup, files, evict
  <2> QED
    BY <1>a, <1>b, <2>1 DEF files, evict, EvictTypes
<1>2. CASE (\E k \in Keys : Corrupt(k)) \/ HourPasses \/ UNCHANGED vars
  <2>1. json' = json /\ tmp' = tmp /\ order' = order /\ recs' = recs /\ total' = total
    BY <1>2 DEF Corrupt, HourPasses, vars, files, evict
  <2>2. stale' \in SUBSET {k \in Keys : tmp[k] # None}
    BY <1>b, <1>2 DEF Corrupt, HourPasses, vars, files
  <2> QED
    BY <1>a, <1>b, <2>1, <2>2 DEF EvictTypes
<1>3. ASSUME NEW p \in Procs, Scan(p) \/ EvictDone(p) \/ EvictFails(p) \/ Crash(p)
      PROVE  DirInv'
  <2>1. files' = files
    BY <1>3 DEF Scan, EvictDone, EvictFails, Crash, files
  <2>2. CASE Scan(p)
    <3>1. SumSize(Records) \in Int
      BY RecordTypes, BlocksFinite
    <3>2. \/ recs' = recs /\ total' = total
          \/ /\ recs' = [recs EXCEPT ![p] = Records]
             /\ total' = [total EXCEPT ![p] = SumSize(Records)]
      BY <2>2 DEF Scan, evict
    <3> HIDE DEF Records
    <3>3. EvictTypes'
      BY <1>b, <3>1, <3>2, RecordTypes, RecordsKeep
    <3> QED
      BY <1>a, <1>b, <2>1, <3>3 DEF files
  <2>3. CASE EvictDone(p) \/ Crash(p)
    <3> DEFINE E == <<>>
    <3>1. recs' = [recs EXCEPT ![p] = E] /\ total' = [total EXCEPT ![p] = 0]
      BY <2>3 DEF EvictDone, Crash
    <3>2. DOMAIN E \subseteq Paths /\ E \in [DOMAIN E -> [mtime : Nat, size : 0..Chunks]]
      BY EmptyRecords
    <3> HIDE DEF E
    <3>3. EvictTypes'
      BY <1>b, <3>1, <3>2, RecordsKeep, 0 \in Int
    <3> QED
      BY <1>a, <1>b, <2>1, <3>3 DEF files
  <2>4. CASE EvictFails(p)
    <3> DEFINE R == recs[p]
               W == Without(R, Oldest(R))
    <3>1. recs' = [recs EXCEPT ![p] = W] /\ total' = total
      BY <2>4 DEF EvictFails
    <3>2. DOMAIN R \subseteq Paths /\ R \in [DOMAIN R -> [mtime : Nat, size : 0..Chunks]]
      BY <1>b DEF EvictTypes
    <3>3. DOMAIN W \subseteq Paths /\ W \in [DOMAIN W -> [mtime : Nat, size : 0..Chunks]]
      BY <3>2 DEF Without, Restrict
    <3> HIDE DEF W
    <3>4. EvictTypes'
      BY <1>b, <3>1, <3>3, RecordsKeep, 0 \in Int
    <3> QED
      BY <1>a, <1>b, <2>1, <3>4 DEF files
  <2> QED
    BY <1>3, <2>2, <2>3, <2>4
<1>4. ASSUME NEW p \in Procs, Cleanup(p) PROVE DirInv'
  <2>1. /\ key[p] \in Keys /\ json' = json /\ tmp' = [tmp EXCEPT ![key[p]] = None]
        /\ order' = Forget(order, tmp[key[p]]) /\ stale' = stale \ {key[p]}
        /\ recs' = recs /\ total' = total
    BY <1>4 DEF Cleanup, CacheInv, CoreTypes, Locals, TmpName, evict
  <2>2. NamesApart' /\ ListedOnce'
    BY <2>1, NameGoes
  <2>3. StaleAreThere'
    BY <1>b, <2>1 DEF StaleAreThere, CacheInv, CoreTypes
  <2>4. EvictTypes'
    BY <1>b, <2>1 DEF EvictTypes
  <2> QED
    BY <2>2, <2>3, <2>4 DEF DirInv
<1> QED
  BY <1>1, <1>2, <1>3, <1>4, OpenTmpDir, WriteChunkDir, ReplaceDir, EvictStepDir
     DEF Next, Step, Fault

LEMMA DirSafe == Spec => []DirInv
  BY DirInit, DirNext, CacheSafe, PTL DEF Spec

\* Every variable of the cache keeps its type, whatever the processes, files
\* and faults: in particular a descriptor is held exactly while reading or
\* writing, and each linked file is in the order of modification once.
THEOREM CacheTypes == Spec => []TypeOK
<1>1. CacheInv /\ RestInv /\ DirInv => TypeOK
  BY DEF CacheInv, RestInv, Tallied, DirInv, StaleAreThere, TypeOK
<1> QED
  BY <1>1, CacheSafe, RestSafe, DirSafe, PTL

-----------------------------------------------------------------------------
(* The budget                                                              *)

\* Keys whose entry a writer still has open.
Dirty == {k \in Keys : \E p \in Procs : pc[p] = "write" /\ fd[p] = json[k]}

\* The blocks of the entries of the other keys than G.
Entries(G) ==
    {b \in Paths \X (1..Chunks) :
        /\ b[1][1] = "json" /\ b[1][2] \notin G
        /\ json[b[1][2]] # None /\ b[2] <= Size(json[b[1][2]])}

\* G holds the keys that may have grown unseen, at most one per process but
\* the one that scanned last.
Excuses(G) ==
    /\ G \in SUBSET Keys
    /\ Dirty \subseteq G
    /\ Cardinality(G) <= Cardinality(Procs) - 1

Settled == \E G \in SUBSET Keys : Excuses(G) /\ Cardinality(Entries(G)) <= Budget

\* The records that p still visits cover every entry but the excused ones.
Covered(p) ==
    /\ pc[p] = "evict"
    /\ \E G \in SUBSET Keys : Excuses(G) /\ Entries(G) \subseteq Blocks(recs[p])

\* The loop of evict_to_budget knows what is left.
TotalsAgree ==
    faults = 0 => \A p \in Procs : pc[p] = "evict" => total[p] = SumSize(recs[p])

\* Somebody is about to scan, or somebody is evicting what a scan found, or
\* the entries fit into the budget but for the excused ones.
Guarded == (\E p \in Procs : pc[p] = "scan") \/ Settled \/ \E p \in Procs : Covered(p)

WithinBudget == Budget > 0 /\ faults = 0 => Guarded

BudgetInv == TotalsAgree /\ WithinBudget

LEMMA UpTo == \A s \in Nat : IsFiniteSet(1..s) /\ Cardinality(1..s) = s
<1> SUFFICES ASSUME NEW s \in Nat PROVE IsFiniteSet(1..s) /\ Cardinality(1..s) = s
  OBVIOUS
<1>1. IsFiniteSet(1..s) /\ Cardinality(1..s) = IF 1 > s THEN 0 ELSE s - 1 + 1
  BY FS_Interval
<1> QED
  BY <1>1

\* Without the record of q its blocks are gone, and no other.
LEMMA BlocksWithout ==
    ASSUME NEW R, DOMAIN R \subseteq Paths, NEW q \in DOMAIN R, R[q].size \in 0..Chunks
    PROVE  /\ Blocks(Without(R, q)) = {b \in Blocks(R) : b[1] # q}
           /\ SumSize(Without(R, q)) = SumSize(R) - R[q].size
<1> DEFINE W == Without(R, q)
           D == {q} \X (1..R[q].size)
<1>0. Chunks \in Nat /\ R[q].size \in Nat /\ R[q].size <= Chunks
  BY CacheConstants
<1>1. DOMAIN W = (DOMAIN R) \ {q} /\ \A r \in DOMAIN W : W[r] = R[r]
  BY DEF Without, Restrict
<1>2. Blocks(W) = {b \in Blocks(R) : b[1] # q}
  BY <1>1 DEF Blocks
<1>3. D = {b \in Blocks(R) : b[1] = q}
  <2>1. \A n : n \in 1..R[q].size <=> n \in 1..Chunks /\ n <= R[q].size
    BY <1>0
  <2> QED
    BY <2>1 DEF Blocks
<1>4. IsFiniteSet(Blocks(R)) /\ SumSize(R) \in Nat
  BY BlocksFinite
<1>5. IsFiniteSet(D) /\ Cardinality(D) = R[q].size
  <2>1. IsFiniteSet({q}) /\ Cardinality({q}) = 1
    BY FS_Singleton
  <2>2. IsFiniteSet(1..R[q].size) /\ Cardinality(1..R[q].size) = R[q].size
    BY <1>0, UpTo
  <2> QED
    BY <1>0, <2>1, <2>2, FS_Product
<1> HIDE DEF D, W
<1>6. Blocks(W) = Blocks(R) \ D /\ Blocks(R) \cap D = D
  BY <1>2, <1>3
<1>7. Cardinality(Blocks(R) \ D) = Cardinality(Blocks(R)) - Cardinality(Blocks(R) \cap D)
  BY <1>4, FS_Difference
<1> QED
  BY <1>2, <1>5, <1>6, <1>7 DEF SumSize, W

\* The walk sees every entry.
LEMMA WalkSeesEntries == \A G : Entries(G) \subseteq Blocks(Records)
<1> SUFFICES ASSUME NEW G, NEW b \in Entries(G) PROVE b \in Blocks(Records)
  OBVIOUS
<1>1. /\ b \in Paths \X (1..Chunks) /\ b[1][1] = "json" /\ json[b[1][2]] # None
      /\ b[2] <= Size(json[b[1][2]])
  BY DEF Entries
<1>2. b[1] \in Counted /\ FileOf(b[1]) = json[b[1][2]]
  BY <1>1 DEF Counted, FileOf
<1> QED
  BY <1>1, <1>2 DEF Blocks, Records

\* A step that publishes nothing and writes only to entries open before:
\* nothing becomes dirty, and what is not excused does not grow.
NoGrowth ==
    /\ \A k \in Keys : json'[k] \in {json[k], None}
    /\ \A k \in Keys : k \notin Dirty /\ json[k] # None => data'[json[k]] = data[json[k]]
    /\ \A p \in Procs : pc'[p] = "write" =>
          (pc[p] = "write" /\ fd'[p] = fd[p]) \/ \A k \in Keys : json'[k] # fd'[p]

LEMMA NothingGrows ==
    ASSUME CacheInv, CacheInv', NoGrowth
    PROVE  /\ Dirty' \subseteq Dirty
           /\ \A G \in SUBSET Keys : Dirty \subseteq G => Entries(G)' \subseteq Entries(G)
<1>1. Dirty' \subseteq Dirty
  <2> SUFFICES ASSUME NEW k \in Keys, NEW p \in Procs, pc'[p] = "write", fd'[p] = json'[k]
               PROVE  k \in Dirty
    BY DEF Dirty
  <2>1. fd'[p] # None
    BY DEF CacheInv, Locals
  <2>2. pc[p] = "write" /\ fd[p] = json[k]
    BY <2>1 DEF NoGrowth
  <2> QED
    BY <2>2 DEF Dirty
<1>2. ASSUME NEW G \in SUBSET Keys, Dirty \subseteq G, NEW b \in Entries(G)'
      PROVE  b \in Entries(G)
  <2>1. /\ b \in Paths \X (1..Chunks) /\ b[1][1] = "json" /\ b[1][2] \notin G
        /\ json'[b[1][2]] # None /\ b[2] <= Size(json[b[1][2]])'
    BY DEF Entries
  <2>2. b[1][2] \in Keys
    BY <2>1 DEF Paths
  <2>3. json'[b[1][2]] = json[b[1][2]] /\ data'[json[b[1][2]]] = data[json[b[1][2]]]
    BY <1>2, <2>1, <2>2 DEF NoGrowth
  <2>4. Size(json[b[1][2]])' = Size(json[b[1][2]])
    BY <2>3 DEF Size
  <2> QED
    BY <2>1, <2>3, <2>4 DEF Entries
<1> QED
  BY <1>1, <1>2

LEMMA EntriesFinite ==
    \A G, S : Entries(G) \subseteq S /\ IsFiniteSet(S) =>
        /\ IsFiniteSet(Entries(G)) /\ Cardinality(Entries(G)) \in Nat
        /\ Cardinality(Entries(G)) <= Cardinality(S)
  BY FS_Subset, FS_CardinalityType

LEMMA EntriesAreFinite ==
    \A G : IsFiniteSet(Entries(G)) /\ Cardinality(Entries(G)) \in Nat
<1>1. IsFiniteSet(Paths \X (1..Chunks))
  <2>1. IsFiniteSet(1..Chunks)
    BY UpTo, CacheConstants
  <2> QED
    BY <2>1, BlocksFinite, FS_Product
<1>2. \A G : Entries(G) \subseteq Paths \X (1..Chunks)
  BY DEF Entries
<1> QED
  BY <1>1, <1>2, EntriesFinite

LEMMA ExcusesKept ==
    ASSUME Dirty' \subseteq Dirty, NEW G, Excuses(G)
    PROVE  Excuses(G)'
  BY DEF Excuses

LEMMA SettledKept ==
    ASSUME CacheInv, CacheInv', NoGrowth, Settled
    PROVE  Settled'
<1>1. PICK G \in SUBSET Keys : Excuses(G) /\ Cardinality(Entries(G)) <= Budget
  BY DEF Settled
<1>2. Entries(G)' \subseteq Entries(G)
  BY <1>1, NothingGrows DEF Excuses
<1>3. IsFiniteSet(Entries(G)) /\ Cardinality(Entries(G)) \in Nat
  BY EntriesAreFinite
<1>4. Cardinality(Entries(G)') <= Cardinality(Entries(G)) /\ Cardinality(Entries(G)') \in Nat
  BY <1>2, <1>3, FS_Subset, FS_CardinalityType
<1>5. Cardinality(Entries(G)') <= Budget
  BY <1>1, <1>3, <1>4, CacheConstants
<1> QED
  BY <1>1, <1>5, NothingGrows, ExcusesKept DEF Settled

LEMMA CoveredKept ==
    ASSUME CacheInv, CacheInv', NoGrowth, NEW p, Covered(p), pc'[p] = pc[p], recs'[p] = recs[p]
    PROVE  Covered(p)'
<1>1. PICK G \in SUBSET Keys : Excuses(G) /\ Entries(G) \subseteq Blocks(recs[p])
  BY DEF Covered
<1>2. Entries(G)' \subseteq Entries(G)
  BY <1>1, NothingGrows DEF Excuses
<1>3. Blocks(recs[p])' = Blocks(recs[p])
  BY DEF Blocks
<1> QED
  BY <1>1, <1>2, <1>3, NothingGrows, ExcusesKept DEF Covered

\* A process that scans is excused by nobody: each open entry is the key of
\* another process, which is writing.
LEMMA DirtyAreExcused ==
    ASSUME CacheInv, NEW p \in Procs, pc[p] # "write"
    PROVE  Excuses(Dirty)
<1> DEFINE Q == Procs \ {p}
<1>1. IsFiniteSet(Q) /\ Cardinality(Q) = Cardinality(Procs) - 1
  BY FS_RemoveElement, FiniteSystem
<1>2. ASSUME NEW k \in Dirty PROVE \E q \in Q : pc[q] = "write" /\ fd[q] = json[k] /\ key[q] = k
  <2>1. PICK q \in Procs : pc[q] = "write" /\ fd[q] = json[k]
    BY DEF Dirty
  <2>2. fd[q] \in Inodes /\ key[q] \in Keys /\ k \in Keys
    BY <2>1 DEF CacheInv, CoreTypes, Locals, Dirty
  <2>3. Refers(fd[q], k) /\ Refers(fd[q], key[q])
    BY <2>1 DEF Refers
  <2>4. key[q] = k
    BY <2>2, <2>3 DEF CacheInv, OneOwner
  <2> QED
    BY <2>1, <2>4
<1> DEFINE w == [k \in Dirty |-> CHOOSE q \in Q : key[q] = k]
<1>3. \A k \in Dirty : w[k] \in Q /\ key[w[k]] = k
  BY <1>2
<1> HIDE DEF Q
<1>4. w \in Injection(Dirty, Q)
  BY <1>3 DEF Injection, IsInjective
<1>5. Cardinality(Dirty) <= Cardinality(Q)
  BY <1>1, <1>4, FS_Injection
<1> QED
  BY <1>1, <1>5 DEF Excuses, Dirty

LEMMA BudgetInit == Init => BudgetInv
<1> SUFFICES ASSUME Init PROVE BudgetInv
  OBVIOUS
<1>1. TotalsAgree
  BY DEF Init, TotalsAgree
<1>2. Dirty = {} /\ Entries({}) = {}
  BY DEF Init, Dirty, Entries, Paths
<1>3. Cardinality({}) = 0
  BY FS_EmptySet
<1>4. Cardinality(Procs) \in Nat /\ Cardinality(Procs) # 0
  BY FiniteSystem, FS_EmptySet, FS_CardinalityType
<1>5. Excuses({})
  BY <1>2, <1>3, <1>4 DEF Excuses
<1>6. Settled
  <2>1. Cardinality(Entries({})) <= Budget
    BY <1>2, <1>3, CacheConstants
  <2>2. {} \in SUBSET Keys
    OBVIOUS
  <2> QED
    BY <1>5, <2>1, <2>2 DEF Settled
<1> QED
  BY <1>1, <1>6 DEF BudgetInv, WithinBudget, Guarded

\* Faults are never forgotten.
LEMMA FaultsCount ==
    ASSUME CacheInv, [Next]_vars, faults' = 0
    PROVE  faults = 0 /\ ~(\E p \in Procs : Fault(p)) /\ ~(\E k \in Keys : Corrupt(k))
<1>0. faults \in Nat
  BY CacheConstants DEF CacheInv, CoreTypes
<1>1. ~(\E p \in Procs : Fault(p)) /\ ~(\E k \in Keys : Corrupt(k))
  <2>1. faults' # faults + 1
    BY <1>0
  <2>2. ASSUME NEW p, Fault(p) PROVE FALSE
    <3>1. faults' = faults + 1
      BY <2>2 DEF Fault, ReadFails, WriteFails, CleanupFails, EvictFails, Crash
    <3> QED
      BY <2>1, <3>1
  <2>3. ASSUME NEW k, Corrupt(k) PROVE FALSE
    BY <2>1, <2>3 DEF Corrupt
  <2> QED
    BY <2>2, <2>3
<1>2. faults' = faults
  BY <1>1 DEF Next, Step, OpenRead, ReadChunk, Parse, Return, OpenTmp, WriteChunk, WriteUpTo,
              Replace, Cleanup, Scan, EvictStep, EvictDone, Restart, StartLookup, HourPasses, vars
<1> QED
  BY <1>1, <1>2

\* The record that evict_to_budget visits next.
LEMMA NextVictim ==
    ASSUME DirInv, NEW p \in Procs, EvictStep(p), NEW q, q = Oldest(recs[p])
    PROVE  /\ q \in DOMAIN recs[p] /\ recs[p][q].size \in 0..Chunks
           /\ DOMAIN recs[p] \subseteq Paths
<1>1. /\ DOMAIN recs[p] # {} /\ DOMAIN recs[p] \subseteq Paths
      /\ recs[p] \in [DOMAIN recs[p] -> [mtime : Nat, size : 0..Chunks]]
  BY DEF EvictStep, DirInv, EvictTypes
<1>2. \A r \in DOMAIN recs[p] : recs[p][r].mtime \in Nat
  BY <1>1
<1>3. q \in DOMAIN recs[p]
  BY <1>1, <1>2, OldestIsThere
<1> QED
  BY <1>1, <1>3

\* The running total is the sum over the records not yet visited.
LEMMA TotalsNext ==
    ASSUME CacheInv, DirInv, TotalsAgree, [Next]_vars
    PROVE  TotalsAgree'
<1> SUFFICES ASSUME faults' = 0, NEW r \in Procs, pc'[r] = "evict"
             PROVE  total'[r] = SumSize(recs'[r])
  BY DEF TotalsAgree, SumSize, Blocks
<1>0. faults = 0 /\ ~(\E p \in Procs : Fault(p)) /\ ~(\E k \in Keys : Corrupt(k))
  BY FaultsCount
<1>1. CASE pc[r] = "evict" /\ recs'[r] = recs[r] /\ total'[r] = total[r]
  BY <1>0, <1>1 DEF TotalsAgree
<1>2. CASE \E p \in Procs : \/ OpenRead(p) \/ ReadChunk(p) \/ Parse(p) \/ Return(p)
                            \/ OpenTmp(p) \/ WriteChunk(p) \/ Replace(p) \/ Cleanup(p)
                            \/ Restart(p) \/ \E k \in Keys : StartLookup(p, k)
  <2>1. recs' = recs /\ total' = total
    BY <1>2 DEF OpenRead, ReadChunk, Parse, Return, OpenTmp, WriteChunk, WriteUpTo, Replace,
                Cleanup, Restart, StartLookup, evict
  <2>2. pc[r] = "evict"
    BY <1>2 DEF OpenRead, ReadChunk, Parse, Return, OpenTmp, WriteChunk, WriteUpTo, Replace,
                Cleanup, Restart, StartLookup, Goto, Recompute, CacheInv, CoreTypes
  <2> QED
    BY <1>1, <2>1, <2>2
<1>3. CASE HourPasses \/ UNCHANGED vars
  <2>1. recs' = recs /\ total' = total /\ pc' = pc
    BY <1>3 DEF HourPasses, vars, evict, local
  <2> QED
    BY <1>1, <2>1
<1>4. ASSUME NEW p \in Procs, Scan(p) PROVE total'[r] = SumSize(recs'[r])
  <2>1. DOMAIN recs = Procs /\ total \in [Procs -> Int] /\ pc \in [Procs -> Labels]
    BY DEF DirInv, EvictTypes, CacheInv, CoreTypes
  <2>2. CASE r = p
    <3>1. recs' = [recs EXCEPT ![p] = Records] /\ total' = [total EXCEPT ![p] = SumSize(Records)]
      BY <1>4, <2>1, <2>2 DEF Scan, Goto
    <3> HIDE DEF Records
    <3> QED
      BY <2>1, <2>2, <3>1
  <2>3. CASE r # p
    <3>1. pc[r] = "evict" /\ recs'[r] = recs[r] /\ total'[r] = total[r]
      BY <1>4, <2>1, <2>3 DEF Scan, Goto, evict
    <3> QED
      BY <1>1, <3>1
  <2> QED
    BY <2>2, <2>3
<1>5. ASSUME NEW p \in Procs, EvictDone(p) PROVE total'[r] = SumSize(recs'[r])
  <2>1. DOMAIN recs = Procs /\ total \in [Procs -> Int] /\ pc \in [Procs -> Labels]
    BY DEF DirInv, EvictTypes, CacheInv, CoreTypes
  <2>2. r # p /\ pc[r] = "evict"
    BY <1>5, <2>1 DEF EvictDone, Goto
  <2>3. recs'[r] = recs[r] /\ total'[r] = total[r]
    BY <1>5, <2>1, <2>2 DEF EvictDone
  <2> QED
    BY <1>1, <2>2, <2>3
<1>6. ASSUME NEW p \in Procs, EvictStep(p) PROVE total'[r] = SumSize(recs'[r])
  <2> DEFINE q == Oldest(recs[p])
  <2>1. DOMAIN recs = Procs /\ total \in [Procs -> Int] /\ pc' = pc /\ pc[p] = "evict"
    BY <1>6 DEF EvictStep, DirInv, EvictTypes, local
  <2>2. /\ recs' = [recs EXCEPT ![p] = Without(recs[p], q)]
        /\ total' = [total EXCEPT ![p] = total[p] - recs[p][q].size]
    BY <1>6 DEF EvictStep
  <2>3. /\ q \in DOMAIN recs[p] /\ recs[p][q].size \in 0..Chunks
        /\ DOMAIN recs[p] \subseteq Paths
    BY <1>6, NextVictim
  <2> HIDE DEF q
  <2>4. CASE r = p
    <3>1. SumSize(Without(recs[p], q)) = SumSize(recs[p]) - recs[p][q].size
      BY <2>3, BlocksWithout
    <3>2. total[p] = SumSize(recs[p])
      BY <1>0, <2>1 DEF TotalsAgree
    <3> QED
      BY <2>1, <2>2, <2>4, <3>1, <3>2
  <2>5. CASE r # p
    <3>1. recs'[r] = recs[r] /\ total'[r] = total[r]
      BY <2>1, <2>2, <2>5
    <3> QED
      BY <1>1, <2>1, <3>1
  <2> QED
    BY <2>4, <2>5
<1> QED
  BY <1>0, <1>2, <1>3, <1>4, <1>5, <1>6 DEF Next, Step

\* A step without growth that no scanning or evicting process takes.
LEMMA QuietStep ==
    ASSUME CacheInv, CacheInv', NoGrowth, Guarded,
           \A p \in Procs : pc[p] \in {"scan", "evict"} => pc'[p] = pc[p] /\ recs'[p] = recs[p]
    PROVE  Guarded'
<1>1. CASE \E p \in Procs : pc[p] = "scan"
  BY <1>1 DEF Guarded
<1>2. CASE Settled
  BY <1>2, SettledKept DEF Guarded
<1>3. ASSUME NEW p \in Procs, Covered(p) PROVE Guarded'
  <2>1. pc[p] = "evict"
    BY <1>3 DEF Covered
  <2>2. Covered(p)'
    BY <1>3, <2>1, CoveredKept
  <2> QED
    BY <2>2 DEF Guarded
<1> QED
  BY <1>1, <1>2, <1>3 DEF Guarded

\* Opening the tmp file: it is not the file of any entry.
LEMMA OpenTmpNoGrowth ==
    ASSUME CacheInv, DirInv, NEW p \in Procs, OpenTmp(p)
    PROVE  NoGrowth
<1>0. key[p] \in Keys
  BY DEF OpenTmp, CacheInv, CoreTypes, Locals
<1>1. PICK i \in Inodes :
         /\ IF tmp[key[p]] = None THEN Free(i) ELSE i = tmp[key[p]]
         /\ data' = [data EXCEPT ![i] = EmptyFile]
         /\ fd' = [fd EXCEPT ![p] = i]
  BY DEF OpenTmp, TmpName
<1>2. json' = json /\ pc' = [pc EXCEPT ![p] = "write"]
  BY DEF OpenTmp, Goto
<1>3. \A k \in Keys : json[k] # i
  <2> SUFFICES ASSUME NEW k \in Keys, json[k] = i PROVE FALSE
    OBVIOUS
  <2>1. json[k] # None
    BY CacheConstants
  <2>2. CASE tmp[key[p]] = None
    BY <1>1, <2>2 DEF Free, Linked
  <2>3. CASE tmp[key[p]] # None
    BY <1>0, <1>1, <2>1, <2>3, OneName DEF DirInv
  <2> QED
    BY <2>2, <2>3
<1>4. ASSUME NEW k \in Keys, json[k] # None PROVE data'[json[k]] = data[json[k]]
  BY <1>1, <1>3, <1>4 DEF CacheInv, CoreTypes
<1>5. ASSUME NEW r \in Procs, pc'[r] = "write"
      PROVE  (pc[r] = "write" /\ fd'[r] = fd[r]) \/ \A k \in Keys : json'[k] # fd'[r]
  BY <1>1, <1>2, <1>3, <1>5 DEF CacheInv, CoreTypes
<1> QED
  BY <1>2, <1>4, <1>5 DEF NoGrowth

\* A write call reaches only the file its process has open.
LEMMA WriteChunkNoGrowth ==
    ASSUME CacheInv, NEW p \in Procs, WriteChunk(p)
    PROVE  NoGrowth
<1>1. /\ data' = [data EXCEPT ![fd[p]][pos[p]] = answer[p]]
      /\ json' = json /\ pc[p] = "write" /\ fd[p] \in Inodes
      /\ \/ pc' = pc /\ fd' = fd
         \/ pc' = [pc EXCEPT ![p] = "replace"] /\ fd' = [fd EXCEPT ![p] = None]
  BY DEF WriteChunk, WriteUpTo, Goto, CacheInv, CoreTypes, Locals
<1>2. ASSUME NEW k \in Keys, k \notin Dirty, json[k] # None PROVE data'[json[k]] = data[json[k]]
  <2>1. json[k] # fd[p] /\ json[k] \in Inodes
    BY <1>1, <1>2 DEF Dirty, CacheInv, CoreTypes
  <2> QED
    BY <1>1, <2>1 DEF CacheInv, CoreTypes
<1>3. ASSUME NEW r \in Procs, pc'[r] = "write" PROVE pc[r] = "write" /\ fd'[r] = fd[r]
  BY <1>1, <1>3 DEF CacheInv, CoreTypes
<1> QED
  BY <1>1, <1>2, <1>3 DEF NoGrowth

\* Steps of a process that neither scans nor evicts.
LEMMA OtherStepsGuarded ==
    ASSUME CacheInv, CacheInv', DirInv, Guarded, NEW p \in Procs,
           \/ OpenRead(p) \/ ReadChunk(p) \/ Parse(p) \/ Return(p)
           \/ OpenTmp(p) \/ WriteChunk(p) \/ Replace(p) \/ Cleanup(p)
           \/ Restart(p) \/ \E k \in Keys : StartLookup(p, k)
    PROVE  Guarded'
<1>0. pc \in [Procs -> Labels] /\ fd \in [Procs -> Inodes \cup {None}]
  BY DEF CacheInv, CoreTypes
<1>1. pc[p] \notin {"scan", "evict"} /\ recs' = recs
  BY DEF OpenRead, ReadChunk, Parse, Return, OpenTmp, WriteChunk, WriteUpTo, Replace,
         Cleanup, Restart, StartLookup, evict
<1>2. \A r \in Procs \ {p} : pc'[r] = pc[r] /\ fd'[r] = fd[r]
  BY <1>0 DEF OpenRead, ReadChunk, Parse, Return, OpenTmp, WriteChunk, WriteUpTo, Replace,
         Cleanup, Restart, StartLookup, Goto, Recompute
<1>3. \A r \in Procs : pc[r] \in {"scan", "evict"} => pc'[r] = pc[r] /\ recs'[r] = recs[r]
  BY <1>1, <1>2
<1>4. CASE OpenTmp(p)
  BY <1>3, <1>4, OpenTmpNoGrowth, QuietStep
<1>5. CASE WriteChunk(p)
  BY <1>3, <1>5, WriteChunkNoGrowth, QuietStep
<1>6. CASE Replace(p) /\ tmp[key[p]] # None
  <2>1. pc'[p] = "scan"
    BY <1>0, <1>6 DEF Replace, Goto, TmpName
  <2> QED
    BY <2>1 DEF Guarded
<1>7. CASE \/ OpenRead(p) \/ ReadChunk(p) \/ Parse(p) \/ Return(p) \/ Restart(p) \/ Cleanup(p)
           \/ (Replace(p) /\ tmp[key[p]] = None) \/ \E k \in Keys : StartLookup(p, k)
  <2>1. json' = json /\ data' = data
    BY <1>7 DEF OpenRead, ReadChunk, Parse, Return, Restart, Cleanup, Replace, StartLookup,
                TmpName, files
  <2>2. pc'[p] # "write"
    BY <1>0, <1>7 DEF OpenRead, ReadChunk, Parse, Return, Restart, Cleanup, Replace, StartLookup,
                      Goto, Recompute, TmpName
  <2>3. NoGrowth
    BY <1>2, <2>1, <2>2 DEF NoGrowth
  <2> QED
    BY <1>3, <2>3, QuietStep
<1> QED
  BY <1>4, <1>5, <1>6, <1>7

\* A scan sees every entry, whole but for the ones still open.
LEMMA ScanGuarded ==
    ASSUME CacheInv, DirInv, NEW p \in Procs, Scan(p), Budget > 0
    PROVE  Guarded'
<1>0. /\ pc \in [Procs -> Labels] /\ pc[p] = "scan" /\ DOMAIN recs = Procs
      /\ json' = json /\ data' = data /\ fd' = fd
      /\ \/ SumSize(Records) > Budget /\ recs' = [recs EXCEPT ![p] = Records]
            /\ pc' = [pc EXCEPT ![p] = "evict"]
         \/ ~(SumSize(Records) > Budget) /\ pc' = [pc EXCEPT ![p] = "done"]
  BY DEF Scan, Goto, files, CacheInv, CoreTypes, DirInv, EvictTypes
<1>1. Excuses(Dirty)
  BY <1>0, DirtyAreExcused
<1>2. Dirty' = Dirty
  BY <1>0 DEF Dirty
<1>3. \A G : Entries(G)' = Entries(G)
  BY <1>0 DEF Entries, Size
<1>4. IsFiniteSet(Blocks(Records)) /\ SumSize(Records) \in Nat
  BY RecordTypes, BlocksFinite
<1>a. PICK G \in SUBSET Keys : G = Dirty
  BY DEF Dirty
<1>5. Excuses(G)'
  BY <1>1, <1>2, <1>a DEF Excuses
<1>6. Entries(G) \subseteq Blocks(Records)
  BY WalkSeesEntries
<1>7. CASE SumSize(Records) > Budget
  <2>1. pc'[p] = "evict" /\ recs'[p] = Records
    BY <1>0, <1>7
  <2> HIDE DEF Records
  <2>2. Entries(G)' \subseteq Blocks(recs[p])'
    BY <1>3, <1>6, <2>1 DEF Blocks
  <2>3. Covered(p)'
    BY <1>5, <2>1, <2>2 DEF Covered
  <2> QED
    BY <2>3 DEF Guarded
<1>8. CASE ~(SumSize(Records) > Budget)
  <2>1. Cardinality(Entries(G)) <= SumSize(Records) /\ Cardinality(Entries(G)) \in Nat
    BY <1>4, <1>6, EntriesFinite DEF SumSize
  <2>2. Cardinality(Entries(G)) <= Budget
    BY <1>4, <1>8, <2>1, CacheConstants
  <2>3. Settled'
    BY <1>3, <1>5, <2>2 DEF Settled
  <2> QED
    BY <2>3 DEF Guarded
<1> QED
  BY <1>7, <1>8

\* What an eviction unlinks is no longer among the entries, and what is left
\* among them is among the records left.
LEMMA EvictStepGuarded ==
    ASSUME CacheInv, CacheInv', DirInv, Guarded, NEW p \in Procs, EvictStep(p)
    PROVE  Guarded'
<1> DEFINE q == Oldest(recs[p])
<1>1. /\ q \in DOMAIN recs[p] /\ recs[p][q].size \in 0..Chunks
      /\ DOMAIN recs[p] \subseteq Paths
  BY NextVictim
<1>2. /\ recs' = [recs EXCEPT ![p] = Without(recs[p], q)]
      /\ data' = data /\ pc' = pc /\ fd' = fd
      /\ IF q[1] = "json" THEN json' = [json EXCEPT ![q[2]] = None] ELSE json' = json
  BY DEF EvictStep, local
<1>3. DOMAIN recs = Procs /\ json \in [Keys -> Inodes \cup {None}]
  BY DEF DirInv, EvictTypes, CacheInv, CoreTypes
<1> HIDE DEF q
<1>4. NoGrowth
  BY <1>2, <1>3 DEF NoGrowth
<1>5. CASE \E r \in Procs : pc[r] = "scan"
  BY <1>2, <1>5 DEF Guarded
<1>6. CASE Settled
  BY <1>4, <1>6, SettledKept DEF Guarded
<1>7. ASSUME NEW r \in Procs, r # p, Covered(r) PROVE Guarded'
  <2>1. pc'[r] = pc[r] /\ recs'[r] = recs[r]
    BY <1>2, <1>3, <1>7
  <2>2. Covered(r)'
    BY <1>4, <1>7, <2>1, CoveredKept
  <2> QED
    BY <2>2 DEF Guarded
<1>8. ASSUME Covered(p) PROVE Guarded'
  <2>1. PICK G \in SUBSET Keys : Excuses(G) /\ Entries(G) \subseteq Blocks(recs[p])
    BY <1>8 DEF Covered
  <2>2. Dirty' \subseteq Dirty /\ Entries(G)' \subseteq Entries(G)
    BY <1>4, <2>1, NothingGrows DEF Excuses
  <2>3. Excuses(G)'
    BY <2>1, <2>2, ExcusesKept
  <2>4. ASSUME NEW b \in Entries(G)' PROVE b[1] # q
    <3>1. b[1] \in Paths /\ b[1][1] = "json" /\ json'[b[1][2]] # None
      BY DEF Entries
    <3>2. b[1][2] \in Keys
      BY <3>1 DEF Paths
    <3> QED
      BY <1>2, <1>3, <3>1, <3>2
  <2>5. Blocks(Without(recs[p], q)) = {b \in Blocks(recs[p]) : b[1] # q}
    BY <1>1, BlocksWithout
  <2>6. recs'[p] = Without(recs[p], q)
    BY <1>2, <1>3
  <2>7. Entries(G)' \subseteq Blocks(recs[p])'
    <3>1. Entries(G)' \subseteq Blocks(Without(recs[p], q))
      BY <2>1, <2>2, <2>4, <2>5
    <3> QED
      BY <2>6, <3>1 DEF Blocks
  <2>8. Covered(p)'
    BY <1>2, <1>8, <2>3, <2>7 DEF Covered
  <2> QED
    BY <2>8 DEF Guarded
<1> QED
  BY <1>5, <1>6, <1>7, <1>8 DEF Guarded

\* The loop ends below the budget, or with nothing left to visit.
LEMMA EvictDoneGuarded ==
    ASSUME CacheInv, CacheInv', DirInv, TotalsAgree, faults = 0, Guarded,
           NEW p \in Procs, EvictDone(p)
    PROVE  Guarded'
<1>1. /\ pc \in [Procs -> Labels] /\ DOMAIN recs = Procs /\ pc[p] = "evict"
      /\ DOMAIN recs[p] \subseteq Paths
      /\ DOMAIN recs[p] = {} \/ total[p] <= LowWater
      /\ pc' = [pc EXCEPT ![p] = "done"] /\ recs' = [recs EXCEPT ![p] = <<>>]
      /\ json' = json /\ data' = data /\ fd' = fd
  BY DEF EvictDone, Goto, files, CacheInv, CoreTypes, DirInv, EvictTypes
<1>2. NoGrowth
  BY <1>1 DEF NoGrowth
<1>3. CASE \E r \in Procs : pc[r] = "scan"
  BY <1>1, <1>3 DEF Guarded
<1>4. CASE Settled
  BY <1>2, <1>4, SettledKept DEF Guarded
<1>5. ASSUME NEW r \in Procs, r # p, Covered(r) PROVE Guarded'
  <2>1. pc'[r] = pc[r] /\ recs'[r] = recs[r]
    BY <1>1, <1>5
  <2>2. Covered(r)'
    BY <1>2, <1>5, <2>1, CoveredKept
  <2> QED
    BY <2>2 DEF Guarded
<1>6. ASSUME Covered(p) PROVE Settled
  <2>1. PICK G \in SUBSET Keys : Excuses(G) /\ Entries(G) \subseteq Blocks(recs[p])
    BY <1>6 DEF Covered
  <2>2. IsFiniteSet(Blocks(recs[p])) /\ SumSize(recs[p]) \in Nat
    BY <1>1, BlocksFinite
  <2>3. Cardinality(Entries(G)) <= SumSize(recs[p]) /\ Cardinality(Entries(G)) \in Nat
    BY <2>1, <2>2, EntriesFinite DEF SumSize
  <2>4. SumSize(recs[p]) <= Budget
    <3>1. CASE DOMAIN recs[p] = {}
      <4>1. Blocks(recs[p]) = {}
        BY <3>1 DEF Blocks
      <4> QED
        BY <4>1, FS_EmptySet, CacheConstants DEF SumSize
    <3>2. CASE total[p] <= LowWater
      <4>1. total[p] = SumSize(recs[p])
        BY <1>1 DEF TotalsAgree
      <4>2. LowWater <= Budget /\ LowWater \in Int
        BY CacheConstants DEF LowWater
      <4> QED
        BY <2>2, <3>2, <4>1, <4>2, CacheConstants
    <3> QED
      BY <1>1, <3>1, <3>2
  <2>5. Cardinality(Entries(G)) <= Budget
    BY <2>2, <2>3, <2>4, CacheConstants
  <2> QED
    BY <2>1, <2>5 DEF Settled
<1> QED
  BY <1>3, <1>4, <1>5, <1>6 DEF Guarded

LEMMA BudgetNext ==
    ASSUME CacheInv, CacheInv', DirInv, BudgetInv, [Next]_vars
    PROVE  BudgetInv'
<1>1. TotalsAgree'
  BY TotalsNext DEF BudgetInv
<1>2. WithinBudget'
  <2> SUFFICES ASSUME Budget > 0, faults' = 0 PROVE Guarded'
    BY DEF WithinBudget
  <2>1. faults = 0 /\ ~(\E p \in Procs : Fault(p)) /\ ~(\E k \in Keys : Corrupt(k))
    BY FaultsCount
  <2>2. Guarded
    BY <2>1 DEF BudgetInv, WithinBudget
  <2>3. CASE HourPasses \/ UNCHANGED vars
    <3>1. json' = json /\ data' = data /\ pc' = pc /\ fd' = fd /\ recs' = recs
      BY <2>3 DEF HourPasses, vars, files, local, evict
    <3>2. NoGrowth
      BY <3>1 DEF NoGrowth
    <3> QED
      BY <2>2, <3>1, <3>2, QuietStep
  <2>4. ASSUME NEW p \in Procs,
               \/ Scan(p) \/ EvictStep(p) \/ EvictDone(p)
        PROVE  Guarded'
    BY <2>1, <2>2, <2>4, ScanGuarded, EvictStepGuarded, EvictDoneGuarded DEF BudgetInv
  <2> QED
    BY <2>1, <2>2, <2>3, <2>4, OtherStepsGuarded DEF Next, Step
<1> QED
  BY <1>1, <1>2 DEF BudgetInv

LEMMA BudgetSafe == Spec => []BudgetInv
  BY BudgetInit, BudgetNext, CacheSafe, DirSafe, PTL DEF Spec

\* With a budget and without a fault, the cache at rest exceeds it by at most
\* one entry for every process but one, for any number of them: what evades
\* every scan is text that another process was writing at the time.
THEOREM OvershootStaysSmall == Spec => []OvershootBounded
<1>1. ASSUME CacheInv, RestInv, DirInv, BudgetInv PROVE OvershootBounded
  <2> SUFFICES ASSUME Budget > 0, faults = 0, \A p \in Procs : pc[p] = "idle"
               PROVE  SumSize(Records) <= Budget + Chunks * (Cardinality(Procs) - 1)
    BY DEF OvershootBounded
  <2>1. Settled
    BY <1>1 DEF BudgetInv, WithinBudget, Guarded, Covered
  <2>2. PICK G \in SUBSET Keys : Excuses(G) /\ Cardinality(Entries(G)) <= Budget
    BY <2>1 DEF Settled
  <2>3. \A k \in Keys : tmp[k] = None
    BY <1>1 DEF RestInv, TmpHasWriter
  <2>4. stale = {}
    BY <1>1, <2>3 DEF DirInv, StaleAreThere
  <2> DEFINE X == ({"json"} \X G) \X (1..Chunks)
             E == Entries(G)
  <2>5. Blocks(Records) \subseteq E \cup X
    <3> SUFFICES ASSUME NEW b \in Blocks(Records), b \notin X PROVE b \in E
      OBVIOUS
    <3>1. b \in Counted \X (1..Chunks) /\ b[2] <= Size(FileOf(b[1]))
      BY DEF Blocks, Records
    <3>2. b[1] \in Paths /\ b[1][1] = "json" /\ json[b[1][2]] # None
      BY <2>4, <3>1 DEF Counted, Paths
    <3>3. b[1][2] \notin G
      BY <3>1, <3>2 DEF Paths
    <3> QED
      BY <3>1, <3>2, <3>3 DEF Entries, FileOf
  <2>6. IsFiniteSet(E) /\ Cardinality(E) \in Nat
    BY EntriesAreFinite
  <2>7. IsFiniteSet(G) /\ Cardinality(G) \in Nat
    BY FiniteSystem, FS_Subset, FS_CardinalityType
  <2>8. IsFiniteSet(X) /\ Cardinality(X) = Cardinality(G) * Chunks
    <3>1. IsFiniteSet({"json"}) /\ Cardinality({"json"}) = 1
      BY FS_Singleton
    <3>2. IsFiniteSet(1..Chunks) /\ Cardinality(1..Chunks) = Chunks
      BY UpTo, CacheConstants
    <3> DEFINE Y == {"json"} \X G
    <3>3. IsFiniteSet(Y) /\ Cardinality(Y) = 1 * Cardinality(G)
      BY <2>7, <3>1, FS_Product
    <3> HIDE DEF Y
    <3>4. IsFiniteSet(Y \X (1..Chunks)) /\ Cardinality(Y \X (1..Chunks)) = Cardinality(Y) * Chunks
      BY <3>2, <3>3, FS_Product
    <3> QED
      BY <2>7, <3>3, <3>4 DEF Y
  <2> HIDE DEF X, E
  <2>9. IsFiniteSet(E \cup X) /\ Cardinality(E \cup X) <= Cardinality(E) + Cardinality(X)
    <3>1. /\ IsFiniteSet(E \cup X)
          /\ Cardinality(E \cup X) = Cardinality(E) + Cardinality(X) - Cardinality(E \cap X)
      BY <2>6, <2>8, FS_Union
    <3>2. IsFiniteSet(E \cap X)
      BY <2>6, FS_Subset
    <3>3. Cardinality(E \cap X) \in Nat /\ Cardinality(X) \in Nat
      BY <2>8, <3>2, FS_CardinalityType
    <3> QED
      BY <2>6, <3>1, <3>3
  <2>10. SumSize(Records) \in Nat /\ SumSize(Records) <= Cardinality(E \cup X)
    <3>1. IsFiniteSet(Blocks(Records)) /\ SumSize(Records) \in Nat
      BY <1>1, RecordTypes, BlocksFinite
    <3>2. Cardinality(Blocks(Records)) <= Cardinality(E \cup X)
      BY <2>5, <2>9, FS_Subset
    <3> QED
      BY <3>1, <3>2 DEF SumSize
  <2>11. Cardinality(G) * Chunks <= Chunks * (Cardinality(Procs) - 1)
    <3>1. Cardinality(Procs) \in Nat
      BY FiniteSystem, FS_CardinalityType
    <3>2. Cardinality(G) <= Cardinality(Procs) - 1
      BY <2>2 DEF Excuses
    <3>3. \A a, c \in Int, n \in Nat : a <= c => a * n <= n * c
      OBVIOUS
    <3> QED
      BY <2>7, <3>1, <3>2, <3>3, CacheConstants
  <2>12. Cardinality(E) <= Budget
    BY <2>2 DEF E
  <2>13. Cardinality(E \cup X) \in Nat /\ Cardinality(X) \in Nat
    BY <2>8, <2>9, FS_CardinalityType
  <2>14. Chunks * (Cardinality(Procs) - 1) \in Int
    BY FiniteSystem, FS_CardinalityType, CacheConstants
  <2> QED
    BY <2>6, <2>8, <2>9, <2>10, <2>11, <2>12, <2>13, <2>14, CacheConstants
<1> QED
  BY <1>1, CacheSafe, RestSafe, DirSafe, BudgetSafe, PTL

=============================================================================
