------------------------------ MODULE CheckRun ------------------------------
(***************************************************************************)
(* run_check of cli/commands/check.py: concurrent `semantic-ci check` runs *)
(* in one repository, from the arguments to the exit code.                 *)
(*                                                                         *)
(* A commit stands for its tree, and the CodeState extracted from a tree   *)
(* is the tree itself; Partial is a CodeState with timed-out dimensions.   *)
(* The cache maps a tree id to the stored CodeState: that concurrent reads *)
(* and writes of one entry look atomic is CodeStateCache's Transparent.    *)
(* While runs are in progress other programs move refs, edit files, stage  *)
(* them and push.                                                          *)
(***************************************************************************)
EXTENDS Naturals, Sequences

CONSTANTS
    Procs,       \* concurrent runs
    Commits,     \* commits (and their trees)
    Drafts,      \* contents of the working tree or index never committed
    None,        \* no ref, no revision, no entry, no verdict
    Partial,     \* a CodeState with empty defaults for timed-out dimensions
    Requests,    \* the command lines considered
    Repos,       \* the initial values of refs
    MaxChanges,  \* bound on changes made by other programs
    MaxFaults    \* bound on crashes and failed cleanups

Sides == {"base", "cand"}
Sources == {"commit", "working-tree", "staged-index"}
Fallbacks == <<"origin/main", "main", "master">>
Refs == {"HEAD", "origin/main", "main", "master"}
Contents == Commits \cup Drafts
Judgements == {"pass", "repair", "fail"} \X {"pass", "fail", "unknown", "none"}

ASSUME CheckConstants ==
    /\ MaxChanges \in Nat /\ MaxFaults \in Nat
    /\ None \notin Contents /\ Partial \notin Contents /\ None # Partial
    /\ None \notin Refs /\ None \notin 0..4 /\ None \notin Requests
    /\ None \notin Judgements
    /\ Repos \subseteq [Refs -> Commits \cup {None}]
    /\ \A R \in Repos : R["HEAD"] # None
    /\ Requests \subseteq
          [source : [Sides -> Sources], rev : [Sides -> Refs \cup {None}],
           fetch : BOOLEAN, nocache : BOOLEAN, timeout : BOOLEAN,
           sensor : BOOLEAN, strict : BOOLEAN]

VARIABLES
    refs,        \* the repository's refs
    upstream,    \* the tip of main on the remote
    wt,          \* content of the working tree
    index,       \* content of the staged index
    cache,       \* cache[t]: CodeState stored for tree t, or None
    dirs,        \* temporary directories on disk, as <<run, side>>
    worktrees,   \* git worktrees registered in the repository
    pc,          \* where each run is
    req,         \* its command line
    ref,         \* ref[p][s]: the ref name chosen for side s
    rev,         \* rev[p][s]: the commit reported for side s
    tree,        \* tree[p][s]: what was materialised for side s
    treeId,      \* tree_id of the lookup in progress
    state,       \* state[p][s]: the CodeState judged for side s
    stack,       \* the contexts entered, innermost first
    code,        \* exit code, once decided
    judged,      \* <<code verdict, security status>> behind it
    changes,     \* changes made by other programs so far
    faults,      \* crashes and failed cleanups so far
    stable       \* no ref has changed under a run that had resolved it

repo == <<refs, upstream, wt, index>>
disk == <<cache, dirs, worktrees>>
run == <<pc, req, ref, rev, tree, treeId, state, stack, code, judged>>
vars == <<repo, disk, run, changes, faults, stable>>

-----------------------------------------------------------------------------
Labels == {"idle", "args", "refs", "sha", "target", "enter", "extract", "compute",
           "store", "unwind", "numstat", "judge", "exited"}

\* A program point and the side it works on.
Points == Labels \X Sides
At(p, l) == pc[p][1] = l
Side(p) == pc[p][2]
Goto(p, l, s) == pc' = [pc EXCEPT ![p] = <<l, s>>]

\* The steps that come once per side, the baseline first.
Then(p, l, next) ==
    IF Side(p) = "base" THEN Goto(p, l, "cand") ELSE Goto(p, next, "base")

\* _is_volatile_source
Volatile(p, s) == req[p].source[s] # "commit"

\* Mutant: the working tree and the index are cached under their ref's tree.
UseCacheVolatile(p, s) == ~req[p].nocache /\ ~req[p].timeout

\* use_cache, as _extract_code_state sees it.
UseCache(p, s) == ~req[p].nocache /\ ~req[p].timeout /\ ~Volatile(p, s)

\* What the extractors read for side s: the working tree is read in place.
Content(p, s) ==
    IF req[p].source[s] = "working-tree" THEN wt ELSE tree[p][s]

\* What extraction may yield; without a timeout it runs to completion.
Extractions(p, s) == {Content(p, s)} \cup (IF req[p].timeout THEN {Partial} ELSE {})

NoSide == [s \in Sides |-> None]

\* The exit code decided by an exception or by the verdict.
Decide(p, c) == code' = [code EXCEPT ![p] = c]
Raise(p, c) == Decide(p, c) /\ Goto(p, "unwind", "base")

\* The except clauses of run_check: 2 for a usage error, 3 for an engine
\* error, 4 for any other exception.
RaiseAny(p) == \E c \in 2..4 : Raise(p, c)

Init ==
    /\ refs \in Repos
    /\ upstream \in Commits
    /\ wt = refs["HEAD"] /\ index = refs["HEAD"]
    /\ cache = [t \in Commits |-> None]
    /\ dirs = {} /\ worktrees = {}
    /\ pc = [p \in Procs |-> <<"idle", "base">>]
    /\ req = [p \in Procs |-> None]
    /\ ref = [p \in Procs |-> NoSide]
    /\ rev = [p \in Procs |-> NoSide]
    /\ tree = [p \in Procs |-> NoSide]
    /\ treeId = [p \in Procs |-> None]
    /\ state = [p \in Procs |-> NoSide]
    /\ stack = [p \in Procs |-> <<>>]
    /\ code = [p \in Procs |-> None]
    /\ judged = [p \in Procs |-> None]
    /\ changes = 0 /\ faults = 0 /\ stable = TRUE

-----------------------------------------------------------------------------
(* Arguments and refs                                                      *)

Start(p, r) ==
    /\ At(p, "idle")
    /\ req' = [req EXCEPT ![p] = r]
    /\ Goto(p, "args", "base")
    /\ UNCHANGED <<repo, disk, ref, rev, tree, treeId, state, stack, code,
                   judged, changes, faults, stable>>

\* _reject_incompatible_rev, the sensor and advisory inputs, then whether
\* git and a repository are there.
Validate(p) ==
    /\ At(p, "args")
    /\ \/ /\ \A s \in Sides : Volatile(p, s) => req[p].rev[s] = None
          /\ Goto(p, "refs", "base")
          /\ UNCHANGED code
       \/ RaiseAny(p)
    /\ UNCHANGED <<repo, disk, req, ref, rev, tree, treeId, state, stack,
                   judged, changes, faults, stable>>

\* A run that has resolved its refs and goes on using their names.
Resolved(p) ==
    pc[p][1] \in {"target", "enter", "extract", "compute", "store", "numstat"}
    \/ (At(p, "unwind") /\ code[p] = None)
    \/ (At(p, "sha") /\ Side(p) = "cand")

RefsBecome(new) ==
    /\ refs' = new
    /\ stable' = (stable /\ (new = refs \/ \A p \in Procs : ~Resolved(p)))

\* A fetch of origin main: its failure is ignored.
AfterFetch(p) ==
    {refs} \cup (IF req[p].fetch
                 THEN {[refs EXCEPT !["origin/main"] = upstream]} ELSE {})

\* resolve_baseline takes the first fallback that exists.
FirstExisting(R) ==
    IF \E n \in 1..3 : R[Fallbacks[n]] # None
    THEN Fallbacks[CHOOSE n \in 1..3 : /\ R[Fallbacks[n]] # None
                                       /\ \A m \in 1..(n - 1) : R[Fallbacks[m]] = None]
    ELSE None

\* _resolve_baseline_ref and resolve_candidate: names, not yet commits.
ResolveRefs(p) ==
    LET r == req[p]
        cand == IF r.rev["cand"] # None THEN r.rev["cand"] ELSE "HEAD"
        Take(b) == /\ ref' = [ref EXCEPT ![p] = [base |-> b, cand |-> cand]]
                   /\ Goto(p, "sha", "base")
                   /\ UNCHANGED code
    IN  /\ At(p, "refs")
        /\ \/ /\ r.rev["base"] # None
              /\ Take(r.rev["base"])
              /\ UNCHANGED <<refs, stable>>
           \/ /\ r.rev["base"] = None
              /\ Volatile(p, "base") \/ r.source["cand"] = "staged-index"
              /\ Take("HEAD")
              /\ UNCHANGED <<refs, stable>>
           \/ /\ r.rev["base"] = None
              /\ ~Volatile(p, "base") /\ r.source["cand"] # "staged-index"
              /\ \E R \in AfterFetch(p) :
                    /\ RefsBecome(R)
                    /\ IF FirstExisting(R) = None
                       THEN Raise(p, 3) /\ UNCHANGED ref
                       ELSE Take(FirstExisting(R))
        /\ UNCHANGED <<upstream, wt, index, disk, req, rev, tree, treeId, state,
                       stack, judged, changes, faults>>

\* _resolve_commit_sha, for commit-backed sides only; git may fail for want of
\* the ref or for another reason.
ResolveSha(p) ==
    LET s == Side(p)
    IN  /\ At(p, "sha")
        /\ IF Volatile(p, s) THEN Then(p, "sha", "target") /\ UNCHANGED <<rev, code>>
           ELSE \/ Raise(p, 3) /\ UNCHANGED rev
                \/ /\ refs[ref[p][s]] # None
                   /\ rev' = [rev EXCEPT ![p][s] = refs[ref[p][s]]]
                   /\ Then(p, "sha", "target")
                   /\ UNCHANGED code
        /\ UNCHANGED <<repo, disk, req, ref, tree, treeId, state, stack, judged,
                       changes, faults, stable>>

\* The package root, the timeout and the cache size are parsed, then
\* discover_target and load_compiled_target.
LoadTarget(p) ==
    /\ At(p, "target")
    /\ \/ Goto(p, "enter", "base") /\ UNCHANGED code
       \/ RaiseAny(p)
    /\ UNCHANGED <<repo, disk, req, ref, rev, tree, treeId, state, stack,
                   judged, changes, faults, stable>>

-----------------------------------------------------------------------------
(* Snapshots                                                               *)

\* _source_context: git worktree add resolves the name again.
EnterSource(p) ==
    LET s == Side(p)
        source == req[p].source[s]
        commit == refs[ref[p][s]]
        Push == stack' = [stack EXCEPT ![p] = <<s>> \o @]
    IN  /\ At(p, "enter")
        /\ \/ /\ source = "working-tree"
              /\ Push /\ Then(p, "enter", "extract")
              /\ UNCHANGED <<dirs, worktrees, tree, code>>
           \/ /\ source = "staged-index"
              /\ Push /\ Then(p, "enter", "extract")
              /\ dirs' = dirs \cup {<<p, s>>}
              /\ tree' = [tree EXCEPT ![p][s] = index]
              /\ UNCHANGED <<worktrees, code>>
           \/ /\ source = "commit" /\ commit # None
              /\ Push /\ Then(p, "enter", "extract")
              /\ dirs' = dirs \cup {<<p, s>>}
              /\ worktrees' = worktrees \cup {<<p, s>>}
              /\ tree' = [tree EXCEPT ![p][s] = commit]
              /\ UNCHANGED code
           \/ \* the git command fails and its temporary directory goes, or
              \* there was none to be had (an OSError)
              /\ source # "working-tree"
              /\ \E c \in {3, 4} : Raise(p, c)
              /\ UNCHANGED <<stack, dirs, worktrees, tree>>
        /\ UNCHANGED <<repo, cache, req, ref, rev, treeId, state, judged,
                       changes, faults, stable>>

\* Mutant: the contexts are left but the worktree of the failing run stays.
LeaveOnSuccess(p) ==
    LET s == Head(stack[p])
    IN  /\ dirs' = dirs \ {<<p, s>>}
        /\ worktrees' = IF code[p] = None THEN worktrees \ {<<p, s>>} ELSE worktrees

\* git worktree remove --force, then the temporary directory.
Leave(p) ==
    LET s == Head(stack[p])
    IN  dirs' = dirs \ {<<p, s>>} /\ worktrees' = worktrees \ {<<p, s>>}

\* Mutant: the context that was entered first is dropped first.
UnwindOutermost(p) ==
    /\ At(p, "unwind")
    /\ stack[p] # <<>>
    /\ Leave(p)
    /\ stack' = [stack EXCEPT ![p] = SubSeq(@, 1, Len(@) - 1)]
    /\ UNCHANGED <<repo, cache, pc, req, ref, rev, tree, treeId, state, code,
                   judged, changes, faults, stable>>

\* ExitStack unwinds, innermost context first.
Unwind(p) ==
    /\ At(p, "unwind")
    /\ stack[p] # <<>>
    /\ Leave(p)
    /\ stack' = [stack EXCEPT ![p] = Tail(@)]
    /\ UNCHANGED <<repo, cache, pc, req, ref, rev, tree, treeId, state, code,
                   judged, changes, faults, stable>>

\* git fails to remove the worktree: a warning, or an error if git itself is
\* gone; or the directory cannot be deleted: an OSError.  An error replaces
\* whatever was being raised.
UnwindFails(p) ==
    LET s == Head(stack[p])
    IN  /\ At(p, "unwind")
        /\ stack[p] # <<>>
        /\ req[p].source[s] # "working-tree"
        /\ faults < MaxFaults
        /\ faults' = faults + 1
        /\ stack' = [stack EXCEPT ![p] = Tail(@)]
        /\ \/ /\ req[p].source[s] = "commit"
              /\ dirs' = dirs \ {<<p, s>>}
              /\ UNCHANGED code \/ Decide(p, 3)
              /\ UNCHANGED worktrees
           \/ Decide(p, 4) /\ UNCHANGED <<dirs, worktrees>>
        /\ UNCHANGED <<repo, cache, pc, req, ref, rev, tree, treeId, state,
                       judged, changes, stable>>

Unwound(p) ==
    /\ At(p, "unwind")
    /\ stack[p] = <<>>
    /\ Goto(p, IF code[p] = None THEN "numstat" ELSE "exited", "base")
    /\ UNCHANGED <<repo, disk, req, ref, rev, tree, treeId, state, stack, code,
                   judged, changes, faults, stable>>

-----------------------------------------------------------------------------
(* _extract_code_state                                                     *)

\* The package root or the extract config of either side may be unusable.
BadPackage(p) ==
    /\ At(p, "extract") /\ Side(p) = "base"
    /\ RaiseAny(p)
    /\ UNCHANGED <<repo, disk, req, ref, rev, tree, treeId, state, stack,
                   judged, changes, faults, stable>>

ExtractUncached(p) ==
    LET s == Side(p)
    IN  /\ At(p, "extract")
        /\ ~UseCache(p, s)
        /\ \/ /\ \E x \in Extractions(p, s) : state' = [state EXCEPT ![p][s] = x]
              /\ Then(p, "extract", "unwind")
              /\ UNCHANGED code
           \/ Raise(p, 3) /\ UNCHANGED state
        /\ UNCHANGED <<repo, disk, req, ref, rev, tree, treeId, stack, judged,
                       changes, faults, stable>>

\* Mutant: the baseline is looked up under the candidate's ref.
KeyRefSwapped(p, s) == ref[p]["cand"]

\* The ref whose tree tree_object_id puts into the cache key.
KeyRef(p, s) == ref[p][s]

\* tree_object_id resolves the name a third time, and git may fail;
\* read_cached_code_state.
Lookup(p) ==
    LET s == Side(p)
        t == refs[KeyRef(p, s)]
    IN  /\ At(p, "extract")
        /\ UseCache(p, s)
        /\ \/ Raise(p, 3) /\ UNCHANGED <<state, treeId>>
           \/ /\ t # None /\ cache[t] # None
              /\ state' = [state EXCEPT ![p][s] = cache[t]]
              /\ Then(p, "extract", "unwind")
              /\ UNCHANGED <<treeId, code>>
           \/ /\ t # None /\ cache[t] = None
              /\ treeId' = [treeId EXCEPT ![p] = t]
              /\ Goto(p, "compute", s)
              /\ UNCHANGED <<state, code>>
        /\ UNCHANGED <<repo, disk, req, ref, rev, tree, stack, judged, changes,
                       faults, stable>>

Compute(p) ==
    LET s == Side(p)
    IN  /\ At(p, "compute")
        /\ \/ /\ \E x \in Extractions(p, s) : state' = [state EXCEPT ![p][s] = x]
              /\ Goto(p, "store", s)
              /\ UNCHANGED code
           \/ Raise(p, 3) /\ UNCHANGED state
        /\ UNCHANGED <<repo, disk, req, ref, rev, tree, treeId, stack, judged,
                       changes, faults, stable>>

\* write_cached_code_state: its failure is counted and ignored.
Store(p) ==
    LET s == Side(p)
    IN  /\ At(p, "store")
        /\ \/ cache' = [cache EXCEPT ![treeId[p]] = state[p][s]]
           \/ UNCHANGED cache
        /\ treeId' = [treeId EXCEPT ![p] = None]
        /\ Then(p, "extract", "unwind")
        /\ UNCHANGED <<repo, dirs, worktrees, req, ref, rev, tree, state, stack,
                       code, judged, changes, faults, stable>>

-----------------------------------------------------------------------------
(* The verdict and the exit code                                           *)

\* git diff --numstat uses the names once more.
Numstat(p) ==
    /\ At(p, "numstat")
    /\ \/ Goto(p, "judge", "base") /\ UNCHANGED code
       \/ ~Volatile(p, "base") /\ RaiseAny(p)
    /\ UNCHANGED <<repo, disk, req, ref, rev, tree, treeId, state, stack,
                   judged, changes, faults, stable>>

\* _RANK of suite/evaluator.py
Rank == [pass |-> 0, repair |-> 1, fail |-> 2, unknown |-> 3]

\* Mutant: a code verdict always outranks a security status.
CombineVerdictCode(v, sec) == v

\* combine_verdict: unknown > fail > repair > pass.
CombineVerdict(v, sec) == IF Rank[v] >= Rank[sec] THEN v ELSE sec

\* _exit_code_for and _exit_code_for_suite
ExitCode(final, strict) ==
    CASE final = "unknown" -> 3
      [] final = "fail" -> 1
      [] final = "repair" /\ strict -> 1
      [] OTHER -> 0

\* evaluate_security_detail is called when sensor states are given.
SecurityStatuses(p) == IF req[p].sensor THEN {"pass", "fail", "unknown"} ELSE {"none"}

\* evaluate_constraints, evaluate_security_detail, and the output.
Judge(p) ==
    /\ At(p, "judge")
    /\ \E v \in {"pass", "repair", "fail"}, sec \in SecurityStatuses(p) :
          \/ /\ Decide(p, ExitCode(IF req[p].sensor THEN CombineVerdict(v, sec) ELSE v,
                                   req[p].strict))
             /\ judged' = [judged EXCEPT ![p] = <<v, sec>>]
          \/ \* bad suppressions, unwritable output, or a bug
             /\ \E c \in {2, 4} : Decide(p, c)
             /\ UNCHANGED judged
    /\ Goto(p, "exited", "base")
    /\ UNCHANGED <<repo, disk, req, ref, rev, tree, treeId, state, stack,
                   changes, faults, stable>>

Fresh(p) ==
    /\ Goto(p, "idle", "base")
    /\ ref' = [ref EXCEPT ![p] = NoSide]
    /\ rev' = [rev EXCEPT ![p] = NoSide]
    /\ tree' = [tree EXCEPT ![p] = NoSide]
    /\ treeId' = [treeId EXCEPT ![p] = None]
    /\ state' = [state EXCEPT ![p] = NoSide]
    /\ stack' = [stack EXCEPT ![p] = <<>>]
    /\ code' = [code EXCEPT ![p] = None]
    /\ judged' = [judged EXCEPT ![p] = None]
    /\ req' = [req EXCEPT ![p] = None]

\* The process ends; the next one may start.
Exit(p) ==
    /\ At(p, "exited")
    /\ Fresh(p)
    /\ UNCHANGED <<repo, disk, changes, faults, stable>>

\* The process is killed: nothing is unwound.
Crash(p) ==
    /\ ~At(p, "idle") /\ ~At(p, "exited")
    /\ faults < MaxFaults
    /\ faults' = faults + 1
    /\ Fresh(p)
    /\ UNCHANGED <<repo, disk, changes, stable>>

-----------------------------------------------------------------------------
(* Other programs                                                          *)

\* A commit, checkout, reset or fetch outside these runs.
MoveRef(r, c) ==
    /\ changes < MaxChanges
    /\ changes' = changes + 1
    /\ refs[r] \notin {None, c}
    /\ RefsBecome([refs EXCEPT ![r] = c])
    /\ UNCHANGED <<upstream, wt, index, disk, run, faults>>

\* An editor, git add, or a push to the remote.
Edit(d) ==
    /\ changes < MaxChanges
    /\ changes' = changes + 1
    /\ \/ wt # d /\ wt' = d /\ UNCHANGED <<upstream, index>>
       \/ index # d /\ index' = d /\ UNCHANGED <<upstream, wt>>
       \/ d \in Commits /\ upstream # d /\ upstream' = d /\ UNCHANGED <<wt, index>>
    /\ UNCHANGED <<refs, disk, run, faults, stable>>

\* Eviction by any run, or a user who deletes entries.
Evict(t) ==
    /\ cache[t] # None
    /\ cache' = [cache EXCEPT ![t] = None]
    /\ UNCHANGED <<repo, dirs, worktrees, run, changes, faults, stable>>

Step(p) ==
    \/ Validate(p) \/ ResolveRefs(p) \/ ResolveSha(p) \/ LoadTarget(p)
    \/ EnterSource(p) \/ BadPackage(p) \/ ExtractUncached(p)
    \/ Lookup(p) \/ Compute(p) \/ Store(p)
    \/ Unwind(p) \/ UnwindFails(p) \/ Unwound(p)
    \/ Numstat(p) \/ Judge(p) \/ Exit(p)

Next ==
    \/ \E p \in Procs : Step(p) \/ Crash(p) \/ \E r \in Requests : Start(p, r)
    \/ \E r \in Refs, c \in Commits : MoveRef(r, c)
    \/ \E d \in Contents : Edit(d)
    \/ \E t \in Commits : Evict(t)

Spec == Init /\ [][Next]_vars

-----------------------------------------------------------------------------
(* Properties                                                              *)

\* Every value has its type, and a run holds the contexts of its stack only.
TypeOK ==
    /\ refs \in [Refs -> Commits \cup {None}]
    /\ upstream \in Commits /\ wt \in Contents /\ index \in Contents
    /\ cache \in [Commits -> Contents \cup {None, Partial}]
    /\ dirs \in SUBSET (Procs \X Sides) /\ worktrees \in SUBSET (Procs \X Sides)
    /\ pc \in [Procs -> Points]
    /\ req \in [Procs -> Requests \cup {None}]
    /\ ref \in [Procs -> [Sides -> Refs \cup {None}]]
    /\ rev \in [Procs -> [Sides -> Commits \cup {None}]]
    /\ tree \in [Procs -> [Sides -> Contents \cup {None}]]
    /\ treeId \in [Procs -> Commits \cup {None}]
    /\ state \in [Procs -> [Sides -> Contents \cup {None, Partial}]]
    /\ stack \in [Procs -> {<<>>, <<"base">>, <<"cand", "base">>}]
    /\ code \in [Procs -> {None, 0, 1, 2, 3, 4}]
    /\ judged \in [Procs -> Judgements \cup {None}]
    /\ changes \in 0..MaxChanges /\ faults \in 0..MaxFaults /\ stable \in BOOLEAN

\* As long as no ref moves under a run that has resolved it, a cache entry is
\* the complete CodeState of the very tree in its key: however the working
\* tree and the index are edited meanwhile, and whatever times out, neither
\* volatile nor partial extractions reach the cache.
CacheExact == stable => \A t \in Commits : cache[t] \in {None, t}

\* A commit-backed side that is judged is the commit the report names.
JudgedIsReported(p) ==
    At(p, "judge") =>
        \A s \in Sides : rev[p][s] # None => state[p][s] \in {rev[p][s], Partial}

\* It is so as long as no ref moves under a run that has resolved it.
ReportNamesWhatWasJudged == stable => \A p \in Procs : JudgedIsReported(p)

\* docs/json_schema.md on `rev`: "a resolved commit SHA for commit-backed
\* sources", the commit of the comparison that is reported.
RevIsJudged == \A p \in Procs : JudgedIsReported(p)

\* Without a crash or a failed cleanup, every exit leaves the repository with
\* no temporary directory and no registered worktree of its own, whichever
\* step raised.
NoResidue ==
    faults = 0 =>
        \A p \in Procs : stack[p] = <<>> =>
            \A s \in Sides : <<p, s>> \notin dirs \cup worktrees

\* Exit 0 means that both sides were extracted and that neither the code
\* verdict nor, when sensors are given, the security status is a failure or
\* unknown; no error path ends in 0 or 1.
ExitZeroMeansPassed ==
    \A p \in Procs : At(p, "exited") /\ code[p] \in {0, 1} =>
        /\ judged[p] # None
        /\ \A s \in Sides : state[p][s] # None
        /\ code[p] = 0 =>
              /\ judged[p][1] # "fail"
              /\ judged[p][1] = "repair" => ~req[p].strict
              /\ req[p].sensor => judged[p][2] = "pass"

\* The warning of run_check for two volatile sides of one source: "verdict
\* will report no drift by construction".
NoDriftByConstruction ==
    \A p \in Procs :
        At(p, "judge") /\ Volatile(p, "base")
            /\ req[p].source["base"] = req[p].source["cand"]
        => Partial \in {state[p]["base"], state[p]["cand"]}
              \/ state[p]["base"] = state[p]["cand"]

=============================================================================
