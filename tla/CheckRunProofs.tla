--------------------------- MODULE CheckRunProofs ---------------------------
(***************************************************************************)
(* CheckRun keeps its cache exact, reports the commits it judged and       *)
(* leaves nothing behind, for any number of concurrent runs, commits,      *)
(* command lines, changes by other programs and faults.                    *)
(*                                                                         *)
(* The inductive invariant says how far each run has got: which contexts   *)
(* it holds, and which of its ref name, reported commit, snapshot, cache   *)
(* key and CodeState already agree.  Only the agreement with refs can be   *)
(* broken by another actor, and then `stable' has become FALSE.            *)
(***************************************************************************)
EXTENDS CheckRun, SequenceTheorems, TLAPS

\* The points between the resolution of the refs and the end of extraction.
Busy == {"target", "enter", "extract", "compute", "store"}
Extracting == {"extract", "compute", "store"}

\* Side s has a snapshot that extraction has not left yet.
Entered(p, s) ==
    pc[p][1] \in Extracting \/ (At(p, "enter") /\ Side(p) = "cand" /\ s = "base")

\* The CodeState of side s is there.
Extracted(p, s) ==
    \/ pc[p][1] \in Extracting /\ Side(p) = "cand" /\ s = "base"
    \/ At(p, "unwind") /\ code[p] = None
    \/ pc[p][1] \in {"numstat", "judge"}

\* What a run has, whatever the other programs do.
Shape(p) ==
    /\ ~At(p, "idle") => req[p] \in Requests
    /\ pc[p][1] \in {"idle", "args", "refs"} => rev[p] = NoSide
    /\ ~At(p, "idle") => \A s \in Sides : Volatile(p, s) => rev[p][s] = None
    /\ pc[p][1] \in Busy \cup {"sha"} => \A s \in Sides : ref[p][s] \in Refs
    /\ pc[p][1] \in {"compute", "store"} => UseCache(p, Side(p)) /\ treeId[p] \in Commits

\* The contexts a run holds at each point.
Held(p) ==
    /\ At(p, "enter") => stack[p] = (IF Side(p) = "base" THEN <<>> ELSE <<"base">>)
    /\ pc[p][1] \in Extracting => stack[p] = <<"cand", "base">>
    /\ pc[p][1] \notin {"enter", "unwind"} \cup Extracting => stack[p] = <<>>

\* What the values of a commit-backed side have to do with each other.
Exact(p) ==
    \A s \in Sides : ~Volatile(p, s) =>
        /\ pc[p][1] \in Busy \/ (At(p, "sha") /\ Side(p) = "cand" /\ s = "base")
              => rev[p][s] = refs[ref[p][s]]
        /\ Entered(p, s) => tree[p][s] = rev[p][s]
        /\ pc[p][1] \in {"compute", "store"} /\ Side(p) = s => treeId[p] = rev[p][s]
        /\ At(p, "store") /\ Side(p) = s => state[p][s] = rev[p][s]
        /\ Extracted(p, s) => state[p][s] \in {rev[p][s], Partial}

\* Without faults, a directory or worktree belongs to a context still held.
OwnResidue(p) ==
    faults = 0 =>
        \A s \in Sides : <<p, s>> \in dirs \cup worktrees =>
            \/ stack[p] = <<"base">> /\ s = "base"
            \/ stack[p] = <<"cand", "base">>

RunInv(p) == Shape(p) /\ Held(p) /\ (stable => Exact(p)) /\ OwnResidue(p)

CheckInv == TypeOK /\ CacheExact /\ \A p \in Procs : RunInv(p)

-----------------------------------------------------------------------------
(* Helpers                                                                 *)

\* The fallback that resolve_baseline takes is a ref.
LEMMA FirstExistingType ==
    ASSUME NEW R PROVE FirstExisting(R) \in Refs \cup {None}
  <1>1. CASE ~\E n \in 1..3 : R[Fallbacks[n]] # None
    BY <1>1 DEF FirstExisting
  <1>2. CASE \E n \in 1..3 : R[Fallbacks[n]] # None
    <2> DEFINE P(n) == /\ R[Fallbacks[n]] # None
                       /\ \A m \in 1..(n - 1) : R[Fallbacks[m]] = None
               k == CHOOSE n \in 1..3 : P(n)
    <2>1. \E n \in 1..3 : P(n)
      <3>1. CASE R[Fallbacks[1]] # None
        BY <3>1
      <3>2. CASE R[Fallbacks[1]] = None /\ R[Fallbacks[2]] # None
        BY <3>2
      <3>3. CASE R[Fallbacks[1]] = None /\ R[Fallbacks[2]] = None
        <4>1. R[Fallbacks[3]] # None
          BY <1>2, <3>3
        <4> QED BY <4>1, <3>3
      <3> QED BY <3>1, <3>2, <3>3
    <2>2. k \in 1..3
      BY <2>1
    <2>3. FirstExisting(R) = Fallbacks[k]
      BY <1>2 DEF FirstExisting
    <2>4. \A n \in 1..3 : Fallbacks[n] \in Refs
      BY DEF Fallbacks, Refs
    <2> QED BY <2>2, <2>3, <2>4
  <1> QED BY <1>1, <1>2

\* A jump, and the two that come after a side, lead to a program point.
LEMMA GotoType ==
    ASSUME NEW p \in Procs, NEW l \in Labels, NEW s \in Sides, TypeOK, Goto(p, l, s)
    PROVE  pc' \in [Procs -> Points]
  BY DEF TypeOK, Goto, Points

LEMMA ThenType ==
    ASSUME NEW p \in Procs, NEW l \in Labels, NEW n \in Labels, TypeOK, Then(p, l, n)
    PROVE  pc' \in [Procs -> Points]
  BY GotoType DEF Then, Sides

LEMMA DecideType ==
    ASSUME NEW p \in Procs, NEW c \in 0..4, TypeOK, Decide(p, c)
    PROVE  code' \in [Procs -> {None, 0, 1, 2, 3, 4}]
  BY DEF TypeOK, Decide

LEMMA RaiseType ==
    ASSUME NEW p \in Procs, NEW c \in 0..4, TypeOK, Raise(p, c)
    PROVE  /\ pc' \in [Procs -> Points]
           /\ code' \in [Procs -> {None, 0, 1, 2, 3, 4}]
  BY GotoType, DecideType DEF Raise, Labels, Sides

LEMMA RaiseAnyType ==
    ASSUME NEW p \in Procs, TypeOK, RaiseAny(p)
    PROVE  /\ pc' \in [Procs -> Points]
           /\ code' \in [Procs -> {None, 0, 1, 2, 3, 4}]
  BY RaiseType DEF RaiseAny

\* An assignment to one side of one run.
LEMMA SideUpdate ==
    ASSUME NEW S, NEW f \in [Procs -> [Sides -> S]], NEW p \in Procs, NEW s \in Sides,
           NEW v \in S
    PROVE  [f EXCEPT ![p][s] = v] \in [Procs -> [Sides -> S]]
  OBVIOUS

\* Pushing a context on the shorter stacks.
LEMMA PushEmpty == ASSUME NEW a PROVE <<a>> \o <<>> = <<a>>
  OBVIOUS

LEMMA PushOne == ASSUME NEW a, NEW b PROVE <<a>> \o <<b>> = <<a, b>>
  <1> DEFINE x == <<a>> \o <<b>>
             y == <<a, b>>
  <1>1. x \in Seq({a, b}) /\ y \in Seq({a, b})
    OBVIOUS
  <1>2. Len(x) = Len(y)
    OBVIOUS
  <1>3. \A i \in 1..Len(x) : x[i] = y[i]
    OBVIOUS
  <1> HIDE DEF x, y
  <1>4. x = y
    BY <1>1, <1>2, <1>3, SeqEqual
  <1> QED BY <1>4 DEF x, y

\* The stacks of a run.
LEMMA Stacks ==
    /\ Tail(<<"base">>) = <<>> /\ Head(<<"base">>) = "base"
    /\ Tail(<<"cand", "base">>) = <<"base">> /\ Head(<<"cand", "base">>) = "cand"
    /\ <<"base">> \o <<>> = <<"base">> /\ <<"cand">> \o <<"base">> = <<"cand", "base">>
    /\ <<"base">> # <<>> /\ <<"cand", "base">> # <<>> /\ <<"cand", "base">> # <<"base">>
  <1>1. Tail(<<"base">>) = <<>>
    OBVIOUS
  <1>2. Head(<<"base">>) = "base"
    OBVIOUS
  <1>3. Tail(<<"cand", "base">>) = <<"base">>
    OBVIOUS
  <1>4. Head(<<"cand", "base">>) = "cand"
    OBVIOUS
  <1>5. <<"base">> \o <<>> = <<"base">>
    BY PushEmpty
  <1>6. <<"cand">> \o <<"base">> = <<"cand", "base">>
    BY PushOne
  <1>7. <<"base">> # <<>> /\ <<"cand", "base">> # <<>> /\ <<"cand", "base">> # <<"base">>
    OBVIOUS
  <1> QED BY <1>1, <1>2, <1>3, <1>4, <1>5, <1>6, <1>7

\* What an action leaves of a run it is not about.
SameRun(q) ==
    /\ pc'[q] = pc[q] /\ req'[q] = req[q] /\ ref'[q] = ref[q] /\ rev'[q] = rev[q]
    /\ tree'[q] = tree[q] /\ treeId'[q] = treeId[q] /\ state'[q] = state[q]
    /\ stack'[q] = stack[q] /\ code'[q] = code[q]

\* refs may change under q only if q does not rely on them or stable ends.
SafeRefs(q) == stable' => stable /\ (refs' = refs \/ ~Resolved(q))

\* The disk gains nothing of q's, and no fault is undone.
SafeDisk(q) ==
    /\ faults' = 0 => faults = 0
    /\ \A s \in Sides :
          <<q, s>> \in dirs' \cup worktrees' => <<q, s>> \in dirs \cup worktrees

LEMMA Untouched ==
    ASSUME NEW q, RunInv(q), SameRun(q), SafeRefs(q), SafeDisk(q) PROVE RunInv(q)'
  <1>1. Shape(q)'
    BY DEF RunInv, Shape, SameRun, At, Side, Volatile, UseCache
  <1>2. Held(q)'
    BY DEF RunInv, Held, SameRun, At, Side
  <1>3. (stable => Exact(q))'
    <2>1. SUFFICES ASSUME stable' PROVE Exact(q)'
      OBVIOUS
    <2>2. Exact(q) /\ (refs' = refs \/ ~Resolved(q))
      BY <2>1 DEF RunInv, SafeRefs
    <2> QED BY <2>2 DEF Exact, SameRun, At, Side, Volatile, Entered, Extracted, Resolved,
                        Busy, Extracting
  <1>4. OwnResidue(q)'
    BY DEF RunInv, OwnResidue, SameRun, SafeDisk
  <1> QED BY <1>1, <1>2, <1>3, <1>4 DEF RunInv


\* The frame of an action of run p.
Others(p) == \A q \in Procs \ {p} : SameRun(q) /\ SafeRefs(q) /\ SafeDisk(q)

LEMMA StepKeepsInv ==
    ASSUME NEW p \in Procs, CheckInv, TypeOK', CacheExact', Others(p),
           Shape(p)', Held(p)', (stable => Exact(p))', OwnResidue(p)'
    PROVE  CheckInv'
  <1>1. \A q \in Procs \ {p} : RunInv(q)'
    BY Untouched DEF CheckInv, Others
  <1>2. RunInv(p)'
    BY DEF RunInv
  <1> QED BY <1>1, <1>2 DEF CheckInv

-----------------------------------------------------------------------------
(* One lemma per action                                                    *)

\* A run that starts holds nothing yet.
LEMMA StartInv ==
    ASSUME NEW p \in Procs, NEW r \in Requests, CheckInv, Start(p, r) PROVE CheckInv'
  <1> TypeOK /\ CacheExact /\ RunInv(p)
    BY DEF CheckInv
  <1>1. TypeOK'
    BY CheckConstants DEF TypeOK, Points, Labels, Sides, NoSide, repo, disk, Start, At,
       Side, Goto
  <1>2. Others(p)
    BY DEF TypeOK, Others, SameRun, SafeRefs, SafeDisk, repo, disk, Start, Goto
  <1>3. Shape(p)'
    BY CheckConstants DEF TypeOK, RunInv, Shape, Busy, Sides, NoSide, Volatile,
       UseCache, Start, At, Side, Goto
  <1>4. Held(p)'
    BY DEF TypeOK, RunInv, Held, Extracting, Start, At, Side, Goto
  <1>5. (stable => Exact(p))'
    BY CheckConstants DEF TypeOK, RunInv, Exact, Entered, Extracted, Busy, Extracting,
       Volatile, Start, At, Side, Goto
  <1>6. CacheExact'
    BY DEF CacheExact, disk, Start
  <1>7. OwnResidue(p)'
    BY DEF RunInv, OwnResidue, disk, Start
  <1> QED BY <1>1, <1>2, <1>3, <1>4, <1>5, <1>6, <1>7, StepKeepsInv

\* A usage error leaves nothing behind, and a volatile side names no revision.
LEMMA ValidateInv ==
    ASSUME NEW p \in Procs, CheckInv, Validate(p) PROVE CheckInv'
  <1> TypeOK /\ CacheExact /\ RunInv(p)
    BY DEF CheckInv
  <1>1. TypeOK'
    <2>1. pc' \in [Procs -> Points]
      BY GotoType, ThenType, RaiseType, RaiseAnyType DEF Validate, Labels, Sides
    <2>2. code' \in [Procs -> {None, 0, 1, 2, 3, 4}]
      BY RaiseAnyType DEF TypeOK, Validate
    <2> QED BY <2>1, <2>2 DEF TypeOK, repo, disk, Validate
  <1>2. Others(p)
    BY DEF TypeOK, Others, SameRun, SafeRefs, SafeDisk, repo, disk, Validate, RaiseAny,
       Raise, Decide, Goto
  <1>3. Shape(p)'
    BY DEF TypeOK, RunInv, Shape, Busy, Volatile, UseCache, Validate, RaiseAny, Raise,
       Decide, At, Side, Goto
  <1>4. Held(p)'
    BY DEF TypeOK, RunInv, Held, Extracting, Validate, RaiseAny, Raise, Decide, At,
       Side, Goto
  <1>5. (stable => Exact(p))'
    BY CheckConstants DEF TypeOK, RunInv, Exact, Entered, Extracted, Busy, Extracting,
       Volatile, Validate, RaiseAny, Raise, Decide, At, Side, Goto
  <1>6. CacheExact'
    BY DEF CacheExact, disk, Validate
  <1>7. OwnResidue(p)'
    BY DEF RunInv, OwnResidue, disk, Validate
  <1> QED BY <1>1, <1>2, <1>3, <1>4, <1>5, <1>6, <1>7, StepKeepsInv

\* The commit reported for a side is the one its ref names at that time.
LEMMA ResolveShaInv ==
    ASSUME NEW p \in Procs, CheckInv, ResolveSha(p) PROVE CheckInv'
  <1> TypeOK /\ CacheExact /\ RunInv(p)
    BY DEF CheckInv
  <1>0. Side(p) \in Sides /\ pc[p][1] \in Labels
    BY DEF TypeOK, Points, Side
  <1>1. TypeOK'
    <2>1. pc' \in [Procs -> Points]
      BY GotoType, ThenType, RaiseType, RaiseAnyType DEF ResolveSha, Labels, Sides
    <2>2. code' \in [Procs -> {None, 0, 1, 2, 3, 4}]
      BY DEF TypeOK, ResolveSha, Raise, Decide
    <2>3. rev' \in [Procs -> [Sides -> Commits \cup {None}]]
      <3>1. CASE UNCHANGED rev
        BY <3>1 DEF TypeOK
      <3>2. CASE /\ refs[ref[p][Side(p)]] # None /\ ~Volatile(p, Side(p))
                 /\ rev' = [rev EXCEPT ![p][Side(p)] = refs[ref[p][Side(p)]]]
        <4>1. ref[p][Side(p)] \in Refs
          BY <1>0 DEF RunInv, Shape, ResolveSha, At
        <4>2. refs[ref[p][Side(p)]] \in Commits
          <5>1. \A r \in Refs : refs[r] # None => refs[r] \in Commits
            BY DEF TypeOK
          <5> QED BY <3>2, <4>1, <5>1
        <4>3. rev' = [rev EXCEPT ![p][Side(p)] = refs[ref[p][Side(p)]]]
          BY <3>2
        <4> QED BY <1>0, <4>2, <4>3, SideUpdate DEF TypeOK
      <3> QED BY <3>1, <3>2 DEF ResolveSha
    <2> QED BY <2>1, <2>2, <2>3 DEF TypeOK, repo, disk, ResolveSha
  <1>2. Others(p)
    BY DEF TypeOK, Others, SameRun, SafeRefs, SafeDisk, repo, disk, ResolveSha, Then,
       Raise, Decide, Goto
  <1>3. Shape(p)'
    BY DEF TypeOK, RunInv, Shape, Busy, Volatile, UseCache, ResolveSha, Then, Raise,
       Decide, At, Side, Goto
  <1>4. Held(p)'
    BY DEF TypeOK, RunInv, Held, Extracting, ResolveSha, Then, Raise, Decide, At, Side,
       Goto
  <1>5. (stable => Exact(p))'
    BY <1>0, CheckConstants DEF TypeOK, RunInv, Shape, Exact, Entered, Extracted, Busy,
       Extracting, Volatile, UseCache, Sides, repo, ResolveSha, Then, Raise, Decide, At,
       Side, Goto
  <1>6. CacheExact'
    BY DEF CacheExact, disk, ResolveSha
  <1>7. OwnResidue(p)'
    BY DEF RunInv, OwnResidue, disk, ResolveSha
  <1> QED BY <1>1, <1>2, <1>3, <1>4, <1>5, <1>6, <1>7, StepKeepsInv

\* Loading the target touches neither refs nor contexts.
LEMMA LoadTargetInv ==
    ASSUME NEW p \in Procs, CheckInv, LoadTarget(p) PROVE CheckInv'
  <1> TypeOK /\ CacheExact /\ RunInv(p)
    BY DEF CheckInv
  <1>0. Side(p) \in Sides /\ pc[p][1] \in Labels
    BY DEF TypeOK, Points, Side
  <1>1. TypeOK'
    <2>1. pc' \in [Procs -> Points]
      BY GotoType, ThenType, RaiseType, RaiseAnyType DEF LoadTarget, Labels, Sides
    <2>2. code' \in [Procs -> {None, 0, 1, 2, 3, 4}]
      BY RaiseAnyType DEF TypeOK, LoadTarget
    <2> QED BY <2>1, <2>2 DEF TypeOK, repo, disk, LoadTarget
  <1>2. Others(p)
    BY DEF TypeOK, Others, SameRun, SafeRefs, SafeDisk, repo, disk, LoadTarget,
       RaiseAny, Raise, Decide, Goto
  <1>3. Shape(p)'
    BY DEF TypeOK, RunInv, Shape, Busy, Volatile, UseCache, LoadTarget, RaiseAny, Raise,
       Decide, At, Side, Goto
  <1>4. Held(p)'
    BY DEF TypeOK, RunInv, Held, Extracting, LoadTarget, RaiseAny, Raise, Decide, At,
       Side, Goto
  <1>5. (stable => Exact(p))'
    BY <1>0, CheckConstants DEF TypeOK, RunInv, Shape, Exact, Entered, Extracted, Busy,
       Extracting, Volatile, UseCache, Sides, repo, LoadTarget, RaiseAny, Raise, Decide,
       At, Side, Goto
  <1>6. CacheExact'
    BY DEF CacheExact, disk, LoadTarget
  <1>7. OwnResidue(p)'
    BY DEF RunInv, OwnResidue, disk, LoadTarget
  <1> QED BY <1>1, <1>2, <1>3, <1>4, <1>5, <1>6, <1>7, StepKeepsInv

\* The snapshot of a commit-backed side is the commit that was reported.
LEMMA EnterSourceInv ==
    ASSUME NEW p \in Procs, CheckInv, EnterSource(p) PROVE CheckInv'
  <1> TypeOK /\ CacheExact /\ RunInv(p)
    BY DEF CheckInv
  <1>0. Side(p) \in Sides /\ pc[p][1] \in Labels
    BY DEF TypeOK, Points, Side
  <1>1. TypeOK'
    <2>1. pc' \in [Procs -> Points]
      BY GotoType, ThenType, RaiseType, RaiseAnyType DEF EnterSource, Labels, Sides
    <2>2. code' \in [Procs -> {None, 0, 1, 2, 3, 4}]
      BY DEF TypeOK, EnterSource, Raise, Decide
    <2>3. tree' \in [Procs -> [Sides -> Contents \cup {None}]]
      <3>1. refs[ref[p][Side(p)]] \in Commits \cup {None} /\ index \in Contents
        BY <1>0 DEF TypeOK, RunInv, Shape, Busy, EnterSource, At
      <3>2. CASE UNCHANGED tree
        BY <3>2 DEF TypeOK
      <3>3. ASSUME NEW x \in {index, refs[ref[p][Side(p)]]},
                   tree' = [tree EXCEPT ![p][Side(p)] = x]
            PROVE  tree' \in [Procs -> [Sides -> Contents \cup {None}]]
        <4>1. x \in Contents \cup {None}
          BY <3>1, <3>3 DEF Contents
        <4> QED BY <1>0, <3>3, <4>1, SideUpdate DEF TypeOK
      <3> QED BY <3>2, <3>3 DEF EnterSource
    <2>4. stack' \in [Procs -> {<<>>, <<"base">>, <<"cand", "base">>}]
      BY <1>0, Stacks DEF TypeOK, RunInv, Held, Sides, EnterSource, At, Side
    <2>5. dirs' \in SUBSET (Procs \X Sides)
      BY DEF TypeOK, Points, Sides, EnterSource, Then, Raise, Decide, At, Side, Goto
    <2>6. worktrees' \in SUBSET (Procs \X Sides)
      BY DEF TypeOK, Points, Sides, EnterSource, Then, Raise, Decide, At, Side, Goto
    <2> QED BY <2>1, <2>2, <2>3, <2>4, <2>5, <2>6 DEF TypeOK, repo, disk, EnterSource
  <1>2. Others(p)
    BY DEF TypeOK, Others, SameRun, SafeRefs, SafeDisk, repo, disk, EnterSource, Then,
       Raise, Decide, Goto
  <1>3. Shape(p)'
    BY DEF TypeOK, RunInv, Shape, Busy, Volatile, UseCache, EnterSource, Then, Raise,
       Decide, At, Side, Goto
  <1>4. Held(p)'
    <2>1. At(p, "enter") /\ stack[p] = (IF Side(p) = "base" THEN <<>> ELSE <<"base">>)
      BY DEF EnterSource, RunInv, Held
    <2>2. CASE (\E c \in {3, 4} : Raise(p, c)) /\ UNCHANGED <<stack, dirs, worktrees>>
      BY <2>2 DEF TypeOK, Held, Raise, Extracting, At, Side, Goto
    <2>3. CASE stack' = [stack EXCEPT ![p] = <<Side(p)>> \o @] /\ Then(p, "enter", "extract")
      <3>1. CASE Side(p) = "base"
        <4>1. stack'[p] = <<"base">> /\ pc'[p] = <<"enter", "cand">>
          BY <2>1, <2>3, <3>1, Stacks DEF TypeOK, Then, Goto
        <4> QED BY <4>1 DEF Held, Extracting, At, Side
      <3>2. CASE Side(p) = "cand"
        <4>1. stack'[p] = <<"cand", "base">> /\ pc'[p] = <<"extract", "base">>
          BY <2>1, <2>3, <3>2, Stacks DEF TypeOK, Then, Goto
        <4> QED BY <4>1 DEF Held, Extracting, At, Side
      <3> QED BY <1>0, <3>1, <3>2 DEF Sides
    <2> QED BY <2>2, <2>3 DEF EnterSource
  <1>5. (stable => Exact(p))'
    BY <1>0, CheckConstants DEF TypeOK, RunInv, Shape, Exact, Entered, Extracted, Busy,
       Extracting, Volatile, UseCache, Sides, repo, EnterSource, Then, Raise, Decide, At,
       Side, Goto
  <1>6. CacheExact'
    BY DEF CacheExact, disk, EnterSource
  <1>7. OwnResidue(p)'
    <2>1. At(p, "enter") /\ stack[p] = (IF Side(p) = "base" THEN <<>> ELSE <<"base">>)
      BY DEF EnterSource, RunInv, Held
    <2>2. CASE (\E c \in {3, 4} : Raise(p, c)) /\ UNCHANGED <<stack, dirs, worktrees>>
      BY <2>2 DEF RunInv, OwnResidue, EnterSource
    <2>3. CASE stack' = [stack EXCEPT ![p] = <<Side(p)>> \o @] /\ Then(p, "enter", "extract")
      <3>1. CASE Side(p) = "base"
        <4>1. stack'[p] = <<"base">> /\ pc'[p] = <<"enter", "cand">>
          BY <2>1, <2>3, <3>1, Stacks DEF TypeOK, Then, Goto
        <4> QED BY <2>1, <3>1, <4>1, Stacks DEF RunInv, OwnResidue, EnterSource
      <3>2. CASE Side(p) = "cand"
        <4>1. stack'[p] = <<"cand", "base">> /\ pc'[p] = <<"extract", "base">>
          BY <2>1, <2>3, <3>2, Stacks DEF TypeOK, Then, Goto
        <4> QED BY <4>1 DEF OwnResidue
      <3> QED BY <1>0, <3>1, <3>2 DEF Sides
    <2> QED BY <2>2, <2>3 DEF EnterSource
  <1> QED BY <1>1, <1>2, <1>3, <1>4, <1>5, <1>6, <1>7, StepKeepsInv

\* An unusable package is noticed while both contexts are held.
LEMMA BadPackageInv ==
    ASSUME NEW p \in Procs, CheckInv, BadPackage(p) PROVE CheckInv'
  <1> TypeOK /\ CacheExact /\ RunInv(p)
    BY DEF CheckInv
  <1>1. TypeOK'
    <2>1. pc' \in [Procs -> Points]
      BY GotoType, ThenType, RaiseType, RaiseAnyType DEF BadPackage, Labels, Sides
    <2>2. code' \in [Procs -> {None, 0, 1, 2, 3, 4}]
      BY RaiseAnyType DEF TypeOK, BadPackage
    <2> QED BY <2>1, <2>2 DEF TypeOK, repo, disk, BadPackage
  <1>2. Others(p)
    BY DEF TypeOK, Others, SameRun, SafeRefs, SafeDisk, repo, disk, BadPackage,
       RaiseAny, Raise, Decide, Goto
  <1>3. Shape(p)'
    BY DEF TypeOK, RunInv, Shape, Busy, Volatile, UseCache, BadPackage, RaiseAny, Raise,
       Decide, At, Side, Goto
  <1>4. Held(p)'
    BY DEF TypeOK, RunInv, Held, Extracting, BadPackage, RaiseAny, Raise, Decide, At,
       Side, Goto
  <1>5. (stable => Exact(p))'
    BY CheckConstants DEF TypeOK, RunInv, Exact, Entered, Extracted, Busy, Extracting,
       Volatile, BadPackage, RaiseAny, Raise, Decide, At, Side, Goto
  <1>6. CacheExact'
    BY DEF CacheExact, disk, BadPackage
  <1>7. OwnResidue(p)'
    BY DEF RunInv, OwnResidue, disk, BadPackage
  <1> QED BY <1>1, <1>2, <1>3, <1>4, <1>5, <1>6, <1>7, StepKeepsInv

\* An extraction past the cache is that of the snapshot, or partial.
LEMMA ExtractUncachedInv ==
    ASSUME NEW p \in Procs, CheckInv, ExtractUncached(p) PROVE CheckInv'
  <1> TypeOK /\ CacheExact /\ RunInv(p)
    BY DEF CheckInv
  <1>0. Side(p) \in Sides /\ pc[p][1] \in Labels
    BY DEF TypeOK, Points, Side
  <1>1. TypeOK'
    <2>1. pc' \in [Procs -> Points]
      BY GotoType, ThenType, RaiseType, RaiseAnyType DEF ExtractUncached, Labels, Sides
    <2>2. code' \in [Procs -> {None, 0, 1, 2, 3, 4}]
      BY DEF TypeOK, ExtractUncached, Raise, Decide
    <2>3. state' \in [Procs -> [Sides -> Contents \cup {None, Partial}]]
      <3>1. CASE UNCHANGED state
        BY <3>1 DEF TypeOK
      <3>2. ASSUME NEW x \in Extractions(p, Side(p)),
                   state' = [state EXCEPT ![p][Side(p)] = x]
            PROVE  state' \in [Procs -> [Sides -> Contents \cup {None, Partial}]]
        <4>1. x \in Contents \cup {None, Partial}
          BY <1>0, <3>2 DEF TypeOK, Extractions, Content
        <4> QED BY <1>0, <3>2, <4>1, SideUpdate DEF TypeOK
      <3> QED BY <3>1, <3>2 DEF ExtractUncached
    <2> QED BY <2>1, <2>2, <2>3 DEF TypeOK, repo, disk, ExtractUncached
  <1>2. Others(p)
    BY DEF TypeOK, Others, SameRun, SafeRefs, SafeDisk, repo, disk, ExtractUncached,
       Then, Raise, Decide, Extractions, Content, Goto
  <1>3. Shape(p)'
    BY DEF TypeOK, RunInv, Shape, Busy, Volatile, UseCache, ExtractUncached, Then,
       Raise, Decide, Extractions, Content, At, Side, Goto
  <1>4. Held(p)'
    BY DEF TypeOK, RunInv, Held, Extracting, ExtractUncached, Then, Raise, Decide,
       Extractions, Content, At, Side, Goto
  <1>5. (stable => Exact(p))'
    BY <1>0, CheckConstants DEF TypeOK, RunInv, Shape, Exact, Entered, Extracted, Busy,
       Extracting, Volatile, UseCache, Sides, repo, ExtractUncached, Then, Raise, Decide,
       Extractions, Content, At, Side, Goto
  <1>6. CacheExact'
    BY DEF CacheExact, disk, ExtractUncached
  <1>7. OwnResidue(p)'
    BY DEF RunInv, OwnResidue, disk, ExtractUncached
  <1> QED BY <1>1, <1>2, <1>3, <1>4, <1>5, <1>6, <1>7, StepKeepsInv

\* A hit is the CodeState of the reported commit, and a miss takes its tree as the key.
LEMMA LookupInv ==
    ASSUME NEW p \in Procs, CheckInv, Lookup(p) PROVE CheckInv'
  <1> TypeOK /\ CacheExact /\ RunInv(p)
    BY DEF CheckInv
  <1>0. Side(p) \in Sides /\ pc[p][1] \in Labels
    BY DEF TypeOK, Points, Side
  <1>1. TypeOK'
    <2>1. pc' \in [Procs -> Points]
      BY <1>0, GotoType, ThenType, RaiseType DEF Lookup, Labels
    <2>2. code' \in [Procs -> {None, 0, 1, 2, 3, 4}]
      BY DEF TypeOK, Lookup, Raise, Decide
    <2>3. state' \in [Procs -> [Sides -> Contents \cup {None, Partial}]]
      <3>1. CASE UNCHANGED state
        BY <3>1 DEF TypeOK
      <3>2. CASE state' = [state EXCEPT ![p][Side(p)] = cache[refs[ref[p][Side(p)]]]]
                    /\ refs[ref[p][Side(p)]] # None
        <4>1. refs[ref[p][Side(p)]] \in Commits
          BY <1>0, <3>2 DEF TypeOK, RunInv, Shape, Busy, Lookup, At
        <4>2. cache[refs[ref[p][Side(p)]]] \in Contents \cup {None, Partial}
          BY <4>1 DEF TypeOK
        <4> QED BY <1>0, <3>2, <4>2, SideUpdate DEF TypeOK
      <3> QED BY <3>1, <3>2 DEF Lookup, KeyRef
    <2>4. treeId' \in [Procs -> Commits \cup {None}]
      <3>1. refs[ref[p][Side(p)]] \in Commits \cup {None}
        BY <1>0 DEF TypeOK, RunInv, Shape, Busy, Lookup, At
      <3> QED BY <3>1 DEF TypeOK, Lookup, KeyRef
    <2> QED BY <2>1, <2>2, <2>3, <2>4 DEF TypeOK, repo, disk, Lookup
  <1>2. Others(p)
    BY DEF TypeOK, Others, SameRun, SafeRefs, SafeDisk, repo, disk, Lookup, Then, Raise,
       Decide, KeyRef, Goto
  <1>3. Shape(p)'
    BY CheckConstants DEF TypeOK, RunInv, Shape, Busy, Extracting, Points, Labels,
       Sides, NoSide, Volatile, UseCache, Lookup, Then, Raise, Decide, KeyRef, At, Side,
       Goto
  <1>4. Held(p)'
    BY DEF TypeOK, RunInv, Held, Extracting, Lookup, Then, Raise, Decide, KeyRef, At,
       Side, Goto
  <1>5. (stable => Exact(p))'
    BY CheckConstants DEF TypeOK, RunInv, Shape, Exact, Entered, Extracted, Busy,
       Extracting, Points, Labels, Sides, Contents, Volatile, UseCache, CacheExact, repo,
       disk, Lookup, Then, Raise, Decide, KeyRef, At, Side, Goto
  <1>6. CacheExact'
    BY DEF CacheExact, disk, Lookup
  <1>7. OwnResidue(p)'
    BY DEF RunInv, OwnResidue, disk, Lookup
  <1> QED BY <1>1, <1>2, <1>3, <1>4, <1>5, <1>6, <1>7, StepKeepsInv

\* After a miss the snapshot is extracted in full.
LEMMA ComputeInv ==
    ASSUME NEW p \in Procs, CheckInv, Compute(p) PROVE CheckInv'
  <1> TypeOK /\ CacheExact /\ RunInv(p)
    BY DEF CheckInv
  <1>0. Side(p) \in Sides /\ pc[p][1] \in Labels
    BY DEF TypeOK, Points, Side
  <1>1. TypeOK'
    <2>1. pc' \in [Procs -> Points]
      BY <1>0, GotoType, RaiseType DEF Compute, Labels
    <2>2. code' \in [Procs -> {None, 0, 1, 2, 3, 4}]
      BY DEF TypeOK, Compute, Raise, Decide
    <2>3. state' \in [Procs -> [Sides -> Contents \cup {None, Partial}]]
      <3>1. CASE UNCHANGED state
        BY <3>1 DEF TypeOK
      <3>2. ASSUME NEW x \in Extractions(p, Side(p)),
                   state' = [state EXCEPT ![p][Side(p)] = x]
            PROVE  state' \in [Procs -> [Sides -> Contents \cup {None, Partial}]]
        <4>1. x \in Contents \cup {None, Partial}
          BY <1>0, <3>2 DEF TypeOK, Extractions, Content
        <4> QED BY <1>0, <3>2, <4>1, SideUpdate DEF TypeOK
      <3> QED BY <3>1, <3>2 DEF Compute
    <2> QED BY <2>1, <2>2, <2>3 DEF TypeOK, repo, disk, Compute
  <1>2. Others(p)
    BY DEF TypeOK, Others, SameRun, SafeRefs, SafeDisk, repo, disk, Compute, Raise,
       Decide, Extractions, Content, Goto
  <1>3. Shape(p)'
    BY DEF TypeOK, RunInv, Shape, Busy, Volatile, UseCache, Compute, Raise, Decide,
       Extractions, Content, At, Side, Goto
  <1>4. Held(p)'
    BY DEF TypeOK, RunInv, Held, Extracting, Compute, Raise, Decide, Extractions,
       Content, At, Side, Goto
  <1>5. (stable => Exact(p))'
    BY <1>0, CheckConstants DEF TypeOK, RunInv, Shape, Exact, Entered, Extracted, Busy,
       Extracting, Volatile, UseCache, Sides, repo, Compute, Raise, Decide, Extractions,
       Content, At, Side, Goto
  <1>6. CacheExact'
    BY DEF CacheExact, disk, Compute
  <1>7. OwnResidue(p)'
    BY DEF RunInv, OwnResidue, disk, Compute
  <1> QED BY <1>1, <1>2, <1>3, <1>4, <1>5, <1>6, <1>7, StepKeepsInv

\* What is stored is the CodeState of the tree in the key.
LEMMA StoreInv ==
    ASSUME NEW p \in Procs, CheckInv, Store(p) PROVE CheckInv'
  <1> TypeOK /\ CacheExact /\ RunInv(p)
    BY DEF CheckInv
  <1>0. Side(p) \in Sides /\ pc[p][1] \in Labels
    BY DEF TypeOK, Points, Side
  <1>1. TypeOK'
    <2>1. pc' \in [Procs -> Points]
      BY <1>0, ThenType DEF Store, Labels
    <2>2. treeId' \in [Procs -> Commits \cup {None}]
      BY DEF TypeOK, RunInv, Shape, Busy, Sides, Points, Store, Then, At, Side, Goto
    <2>3. cache' \in [Commits -> Contents \cup {None, Partial}]
      <3>1. state[p][Side(p)] \in Contents \cup {None, Partial}
        BY <1>0 DEF TypeOK
      <3> QED BY <3>1 DEF TypeOK, Store
    <2> QED BY <2>1, <2>2, <2>3 DEF TypeOK, repo, disk, Store
  <1>2. Others(p)
    BY DEF TypeOK, Others, SameRun, SafeRefs, SafeDisk, repo, disk, Store, Then, Goto
  <1>3. Shape(p)'
    BY DEF TypeOK, RunInv, Shape, Busy, Volatile, UseCache, Store, Then, At, Side, Goto
  <1>4. Held(p)'
    BY DEF TypeOK, RunInv, Held, Extracting, Store, Then, At, Side, Goto
  <1>5. (stable => Exact(p))'
    BY <1>0, CheckConstants DEF TypeOK, RunInv, Shape, Exact, Entered, Extracted, Busy,
       Extracting, Volatile, UseCache, Sides, repo, Store, Then, At, Side, Goto
  <1>6. CacheExact'
    <2>1. SUFFICES ASSUME stable' PROVE \A t \in Commits : cache'[t] \in {None, t}
      BY DEF CacheExact
    <2>2. stable /\ (\A t \in Commits : cache[t] \in {None, t}) /\ Exact(p)
      BY <2>1 DEF Store, CacheExact, RunInv
    <2>3. ~Volatile(p, Side(p)) /\ At(p, "store")
      BY DEF Store, RunInv, Shape, UseCache, At
    <2>4. treeId[p] = state[p][Side(p)]
      BY <1>0, <2>2, <2>3 DEF Exact, At
    <2> QED BY <2>2, <2>4 DEF Store, TypeOK
  <1>7. OwnResidue(p)'
    BY DEF RunInv, OwnResidue, disk, Store
  <1> QED BY <1>1, <1>2, <1>3, <1>4, <1>5, <1>6, <1>7, StepKeepsInv

\* Leaving a context removes what it made.
LEMMA UnwindInv ==
    ASSUME NEW p \in Procs, CheckInv, Unwind(p) PROVE CheckInv'
  <1> TypeOK /\ CacheExact /\ RunInv(p)
    BY DEF CheckInv
  <1>1. TypeOK'
    <2>1. stack' \in [Procs -> {<<>>, <<"base">>, <<"cand", "base">>}]
      BY Stacks DEF TypeOK, Unwind
    <2>2. dirs' \in SUBSET (Procs \X Sides)
      BY DEF TypeOK, Points, Sides, Unwind, Leave, At, Side, Goto
    <2>3. worktrees' \in SUBSET (Procs \X Sides)
      BY DEF TypeOK, Points, Sides, Unwind, Leave, At, Side, Goto
    <2> QED BY <2>1, <2>2, <2>3 DEF TypeOK, repo, disk, Unwind
  <1>2. Others(p)
    BY DEF TypeOK, Others, SameRun, SafeRefs, SafeDisk, repo, disk, Unwind, Leave, Goto
  <1>3. Shape(p)'
    BY DEF TypeOK, RunInv, Shape, Busy, Volatile, UseCache, Unwind, Leave, At, Side,
       Goto
  <1>4. Held(p)'
    BY DEF TypeOK, RunInv, Held, Extracting, Unwind, Leave, At, Side, Goto
  <1>5. (stable => Exact(p))'
    BY CheckConstants DEF TypeOK, RunInv, Exact, Entered, Extracted, Busy, Extracting,
       Volatile, Unwind, Leave, At, Side, Goto
  <1>6. CacheExact'
    BY DEF CacheExact, disk, Unwind
  <1>7. OwnResidue(p)'
    BY Stacks DEF TypeOK, RunInv, OwnResidue, Sides, Unwind, Leave
  <1> QED BY <1>1, <1>2, <1>3, <1>4, <1>5, <1>6, <1>7, StepKeepsInv

\* A failed cleanup is a fault.
LEMMA UnwindFailsInv ==
    ASSUME NEW p \in Procs, CheckInv, UnwindFails(p) PROVE CheckInv'
  <1> TypeOK /\ CacheExact /\ RunInv(p)
    BY DEF CheckInv
  <1>1. TypeOK'
    <2>1. stack' \in [Procs -> {<<>>, <<"base">>, <<"cand", "base">>}]
      BY Stacks DEF TypeOK, UnwindFails
    <2>2. dirs' \in SUBSET (Procs \X Sides)
      BY DEF TypeOK, Points, Sides, UnwindFails, Decide, At, Side, Goto
    <2>3. worktrees' \in SUBSET (Procs \X Sides)
      BY DEF TypeOK, Points, Sides, UnwindFails, Decide, At, Side, Goto
    <2>4. faults' \in 0..MaxFaults
      BY CheckConstants DEF TypeOK, UnwindFails
    <2>5. code' \in [Procs -> {None, 0, 1, 2, 3, 4}]
      BY DEF TypeOK, UnwindFails, Decide
    <2> QED BY <2>1, <2>2, <2>3, <2>4, <2>5 DEF TypeOK, repo, disk, UnwindFails
  <1>2. Others(p)
    BY DEF TypeOK, Others, SameRun, SafeRefs, SafeDisk, repo, disk, UnwindFails, Decide,
       Goto
  <1>3. Shape(p)'
    BY DEF TypeOK, RunInv, Shape, Busy, Volatile, UseCache, UnwindFails, Decide, At,
       Side, Goto
  <1>4. Held(p)'
    BY DEF TypeOK, RunInv, Held, Extracting, UnwindFails, Decide, At, Side, Goto
  <1>5. (stable => Exact(p))'
    BY CheckConstants DEF TypeOK, RunInv, Exact, Entered, Extracted, Busy, Extracting,
       Volatile, UnwindFails, Decide, At, Side, Goto
  <1>6. CacheExact'
    BY DEF CacheExact, disk, UnwindFails
  <1>7. OwnResidue(p)'
    BY DEF TypeOK, RunInv, Held, OwnResidue, Extracting, disk, UnwindFails, Decide, At,
       Side, Goto
  <1> QED BY <1>1, <1>2, <1>3, <1>4, <1>5, <1>6, <1>7, StepKeepsInv

\* A run goes on to its verdict only with both CodeStates.
LEMMA UnwoundInv ==
    ASSUME NEW p \in Procs, CheckInv, Unwound(p) PROVE CheckInv'
  <1> TypeOK /\ CacheExact /\ RunInv(p)
    BY DEF CheckInv
  <1>1. TypeOK'
    <2>1. pc' \in [Procs -> Points]
      BY GotoType, ThenType, RaiseType, RaiseAnyType DEF Unwound, Labels, Sides
    <2> QED BY <2>1 DEF TypeOK, repo, disk, Unwound
  <1>2. Others(p)
    BY DEF TypeOK, Others, SameRun, SafeRefs, SafeDisk, repo, disk, Unwound, Goto
  <1>3. Shape(p)'
    BY DEF TypeOK, RunInv, Shape, Busy, Volatile, UseCache, Unwound, At, Side, Goto
  <1>4. Held(p)'
    BY DEF TypeOK, RunInv, Held, Extracting, Unwound, At, Side, Goto
  <1>5. (stable => Exact(p))'
    BY CheckConstants DEF TypeOK, RunInv, Exact, Entered, Extracted, Busy, Extracting,
       Volatile, Unwound, At, Side, Goto
  <1>6. CacheExact'
    BY DEF CacheExact, disk, Unwound
  <1>7. OwnResidue(p)'
    BY DEF RunInv, OwnResidue, disk, Unwound
  <1> QED BY <1>1, <1>2, <1>3, <1>4, <1>5, <1>6, <1>7, StepKeepsInv

\* The diff statistics change no CodeState.
LEMMA NumstatInv ==
    ASSUME NEW p \in Procs, CheckInv, Numstat(p) PROVE CheckInv'
  <1> TypeOK /\ CacheExact /\ RunInv(p)
    BY DEF CheckInv
  <1>1. TypeOK'
    <2>1. pc' \in [Procs -> Points]
      BY GotoType, ThenType, RaiseType, RaiseAnyType DEF Numstat, Labels, Sides
    <2>2. code' \in [Procs -> {None, 0, 1, 2, 3, 4}]
      BY RaiseAnyType DEF TypeOK, Numstat
    <2> QED BY <2>1, <2>2 DEF TypeOK, repo, disk, Numstat
  <1>2. Others(p)
    BY DEF TypeOK, Others, SameRun, SafeRefs, SafeDisk, repo, disk, Numstat, RaiseAny,
       Raise, Decide, Goto
  <1>3. Shape(p)'
    BY DEF TypeOK, RunInv, Shape, Busy, Volatile, UseCache, Numstat, RaiseAny, Raise,
       Decide, At, Side, Goto
  <1>4. Held(p)'
    BY DEF TypeOK, RunInv, Held, Extracting, Numstat, RaiseAny, Raise, Decide, At, Side,
       Goto
  <1>5. (stable => Exact(p))'
    BY CheckConstants DEF TypeOK, RunInv, Exact, Entered, Extracted, Busy, Extracting,
       Volatile, Numstat, RaiseAny, Raise, Decide, At, Side, Goto
  <1>6. CacheExact'
    BY DEF CacheExact, disk, Numstat
  <1>7. OwnResidue(p)'
    BY DEF RunInv, OwnResidue, disk, Numstat
  <1> QED BY <1>1, <1>2, <1>3, <1>4, <1>5, <1>6, <1>7, StepKeepsInv

\* The verdict is about what was extracted.
LEMMA JudgeInv ==
    ASSUME NEW p \in Procs, CheckInv, Judge(p) PROVE CheckInv'
  <1> TypeOK /\ CacheExact /\ RunInv(p)
    BY DEF CheckInv
  <1>1. TypeOK'
    <2>1. pc' \in [Procs -> Points]
      BY GotoType, ThenType, RaiseType, RaiseAnyType DEF Judge, Labels, Sides
    <2>2. code' \in [Procs -> {None, 0, 1, 2, 3, 4}]
      BY DEF TypeOK, Judge, Decide, ExitCode
    <2>3. judged' \in [Procs -> Judgements \cup {None}]
      <3>1. \A v \in {"pass", "repair", "fail"}, sec \in SecurityStatuses(p) :
                <<v, sec>> \in Judgements
        BY DEF SecurityStatuses, Judgements
      <3>2. judged' = judged \/ \E j \in Judgements : judged' = [judged EXCEPT ![p] = j]
        BY <3>1 DEF Judge
      <3> QED BY <3>2 DEF TypeOK
    <2> QED BY <2>1, <2>2, <2>3 DEF TypeOK, repo, disk, Judge
  <1>2. Others(p)
    BY DEF TypeOK, Others, SameRun, SafeRefs, SafeDisk, repo, disk, Judge, Decide,
       ExitCode, Goto
  <1>3. Shape(p)'
    BY DEF TypeOK, RunInv, Shape, Busy, Volatile, UseCache, Judge, Decide, ExitCode, At,
       Side, Goto
  <1>4. Held(p)'
    BY DEF TypeOK, RunInv, Held, Extracting, Judge, Decide, ExitCode, At, Side, Goto
  <1>5. (stable => Exact(p))'
    BY CheckConstants DEF TypeOK, RunInv, Exact, Entered, Extracted, Busy, Extracting,
       Volatile, Judge, Decide, ExitCode, At, Side, Goto
  <1>6. CacheExact'
    BY DEF CacheExact, disk, Judge
  <1>7. OwnResidue(p)'
    BY DEF RunInv, OwnResidue, disk, Judge
  <1> QED BY <1>1, <1>2, <1>3, <1>4, <1>5, <1>6, <1>7, StepKeepsInv

\* A finished run forgets everything.
LEMMA ExitInv ==
    ASSUME NEW p \in Procs, CheckInv, Exit(p) PROVE CheckInv'
  <1> TypeOK /\ CacheExact /\ RunInv(p)
    BY DEF CheckInv
  <1>1. TypeOK'
    BY CheckConstants DEF TypeOK, Points, Labels, Sides, NoSide, repo, disk, Exit,
       Fresh, At, Side, Goto
  <1>2. Others(p)
    BY DEF TypeOK, Others, SameRun, SafeRefs, SafeDisk, repo, disk, Exit, Fresh, Goto
  <1>3. Shape(p)'
    BY DEF TypeOK, RunInv, Shape, Busy, Volatile, UseCache, Exit, Fresh, At, Side, Goto
  <1>4. Held(p)'
    BY DEF TypeOK, RunInv, Held, Extracting, Exit, Fresh, At, Side, Goto
  <1>5. (stable => Exact(p))'
    BY CheckConstants DEF TypeOK, RunInv, Exact, Entered, Extracted, Busy, Extracting,
       Volatile, Exit, Fresh, At, Side, Goto
  <1>6. CacheExact'
    BY DEF CacheExact, disk, Exit
  <1>7. OwnResidue(p)'
    BY DEF TypeOK, RunInv, Held, OwnResidue, Extracting, disk, Exit, Fresh, At, Side,
       Goto
  <1> QED BY <1>1, <1>2, <1>3, <1>4, <1>5, <1>6, <1>7, StepKeepsInv

\* A killed run forgets everything, and what it leaves counts as a fault.
LEMMA CrashInv ==
    ASSUME NEW p \in Procs, CheckInv, Crash(p) PROVE CheckInv'
  <1> TypeOK /\ CacheExact /\ RunInv(p)
    BY DEF CheckInv
  <1>1. TypeOK'
    BY CheckConstants DEF TypeOK, Points, Labels, Sides, NoSide, repo, disk, Crash,
       Fresh, At, Side, Goto
  <1>2. Others(p)
    BY DEF TypeOK, Others, SameRun, SafeRefs, SafeDisk, repo, disk, Crash, Fresh, Goto
  <1>3. Shape(p)'
    BY DEF TypeOK, RunInv, Shape, Busy, Volatile, UseCache, Crash, Fresh, At, Side, Goto
  <1>4. Held(p)'
    BY DEF TypeOK, RunInv, Held, Extracting, Crash, Fresh, At, Side, Goto
  <1>5. (stable => Exact(p))'
    BY CheckConstants DEF TypeOK, RunInv, Exact, Entered, Extracted, Busy, Extracting,
       Volatile, Crash, Fresh, At, Side, Goto
  <1>6. CacheExact'
    BY DEF CacheExact, disk, Crash
  <1>7. OwnResidue(p)'
    BY DEF TypeOK, RunInv, Held, OwnResidue, Extracting, disk, Crash, Fresh, At, Side,
       Goto
  <1> QED BY <1>1, <1>2, <1>3, <1>4, <1>5, <1>6, <1>7, StepKeepsInv

\* Refs are named, not yet resolved: a fetch may move them under other runs.
LEMMA ResolveRefsInv ==
    ASSUME NEW p \in Procs, CheckInv, ResolveRefs(p) PROVE CheckInv'
  <1> TypeOK /\ CacheExact /\ RunInv(p)
    BY DEF CheckInv
  <1>0. At(p, "refs") /\ req[p] \in Requests /\ rev[p] = NoSide /\ stack[p] = <<>>
    BY DEF ResolveRefs, RunInv, Shape, Held, At, Extracting
  <1> DEFINE Named == \E b \in Refs, c \in Refs :
                        /\ ref' = [ref EXCEPT ![p] = [base |-> b, cand |-> c]]
                        /\ Goto(p, "sha", "base")
                        /\ UNCHANGED code
             Failed == Raise(p, 3) /\ UNCHANGED ref
  <1>1. Named \/ Failed
    <2> DEFINE c == IF req[p].rev["cand"] # None THEN req[p].rev["cand"] ELSE "HEAD"
    <2>1. /\ req[p].rev["base"] \in Refs \cup {None}
          /\ req[p].rev["cand"] \in Refs \cup {None}
      BY <1>0, CheckConstants DEF Sides
    <2>2. c \in Refs /\ "HEAD" \in Refs
      BY <2>1 DEF Refs
    <2>3. CASE req[p].rev["base"] # None
      BY <2>1, <2>2, <2>3 DEF ResolveRefs
    <2>4. CASE req[p].rev["base"] = None
      BY <2>2, <2>4, FirstExistingType DEF ResolveRefs
    <2> QED BY <2>3, <2>4
  <1>2. /\ refs' \in [Refs -> Commits \cup {None}]
        /\ stable' \in BOOLEAN
        /\ stable' => stable /\ (refs' = refs \/ \A q \in Procs : ~Resolved(q))
    <2>1. CASE UNCHANGED <<refs, stable>>
      BY <2>1 DEF TypeOK
    <2>2. ASSUME NEW R \in AfterFetch(p), RefsBecome(R)
          PROVE  /\ refs' \in [Refs -> Commits \cup {None}]
                 /\ stable' \in BOOLEAN
                 /\ stable' => stable /\ (refs' = refs \/ \A q \in Procs : ~Resolved(q))
      <3>1. R \in [Refs -> Commits \cup {None}]
        BY <2>2 DEF TypeOK, AfterFetch
      <3>2. refs' = R /\ stable' = (stable /\ (R = refs \/ \A q \in Procs : ~Resolved(q)))
        BY <2>2 DEF RefsBecome
      <3> QED BY <3>1, <3>2
    <2> QED BY <2>1, <2>2 DEF ResolveRefs
  <1>3. TypeOK'
    <2>1. CASE Named
      <3>1. ref' \in [Procs -> [Sides -> Refs \cup {None}]]
        BY <2>1 DEF TypeOK, Sides
      <3>2. pc' \in [Procs -> Points]
        BY <2>1, GotoType DEF Labels, Sides
      <3> QED BY <1>2, <2>1, <3>1, <3>2 DEF TypeOK, ResolveRefs, disk
    <2>2. CASE Failed
      <3>1. pc' \in [Procs -> Points] /\ code' \in [Procs -> {None, 0, 1, 2, 3, 4}]
        BY <2>2, RaiseType
      <3> QED BY <1>2, <2>2, <3>1 DEF TypeOK, ResolveRefs, disk
    <2> QED BY <1>1, <2>1, <2>2
  <1>4. Others(p)
    <2>1. \A q \in Procs \ {p} : SameRun(q)
      BY <1>1 DEF TypeOK, SameRun, ResolveRefs, Goto, Raise, Decide
    <2> QED BY <1>2, <2>1 DEF Others, SafeRefs, SafeDisk, ResolveRefs, disk
  <1>5. \/ At(p, "sha")' /\ Side(p)' = "base" /\ \A s \in Sides : ref'[p][s] \in Refs
        \/ At(p, "unwind")' /\ code'[p] # None
    BY <1>1, CheckConstants DEF TypeOK, At, Side, Goto, Raise, Decide, Sides
  <1>6. req'[p] = req[p] /\ rev'[p] = NoSide /\ stack'[p] = <<>>
    BY <1>0 DEF ResolveRefs
  <1>7. Shape(p)'
    BY <1>0, <1>5, <1>6 DEF Shape, At, Busy, NoSide, Sides
  <1>8. Held(p)'
    BY <1>5, <1>6 DEF Held, At, Extracting
  <1>9. (stable => Exact(p))'
    BY <1>5 DEF Exact, Entered, Extracted, Busy, Extracting, At, Side
  <1>10. CacheExact'
    BY <1>2 DEF CacheExact, ResolveRefs, disk
  <1>11. OwnResidue(p)'
    BY <1>6, <1>0 DEF RunInv, OwnResidue, ResolveRefs, disk
  <1> QED BY <1>3, <1>4, <1>7, <1>8, <1>9, <1>10, <1>11, StepKeepsInv

\* Other programs move refs, edit contents and evict entries.
LEMMA EnvironmentInv ==
    ASSUME CheckInv,
           \/ \E r \in Refs, c \in Commits : MoveRef(r, c)
           \/ \E d \in Contents : Edit(d)
           \/ \E t \in Commits : Evict(t)
           \/ UNCHANGED vars
    PROVE  CheckInv'
  <1> TypeOK /\ CacheExact
    BY DEF CheckInv
  <1>1. TypeOK'
    <2>1. ASSUME NEW r \in Refs, NEW c \in Commits, MoveRef(r, c) PROVE TypeOK'
      BY <2>1, CheckConstants DEF TypeOK, MoveRef, RefsBecome, disk, run
    <2>2. ASSUME NEW d \in Contents, Edit(d) PROVE TypeOK'
      BY <2>2, CheckConstants DEF TypeOK, Edit, disk, run
    <2>3. ASSUME NEW t \in Commits, Evict(t) PROVE TypeOK'
      BY <2>3 DEF TypeOK, Evict, repo, run
    <2>4. CASE UNCHANGED vars
      BY <2>4 DEF TypeOK, vars, repo, disk, run
    <2> QED BY <2>1, <2>2, <2>3, <2>4
  <1>2. CacheExact'
    BY DEF TypeOK, CacheExact, MoveRef, RefsBecome, Edit, Evict, vars, repo, disk
  <1>3. ASSUME NEW q \in Procs PROVE RunInv(q)'
    <2>1. SameRun(q)
      BY DEF SameRun, MoveRef, Edit, Evict, vars, run
    <2>2. SafeRefs(q)
      BY DEF SafeRefs, MoveRef, RefsBecome, Edit, Evict, vars, repo
    <2>3. SafeDisk(q)
      BY DEF SafeDisk, MoveRef, Edit, Evict, vars, disk
    <2> QED BY <2>1, <2>2, <2>3, Untouched DEF CheckInv
  <1> QED BY <1>1, <1>2, <1>3 DEF CheckInv

-----------------------------------------------------------------------------
(* The theorems                                                            *)

\* Before the first run nothing is cached and nothing is held.
LEMMA InitInv == Init => CheckInv
  <1> SUFFICES ASSUME Init PROVE CheckInv
    OBVIOUS
  <1>1. TypeOK
    <2>1. refs \in [Refs -> Commits \cup {None}] /\ wt \in Contents /\ index \in Contents
      BY CheckConstants DEF Init, Refs, Contents
    <2> QED BY <2>1, CheckConstants DEF Init, TypeOK, Points, Labels, Sides, NoSide
  <1>2. CacheExact
    BY DEF Init, CacheExact
  <1>3. ASSUME NEW p \in Procs PROVE RunInv(p)
    BY DEF Init, RunInv, Shape, Held, Exact, OwnResidue, Entered, Extracted, Busy,
           Extracting, At, Side
  <1> QED BY <1>1, <1>2, <1>3 DEF CheckInv

\* Every step of a run and of its environment keeps the invariant.
LEMMA NextInv == CheckInv /\ [Next]_vars => CheckInv'
  <1> SUFFICES ASSUME CheckInv, [Next]_vars PROVE CheckInv'
    OBVIOUS
  <1>1. ASSUME NEW p \in Procs, Step(p) PROVE CheckInv'
    BY <1>1, ValidateInv, ResolveRefsInv, ResolveShaInv, LoadTargetInv, EnterSourceInv,
       BadPackageInv, ExtractUncachedInv, LookupInv, ComputeInv, StoreInv, UnwindInv,
       UnwindFailsInv, UnwoundInv, NumstatInv, JudgeInv, ExitInv DEF Step
  <1>2. ASSUME NEW p \in Procs, Crash(p) PROVE CheckInv'
    BY <1>2, CrashInv
  <1>3. ASSUME NEW p \in Procs, NEW r \in Requests, Start(p, r) PROVE CheckInv'
    BY <1>3, StartInv
  <1> QED BY <1>1, <1>2, <1>3, EnvironmentInv DEF Next

LEMMA CheckInvariant == Spec => []CheckInv
  BY InitInv, NextInv, PTL DEF Spec

\* Every variable of a check run keeps its type, whatever the runs and the
\* other programs do; no run ever holds more than its two contexts.
THEOREM CheckTypes == Spec => []TypeOK
  <1>1. CheckInv => TypeOK
    BY DEF CheckInv
  <1> QED BY <1>1, CheckInvariant, PTL

\* _extract_code_state keeps the cache exact: as long as no ref moves under a
\* run that has resolved it, an entry is the complete CodeState of the tree
\* in its key, with any number of concurrent runs and any options.
THEOREM CacheStaysExact == Spec => []CacheExact
  <1>1. CheckInv => CacheExact
    BY DEF CheckInv
  <1> QED BY <1>1, CheckInvariant, PTL

\* Under the same condition the commits that run_check reports as `rev' are
\* the ones whose CodeStates are judged.
THEOREM ReportIsAboutJudged == Spec => []ReportNamesWhatWasJudged
  <1>1. CheckInv => ReportNamesWhatWasJudged
    <2> SUFFICES ASSUME CheckInv, stable, NEW p \in Procs, At(p, "judge"),
                        NEW s \in Sides, rev[p][s] # None
                 PROVE  state[p][s] \in {rev[p][s], Partial}
      BY DEF ReportNamesWhatWasJudged, JudgedIsReported
    <2>1. RunInv(p) /\ Exact(p)
      BY DEF CheckInv, RunInv
    <2>2. ~Volatile(p, s)
      BY <2>1 DEF RunInv, Shape, At
    <2> QED BY <2>1, <2>2 DEF Exact, Extracted, At
  <1> QED BY <1>1, CheckInvariant, PTL

\* The context managers of run_check leave no directory and no worktree of a
\* run that holds no context, whichever step raised, unless the process was
\* killed or a cleanup failed.
THEOREM RunsLeaveNothing == Spec => []NoResidue
  <1>1. CheckInv => NoResidue
    <2> SUFFICES ASSUME CheckInv, faults = 0, NEW p \in Procs, stack[p] = <<>>,
                        NEW s \in Sides
                 PROVE  <<p, s>> \notin dirs \cup worktrees
      BY DEF NoResidue
    <2> QED BY Stacks DEF CheckInv, RunInv, OwnResidue
  <1> QED BY <1>1, CheckInvariant, PTL

-----------------------------------------------------------------------------
(* What an exit code means                                                 *)

\* What exit 0 promises of run p.
Passed(p) ==
    /\ judged[p][1] # "fail"
    /\ judged[p][1] = "repair" => ~req[p].strict
    /\ req[p].sensor => judged[p][2] = "pass"

\* A snapshot holds something to extract, a CodeState that is used has been
\* extracted, and 0 or 1 is decided at the end, by a verdict.
Ends(p) ==
    /\ \A s \in Sides : Entered(p, s) /\ req[p].source[s] # "working-tree"
          => tree[p][s] # None
    /\ \A s \in Sides : Extracted(p, s) \/ (At(p, "store") /\ Side(p) = s)
          => state[p][s] # None
    /\ code[p] \in {0, 1} =>
          /\ At(p, "exited")
          /\ judged[p] # None
          /\ \A s \in Sides : state[p][s] # None
          /\ code[p] = 0 => Passed(p)

EndInv == \A p \in Procs : Ends(p)

\* What an action leaves of a run it is not about.
SameEnd(q) ==
    /\ pc'[q] = pc[q] /\ req'[q] = req[q] /\ tree'[q] = tree[q]
    /\ state'[q] = state[q] /\ code'[q] = code[q] /\ judged'[q] = judged[q]

LEMMA SameEndKeeps ==
    ASSUME NEW q, Ends(q), SameEnd(q) PROVE Ends(q)'
  BY DEF Ends, SameEnd, Entered, Extracted, At, Side, Passed

\* A step that only jumps, or raises: nothing that was extracted is lost, and
\* no exception ends in 0 or 1.
Kept(p) == UNCHANGED <<req, tree, state, judged>>

LEMMA RaisedEnds ==
    ASSUME NEW p \in Procs, TypeOK, Ends(p), NEW c \in 2..4, Raise(p, c), Kept(p)
    PROVE  Ends(p)'
  BY CheckConstants DEF TypeOK, Ends, Raise, Decide, Goto, Kept, Entered, Extracted,
     Extracting, At, Side

\* Every extraction yields a CodeState.
LEMMA ExtractionsYield ==
    ASSUME NEW p \in Procs, NEW s \in Sides, TypeOK, Ends(p), Entered(p, s),
           NEW x \in Extractions(p, s)
    PROVE  x # None
  <1>1. Content(p, s) # None
    BY CheckConstants DEF TypeOK, Ends, Content
  <1> QED BY <1>1, CheckConstants DEF Extractions

\* The verdict decides 0 only when neither side of it is a failure.
LEMMA ExitCodeHonest ==
    ASSUME NEW v \in {"pass", "repair", "fail"}, NEW sec \in {"pass", "fail", "unknown"},
           NEW strict \in BOOLEAN
    PROVE  /\ ExitCode(v, strict) = 0 => v # "fail" /\ (v = "repair" => ~strict)
           /\ ExitCode(CombineVerdict(v, sec), strict) = 0
                => v # "fail" /\ (v = "repair" => ~strict) /\ sec = "pass"
  BY DEF ExitCode, CombineVerdict, Rank

LEMMA JudgeEnds ==
    ASSUME NEW p \in Procs, CheckInv, Ends(p), Judge(p) PROVE Ends(p)'
  <1> TypeOK
    BY DEF CheckInv
  <1>0. req[p] \in Requests
    BY DEF CheckInv, RunInv, Shape, Judge, At
  <1>1. req[p].strict \in BOOLEAN /\ req[p].sensor \in BOOLEAN
    BY <1>0, CheckConstants
  <1>2. \A s \in Sides : state[p][s] # None
    BY DEF Ends, Extracted, Judge, At
  <1>3. pc'[p] = <<"exited", "base">> /\ tree' = tree /\ state' = state /\ req' = req
    BY DEF TypeOK, Judge, Goto
  <1>4. PICK v \in {"pass", "repair", "fail"}, sec \in SecurityStatuses(p) :
          \/ /\ Decide(p, ExitCode(IF req[p].sensor THEN CombineVerdict(v, sec) ELSE v,
                                   req[p].strict))
             /\ judged' = [judged EXCEPT ![p] = <<v, sec>>]
          \/ (\E c \in {2, 4} : Decide(p, c)) /\ UNCHANGED judged
    BY DEF Judge
  <1>5. ~Entered(p, "base")' /\ ~Entered(p, "cand")' /\ ~Extracted(p, "base")'
        /\ ~Extracted(p, "cand")' /\ ~At(p, "store")' /\ At(p, "exited")'
    BY <1>3 DEF Entered, Extracted, Extracting, At
  <1>6. CASE \E c \in {2, 4} : Decide(p, c)
    <2>1. code'[p] \notin {0, 1}
      BY <1>6 DEF TypeOK, Decide
    <2> QED BY <1>5, <2>1 DEF Ends, Sides
  <1>7. CASE /\ Decide(p, ExitCode(IF req[p].sensor THEN CombineVerdict(v, sec) ELSE v,
                                   req[p].strict))
             /\ judged' = [judged EXCEPT ![p] = <<v, sec>>]
    <2>1. judged'[p] = <<v, sec>>
          /\ code'[p] = ExitCode(IF req[p].sensor THEN CombineVerdict(v, sec) ELSE v,
                                 req[p].strict)
      BY <1>7 DEF TypeOK, Decide
    <2>2. <<v, sec>> \in Judgements
      BY DEF SecurityStatuses, Judgements
    <2>3. judged'[p] # None
      BY <2>1, <2>2, CheckConstants
    <2>4. code'[p] = 0 => Passed(p)'
      <3>1. CASE req[p].sensor
        <4>1. sec \in {"pass", "fail", "unknown"}
          BY <3>1 DEF SecurityStatuses
        <4> QED BY <1>1, <1>3, <2>1, <3>1, <4>1, ExitCodeHonest DEF Passed
      <3>2. CASE ~req[p].sensor
        BY <1>1, <1>3, <2>1, <3>2, ExitCodeHonest DEF Passed
      <3> QED BY <3>1, <3>2
    <2> QED BY <1>2, <1>3, <1>5, <2>3, <2>4 DEF Ends, Sides
  <1> QED BY <1>4, <1>6, <1>7

\* The steps of a run, one by one.
LEMMA StepEnds ==
    ASSUME NEW p \in Procs, CheckInv, Ends(p),
           Step(p) \/ Crash(p) \/ \E r \in Requests : Start(p, r)
    PROVE  Ends(p)'
  <1> TypeOK /\ RunInv(p)
    BY DEF CheckInv
  <1>1. ASSUME NEW r \in Requests, Start(p, r) PROVE Ends(p)'
    BY <1>1 DEF TypeOK, Start, Goto, Ends, Entered, Extracted, Extracting, At, Side
  <1>2. CASE Validate(p)
    <2>1. CASE RaiseAny(p)
      BY <1>2, <2>1, RaisedEnds DEF Validate, RaiseAny, Kept
    <2>2. CASE Goto(p, "refs", "base") /\ UNCHANGED code
      BY <1>2, <2>2 DEF TypeOK, Validate, Goto, Ends, Entered, Extracted, Extracting,
         At, Side
    <2> QED BY <1>2, <2>1, <2>2 DEF Validate
  <1>3. CASE ResolveRefs(p)
    <2>1. CASE Raise(p, 3)
      BY <1>3, <2>1, RaisedEnds DEF ResolveRefs, Kept
    <2>2. CASE Goto(p, "sha", "base") /\ UNCHANGED code
      BY <1>3, <2>2 DEF TypeOK, ResolveRefs, Goto, Ends, Entered, Extracted, Extracting,
         At, Side
    <2> QED BY <1>3, <2>1, <2>2 DEF ResolveRefs
  <1>4. CASE ResolveSha(p)
    <2>1. CASE Raise(p, 3)
      BY <1>4, <2>1, RaisedEnds DEF ResolveSha, Kept
    <2>2. CASE Then(p, "sha", "target") /\ UNCHANGED code
      BY <1>4, <2>2 DEF TypeOK, ResolveSha, Then, Goto, Ends, Entered, Extracted,
         Extracting, At, Side
    <2> QED BY <1>4, <2>1, <2>2 DEF ResolveSha
  <1>5. CASE LoadTarget(p)
    <2>1. CASE RaiseAny(p)
      BY <1>5, <2>1, RaisedEnds DEF LoadTarget, RaiseAny, Kept
    <2>2. CASE Goto(p, "enter", "base") /\ UNCHANGED code
      BY <1>5, <2>2 DEF TypeOK, LoadTarget, Goto, Ends, Entered, Extracted, Extracting,
         At, Side
    <2> QED BY <1>5, <2>1, <2>2 DEF LoadTarget
  <1>6. CASE EnterSource(p)
    <2> DEFINE s == Side(p)
    <2>0. s \in Sides /\ At(p, "enter") /\ UNCHANGED <<req, state, judged>>
      BY <1>6 DEF TypeOK, EnterSource, Points, Side
    <2>1. CASE (\E c \in {3, 4} : Raise(p, c)) /\ UNCHANGED tree
      BY <2>0, <2>1, RaisedEnds DEF Kept
    <2>2. CASE Then(p, "enter", "extract") /\ UNCHANGED code
      <3>1. /\ \A t \in Sides : t # s => tree'[p][t] = tree[p][t]
            /\ req[p].source[s] # "working-tree" => tree'[p][s] # None
        <4>1. CASE req[p].source[s] = "working-tree" /\ UNCHANGED tree
          BY <4>1
        <4>2. CASE tree' = [tree EXCEPT ![p][s] = index]
          BY <2>0, <4>2, CheckConstants DEF TypeOK
        <4>3. CASE /\ refs[ref[p][s]] # None
                   /\ tree' = [tree EXCEPT ![p][s] = refs[ref[p][s]]]
          BY <2>0, <4>3 DEF TypeOK
        <4>4. ~\E c \in {3, 4} : Raise(p, c)
          BY <2>2, CheckConstants DEF TypeOK, Raise, Decide, Ends, EnterSource, Goto, Then,
             Side, Points
        <4> QED BY <1>6, <4>1, <4>2, <4>3, <4>4 DEF EnterSource
      <3>2. /\ s = "base" => pc'[p] = <<"enter", "cand">>
            /\ s = "cand" => pc'[p] = <<"extract", "base">>
        BY <2>0, <2>2 DEF TypeOK, Then, Goto, Sides
      <3>3. \A t \in Sides : Entered(p, t)' /\ req'[p].source[t] # "working-tree"
                                => tree'[p][t] # None
        BY <2>0, <3>1, <3>2 DEF Ends, Entered, Extracting, At, Side, Sides
      <3>4. \A t \in Sides : ~Extracted(p, t)' /\ ~At(p, "store")'
        BY <2>0, <3>2 DEF Extracted, Extracting, At, Side, Sides
      <3>5. code'[p] \notin {0, 1}
        BY <2>0, <2>2 DEF Ends, At
      <3> QED BY <3>3, <3>4, <3>5 DEF Ends
    <2> QED BY <1>6, <2>1, <2>2 DEF EnterSource
  <1>7. CASE BadPackage(p)
    BY <1>7, RaisedEnds DEF BadPackage, RaiseAny, Kept
  <1>8. ASSUME NEW s \in Sides, NEW x, x # None, pc[p] = <<"extract", s>> \/ pc[p] = <<"store", s>>,
               Then(p, "extract", "unwind"), UNCHANGED <<req, tree, code, judged>>,
               state' = [state EXCEPT ![p][s] = x]
        PROVE  Ends(p)'
    <2>1. /\ s = "base" => pc'[p] = <<"extract", "cand">>
          /\ s = "cand" => pc'[p] = <<"unwind", "base">>
      BY <1>8 DEF TypeOK, Then, Goto, Sides, Side
    <2>2. state'[p][s] = x /\ \A t \in Sides : t # s => state'[p][t] = state[p][t]
      BY <1>8 DEF TypeOK
    <2>3. code[p] \notin {0, 1}
      BY <1>8 DEF Ends, At
    <2>4. \A t \in Sides : Entered(p, t)' => Entered(p, t)
      BY <1>8, <2>1 DEF Entered, Extracting, At, Side, Sides
    <2>5. \A t \in Sides : Extracted(p, t)' => t = s \/ Extracted(p, t)
      BY <1>8, <2>1 DEF Extracted, Extracting, At, Side, Sides
    <2>6. ~At(p, "store")'
      BY <1>8, <2>1 DEF At, Sides
    <2> QED BY <1>8, <2>2, <2>3, <2>4, <2>5, <2>6 DEF Ends
  <1>9. CASE ExtractUncached(p)
    <2>0. PICK s \in Sides : pc[p] = <<"extract", s>> /\ s = Side(p)
      BY <1>9 DEF TypeOK, ExtractUncached, At, Side, Points
    <2>1. CASE Raise(p, 3) /\ UNCHANGED state
      BY <1>9, <2>1, RaisedEnds DEF ExtractUncached, Kept
    <2>2. ASSUME NEW x \in Extractions(p, s), state' = [state EXCEPT ![p][s] = x],
                 Then(p, "extract", "unwind"), UNCHANGED code
          PROVE  Ends(p)'
      <3>1. x # None
        BY <2>0, <2>2, ExtractionsYield DEF Entered, Extracting
      <3> QED BY <1>8, <1>9, <2>0, <2>2, <3>1 DEF ExtractUncached
    <2> QED BY <1>9, <2>0, <2>1, <2>2 DEF ExtractUncached
  <1>10. CASE Lookup(p)
    <2>0. PICK s \in Sides : pc[p] = <<"extract", s>> /\ s = Side(p)
      BY <1>10 DEF TypeOK, Lookup, At, Side, Points
    <2> DEFINE t == refs[KeyRef(p, s)]
    <2>1. CASE Raise(p, 3) /\ UNCHANGED state
      BY <1>10, <2>1, RaisedEnds DEF Lookup, Kept
    <2>2. CASE /\ cache[t] # None /\ state' = [state EXCEPT ![p][s] = cache[t]]
               /\ Then(p, "extract", "unwind") /\ UNCHANGED code
      BY <1>8, <1>10, <2>0, <2>2 DEF Lookup
    <2>3. CASE Goto(p, "compute", s) /\ UNCHANGED <<state, code>>
      BY <1>10, <2>0, <2>3 DEF TypeOK, Lookup, Goto, Ends, Entered, Extracted,
         Extracting, At, Side
    <2> QED BY <1>10, <2>0, <2>1, <2>2, <2>3 DEF Lookup
  <1>11. CASE Compute(p)
    <2>0. PICK s \in Sides : pc[p] = <<"compute", s>> /\ s = Side(p)
      BY <1>11 DEF TypeOK, Compute, At, Side, Points
    <2>1. CASE Raise(p, 3) /\ UNCHANGED state
      BY <1>11, <2>1, RaisedEnds DEF Compute, Kept
    <2>2. ASSUME NEW x \in Extractions(p, s), state' = [state EXCEPT ![p][s] = x],
                 Goto(p, "store", s), UNCHANGED code
          PROVE  Ends(p)'
      <3>1. x # None
        BY <2>0, <2>2, ExtractionsYield DEF Entered, Extracting
      <3>2. state'[p][s] = x /\ (\A t \in Sides : t # s => state'[p][t] = state[p][t])
            /\ pc'[p] = <<"store", s>> /\ tree' = tree /\ req' = req /\ code' = code
        BY <1>11, <2>2 DEF TypeOK, Compute, Goto
      <3> QED BY <2>0, <3>1, <3>2 DEF Ends, Entered, Extracted, Extracting, At, Side
    <2> QED BY <1>11, <2>0, <2>1, <2>2 DEF Compute
  <1>12. CASE Store(p)
    <2>0. PICK s \in Sides : pc[p] = <<"store", s>> /\ s = Side(p)
      BY <1>12 DEF TypeOK, Store, At, Side, Points
    <2>1. state' = [state EXCEPT ![p][s] = state[p][s]]
      BY <1>12 DEF TypeOK, Store
    <2>2. state[p][s] # None
      BY <2>0 DEF Ends, At, Side
    <2> QED BY <1>8, <1>12, <2>0, <2>1, <2>2 DEF Store
  <1>13. CASE Unwind(p)
    BY <1>13 DEF TypeOK, Unwind, Ends, Entered, Extracted, Extracting, At, Side, Passed
  <1>14. CASE UnwindFails(p)
    <2>1. At(p, "unwind") /\ UNCHANGED <<pc, req, tree, state, judged>>
          /\ (code'[p] = code[p] \/ code'[p] \in {3, 4})
      BY <1>14 DEF TypeOK, UnwindFails, Decide
    <2> QED BY <2>1, CheckConstants DEF Ends, Entered, Extracted, Extracting, At, Side
  <1>15. CASE Unwound(p)
    <2>1. code[p] \notin {0, 1}
      BY <1>15 DEF Unwound, Ends, At
    <2>2. UNCHANGED <<req, tree, state, judged, code>>
          /\ pc'[p] = <<IF code[p] = None THEN "numstat" ELSE "exited", "base">>
          /\ At(p, "unwind")
      BY <1>15 DEF TypeOK, Unwound, Goto
    <2> QED BY <2>1, <2>2 DEF Ends, Entered, Extracted, Extracting, At, Side
  <1>16. CASE Numstat(p)
    <2>1. CASE RaiseAny(p)
      BY <1>16, <2>1, RaisedEnds DEF Numstat, RaiseAny, Kept
    <2>2. CASE Goto(p, "judge", "base") /\ UNCHANGED code
      BY <1>16, <2>2 DEF TypeOK, Numstat, Goto, Ends, Entered, Extracted, Extracting,
         At, Side
    <2> QED BY <1>16, <2>1, <2>2 DEF Numstat
  <1>17. ASSUME Fresh(p) PROVE Ends(p)'
    <2>1. pc'[p] = <<"idle", "base">> /\ code'[p] = None
      BY <1>17 DEF TypeOK, Fresh, Goto
    <2> QED BY <2>1, CheckConstants DEF Ends, Entered, Extracted, Extracting, At, Side
  <1>18. CASE Judge(p)
    BY <1>18, JudgeEnds
  <1> QED BY <1>1, <1>2, <1>3, <1>4, <1>5, <1>6, <1>7, <1>9, <1>10, <1>11, <1>12, <1>13,
             <1>14, <1>15, <1>16, <1>17, <1>18 DEF Step, Crash, Exit

\* No step of one run touches what another has got so far.
LEMMA OthersEnd ==
    ASSUME NEW p \in Procs, TypeOK, Step(p) \/ Crash(p) \/ \E r \in Requests : Start(p, r),
           NEW q \in Procs \ {p}
    PROVE  SameEnd(q)
  <1>1. \A l, s : Goto(p, l, s) => pc'[q] = pc[q]
    BY DEF TypeOK, Goto
  <1>2. \A l, n : Then(p, l, n) => pc'[q] = pc[q]
    BY <1>1 DEF Then
  <1>3. \A c : Decide(p, c) => code'[q] = code[q]
    BY DEF TypeOK, Decide
  <1>4. \A c : Raise(p, c) => pc'[q] = pc[q] /\ code'[q] = code[q]
    BY <1>1, <1>3 DEF Raise
  <1>5. RaiseAny(p) => pc'[q] = pc[q] /\ code'[q] = code[q]
    BY <1>4 DEF RaiseAny
  <1>6. Fresh(p) => SameEnd(q)
    BY <1>1 DEF TypeOK, Fresh, SameEnd
  <1>7. CASE Validate(p) \/ LoadTarget(p) \/ BadPackage(p) \/ Numstat(p)
    BY <1>1, <1>5, <1>7 DEF Validate, LoadTarget, BadPackage, Numstat, SameEnd
  <1>8. CASE ResolveRefs(p) \/ ResolveSha(p)
    BY <1>1, <1>2, <1>4, <1>8 DEF ResolveRefs, ResolveSha, SameEnd
  <1>9. CASE EnterSource(p)
    <2>1. tree'[q] = tree[q]
      BY <1>9 DEF TypeOK, EnterSource
    <2> QED BY <1>2, <1>4, <1>9, <2>1 DEF EnterSource, SameEnd
  <1>10. CASE ExtractUncached(p) \/ Lookup(p) \/ Compute(p) \/ Store(p)
    <2>1. state'[q] = state[q]
      BY <1>10 DEF TypeOK, ExtractUncached, Lookup, Compute, Store
    <2>2. CASE ExtractUncached(p)
      BY <1>2, <1>4, <2>1, <2>2 DEF ExtractUncached, SameEnd
    <2>3. CASE Lookup(p)
      BY <1>1, <1>2, <1>4, <2>1, <2>3 DEF Lookup, SameEnd
    <2>4. CASE Compute(p)
      BY <1>1, <1>4, <2>1, <2>4 DEF Compute, SameEnd
    <2>5. CASE Store(p)
      BY <1>2, <2>1, <2>5 DEF Store, SameEnd
    <2> QED BY <1>10, <2>2, <2>3, <2>4, <2>5
  <1>11. CASE Unwind(p) \/ UnwindFails(p) \/ Unwound(p)
    BY <1>1, <1>3, <1>11 DEF Unwind, UnwindFails, Unwound, SameEnd
  <1>12. CASE Judge(p)
    <2>1. judged'[q] = judged[q]
      BY <1>12 DEF TypeOK, Judge
    <2> QED BY <1>1, <1>3, <1>12, <2>1 DEF Judge, SameEnd
  <1>13. CASE \E r \in Requests : Start(p, r)
    BY <1>1, <1>13 DEF TypeOK, Start, SameEnd
  <1> QED BY <1>6, <1>7, <1>8, <1>9, <1>10, <1>11, <1>12, <1>13 DEF Step, Crash, Exit

LEMMA NextEnds == CheckInv /\ EndInv /\ [Next]_vars => EndInv'
  <1> SUFFICES ASSUME CheckInv, EndInv, [Next]_vars, NEW q \in Procs PROVE Ends(q)'
    BY DEF EndInv
  <1> TypeOK /\ Ends(q)
    BY DEF CheckInv, EndInv
  <1>1. ASSUME NEW p \in Procs, Step(p) \/ Crash(p) \/ \E r \in Requests : Start(p, r)
        PROVE  Ends(q)'
    <2>1. CASE q = p
      BY <1>1, <2>1, StepEnds
    <2>2. CASE q # p
      BY <1>1, <2>2, OthersEnd, SameEndKeeps
    <2> QED BY <2>1, <2>2
  <1>2. ASSUME \/ \E r \in Refs, c \in Commits : MoveRef(r, c)
               \/ \E d \in Contents : Edit(d)
               \/ \E t \in Commits : Evict(t)
               \/ UNCHANGED vars
        PROVE  Ends(q)'
    <2>1. SameEnd(q)
      BY <1>2 DEF SameEnd, MoveRef, Edit, Evict, vars, run
    <2> QED BY <2>1, SameEndKeeps
  <1> QED BY <1>1, <1>2 DEF Next

\* No error path of run_check ends in 0 or 1, both sides have been extracted
\* when it exits so, and 0 is only ever the exit of a passed comparison.
THEOREM ExitCodesAreHonest == Spec => []ExitZeroMeansPassed
  <1>1. Init => EndInv
    <2> SUFFICES ASSUME Init, NEW p \in Procs PROVE Ends(p)
      BY DEF EndInv
    <2>1. pc[p] = <<"idle", "base">> /\ code[p] = None
      BY DEF Init
    <2> QED BY <2>1, CheckConstants DEF Ends, Entered, Extracted, Extracting, At, Side
  <1>2. CheckInv /\ EndInv => ExitZeroMeansPassed
    BY DEF EndInv, Ends, Passed, ExitZeroMeansPassed
  <1> QED BY <1>1, <1>2, NextEnds, CheckInvariant, PTL DEF Spec

=============================================================================
