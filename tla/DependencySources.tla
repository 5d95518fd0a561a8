-------------------------- MODULE DependencySources --------------------------
(***************************************************************************)
(* generated_requirements_for_source for a lock file: the roots, the       *)
(* worklist of _dependency_closure for the default and, without a project  *)
(* name, for the other dependencies, and the loop over the packages.       *)
(*                                                                         *)
(* The worklist is a Python list filled from sets, whose order is          *)
(* arbitrary: stack[e] counts the copies of edge e on it, and Pop takes    *)
(* any of them.                                                            *)
(***************************************************************************)
EXTENDS LockFile

CONSTANT Directories    \* the scan directories with a lock file considered

ASSUME DirectoryTypes ==
    \A d \in Directories :
        /\ IsFiniteSet(d.packages)
        /\ SourceKind(d) \in LockKinds
        /\ d.toml \in {"ok", "malformed", "no_packages", "not_a_list"}
        /\ \A p \in d.packages :
              /\ p.name \in Names
              /\ \A it \in p.deps \cup p.dev \cup OptionalItems(p, DOMAIN p.opt) :
                    [name |-> it.name, extras |-> it.extras] \in Edges

VARIABLES
    dir,        \* the directory that is scanned
    pc,
    stack,      \* copies of each edge on the worklist
    processed,  \* edges taken off the worklist
    included,   \* names found with a variant that applies here
    default,    \* default_closure, once it is known
    pins        \* the requirements lines, once they are known

vars == <<dir, pc, stack, processed, included, default, pins>>

-----------------------------------------------------------------------------
OnStack == {e \in Edges : stack[e] > 0}

StackOf(S) == [e \in Edges |-> IF e \in S THEN 1 ELSE 0]

Init ==
    /\ dir \in Directories
    /\ pc = "load"
    /\ stack = StackOf({})
    /\ processed = {}
    /\ included = {}
    /\ default = {}
    /\ pins = {}

\* _pinned_lines_from_lock up to _excluded_lock_package_names, whose roots
\* are collected only for uv.lock.
Load ==
    /\ pc = "load"
    /\ LET uv == SourceKind(dir) = "uv-lock"
           bad == ItemsBad(DefaultItems(dir) \cup NonDefaultItems(dir))
       IN  /\ pc' = IF dir.toml = "no_packages" THEN "done"
                    ELSE IF dir.toml # "ok" THEN "error"
                    ELSE IF ~uv THEN "pins"
                    ELSE IF bad THEN "error" ELSE "default"
           /\ stack' = IF pc' = "default" THEN StackOf(EdgesOf(DefaultItems(dir)))
                       ELSE stack
    /\ UNCHANGED <<dir, processed, included, default, pins>>

\* Mutant: a name is expanded once, whatever extras it is asked for with.
PopByName ==
    \E e \in OnStack :
        LET fresh == \A f \in processed : f.name # e.name
        IN  /\ pc \in {"default", "others"}
            /\ ~(fresh /\ EdgeBad(dir, e))
            /\ processed' = processed \cup {e}
            /\ included' = IF fresh /\ Active(dir, e.name) # {}
                           THEN included \cup {e.name} ELSE included
            /\ stack' = [f \in Edges |->
                           (IF f = e THEN stack[f] - 1 ELSE stack[f])
                           + IF fresh /\ f \in Successors(dir, e) \ processed' THEN 1 ELSE 0]
            /\ UNCHANGED <<dir, pc, default, pins>>

\* Mutant: an edge that was seen before stays on the worklist.
PopPeeks ==
    \E e \in OnStack :
        LET fresh == e \notin processed
        IN  /\ pc \in {"default", "others"}
            /\ ~(fresh /\ EdgeBad(dir, e))
            /\ processed' = processed \cup {e}
            /\ included' = IF fresh /\ Active(dir, e.name) # {}
                           THEN included \cup {e.name} ELSE included
            /\ stack' = [f \in Edges |->
                           (IF f = e /\ fresh THEN stack[f] - 1 ELSE stack[f])
                           + IF fresh /\ f \notin processed' THEN Copies(dir, e, f) ELSE 0]
            /\ UNCHANGED <<dir, pc, default, pins>>

\* One turn of `while stack` that does not raise.
Pop ==
    \E e \in OnStack :
        LET fresh == e \notin processed
        IN  /\ pc \in {"default", "others"}
            /\ ~(fresh /\ EdgeBad(dir, e))
            /\ processed' = processed \cup {e}
            /\ included' = IF fresh /\ Active(dir, e.name) # {}
                           THEN included \cup {e.name} ELSE included
            /\ stack' = [f \in Edges |->
                           (IF f = e THEN stack[f] - 1 ELSE stack[f])
                           + IF fresh /\ f \notin processed' THEN Copies(dir, e, f) ELSE 0]
            /\ UNCHANGED <<dir, pc, default, pins>>

\* A turn that raises DependencySourceError.
PopRaises ==
    /\ pc \in {"default", "others"}
    /\ \E e \in OnStack : e \notin processed /\ EdgeBad(dir, e)
    /\ pc' = "error"
    /\ UNCHANGED <<dir, stack, processed, included, default, pins>>

\* default_closure is complete; without a project name a second closure starts.
DefaultClosed ==
    /\ pc = "default"
    /\ OnStack = {}
    /\ default' = included
    /\ processed' = {}
    /\ included' = {}
    /\ IF ProjectName(dir) # NoName
       THEN pc' = "pins" /\ stack' = stack
       ELSE pc' = "others" /\ stack' = StackOf(EdgesOf(NonDefaultItems(dir)))
    /\ UNCHANGED <<dir, pins>>

OthersClosed ==
    /\ pc = "others"
    /\ OnStack = {}
    /\ pc' = "pins"
    /\ UNCHANGED <<dir, stack, processed, included, default, pins>>

\* _excluded_lock_package_names
Excluded ==
    IF SourceKind(dir) # "uv-lock" THEN {}
    ELSE IF ProjectName(dir) # NoName
    THEN ({p.name : p \in dir.packages} \ default) \ {ProjectName(dir)}
    ELSE included \ default

\* The loop of _pinned_lines_from_lock.
CollectPins ==
    /\ pc = "pins"
    /\ pc' = IF PinsBad(dir, Excluded) THEN "error" ELSE "done"
    /\ pins' = IF PinsBad(dir, Excluded) THEN pins ELSE Pins(dir, Excluded)
    /\ UNCHANGED <<dir, stack, processed, included, default>>

Returned == pc \in {"done", "error"} /\ UNCHANGED vars

Next ==
    \/ Load \/ Pop \/ PopRaises \/ DefaultClosed \/ OthersClosed \/ CollectPins
    \/ Returned

Spec == Init /\ [][Next]_vars

\* One thread runs the loops and waits for nobody.
FairSpec == Spec /\ WF_vars(Next)

-----------------------------------------------------------------------------
(* Properties                                                              *)

PCs == {"load", "default", "others", "pins", "done", "error"}

\* The worklist keeps its types.
TypeOK ==
    /\ dir \in Directories
    /\ pc \in PCs
    /\ stack \in [Edges -> Nat]
    /\ processed \subseteq Edges
    /\ included \subseteq Names
    /\ default \subseteq Names

\* The answer as a caller sees it.
Answered ==
    CASE pc = "error" -> Failed
      [] pc = "done" -> Pinned(pins)
      [] OTHER -> Waiting

Abstract == INSTANCE PinnedDependencies WITH
    Promised <- [d \in Directories |-> Promise(d)],
    answer <- Answered

\* Whatever order the worklist is taken in, whatever cycles, extras and
\* variants the lock has, _dependency_closure computes reachability: the pins,
\* or the error, are those of the abstract specification.
ClosureIsReachability == Abstract!Spec

\* A scan returns: the worklist of _dependency_closure runs dry even when
\* packages depend on each other.
ScanReturns == <>(pc \in {"done", "error"})

=============================================================================
