----------------------- MODULE DependencySourcesProofs -----------------------
(***************************************************************************)
(* The worklist of _dependency_closure implements PinnedDependencies, for  *)
(* every set of names, extras, markers and lock files.                     *)
(***************************************************************************)
EXTENDS DependencySources, FiniteSetTheorems, TLAPS

-----------------------------------------------------------------------------
(* Lemmas about the operators of LockFile                                  *)

\* The roots of a lock file are edges.
LEMMA RootsTyped ==
    ASSUME NEW d \in Directories
    PROVE  EdgesOf(DefaultItems(d)) \subseteq Edges /\ EdgesOf(NonDefaultItems(d)) \subseteq Edges
<1>1. \A it \in DefaultItems(d) : [name |-> it.name, extras |-> it.extras] \in Edges
  BY DirectoryTypes DEF DefaultItems, RootPackages
<1>2. \A it \in NonDefaultItems(d) : [name |-> it.name, extras |-> it.extras] \in Edges
  BY DirectoryTypes DEF NonDefaultItems, RootPackages
<1> QED
  BY <1>1, <1>2 DEF EdgesOf

\* The edges that a turn of the loop may push are edges.
LEMMA SuccessorsTyped ==
    ASSUME NEW d \in Directories, NEW e \in Edges
    PROVE  Successors(d, e) \subseteq Edges
<1>1. ASSUME NEW p \in d.packages, NEW it \in ItemsFor(p, e)
      PROVE  [name |-> it.name, extras |-> it.extras] \in Edges
  <2>1. OptionalItems(p, e.extras) \subseteq OptionalItems(p, DOMAIN p.opt)
    BY DEF OptionalItems
  <2> QED
    BY <2>1, DirectoryTypes DEF ItemsFor
<1> QED
  BY <1>1 DEF Successors, EdgesOf, Active, Variants

\* A turn pushes an edge, some number of times, exactly if it is a successor.
LEMMA CopiesCount ==
    ASSUME NEW d \in Directories, NEW e \in Edges, NEW f
    PROVE  /\ Copies(d, e, f) \in Nat
           /\ Copies(d, e, f) > 0 <=> f \in Successors(d, e)
<1> DEFINE A == {p \in Active(d, e.name) : f \in EdgesOf(p.deps)}
           B == {p \in Active(d, e.name) : f \in EdgesOf(OptionalItems(p, e.extras))}
<1>1. IsFiniteSet(A) /\ IsFiniteSet(B)
  <2>1. IsFiniteSet(d.packages) /\ A \subseteq d.packages /\ B \subseteq d.packages
    BY DirectoryTypes DEF Active, Variants
  <2> QED
    BY <2>1, FS_Subset
<1>2. Cardinality(A) \in Nat /\ Cardinality(B) \in Nat
  BY <1>1, FS_CardinalityType
<1>3. (Cardinality(A) = 0 <=> A = {}) /\ (Cardinality(B) = 0 <=> B = {})
  BY <1>1, FS_EmptySet
<1>4. f \in Successors(d, e) <=> A # {} \/ B # {}
  BY DEF Successors, EdgesOf, ItemsFor
<1>5. Copies(d, e, f) = Cardinality(A) + Cardinality(B)
  BY DEF Copies
<1> HIDE DEF A, B
<1> QED
  BY <1>2, <1>3, <1>4, <1>5

\* A closed set that holds the roots and nothing but what every such set holds
\* is the set of reachable edges.
LEMMA LeastClosed ==
    ASSUME NEW d \in Directories, NEW roots, NEW P \in SUBSET Edges,
           roots \subseteq P,
           \A e \in P : Successors(d, e) \subseteq P,
           \A S \in ClosedSets(d, roots) : P \subseteq S
    PROVE  Reachable(d, roots) = P
<1>1. P \in ClosedSets(d, roots)
  BY DEF ClosedSets
<1> QED
  BY <1>1 DEF Reachable

-----------------------------------------------------------------------------
(* The inductive invariant                                                 *)

\* The edges that the current closure starts from.
Roots == IF pc = "default" THEN EdgesOf(DefaultItems(dir)) ELSE EdgesOf(NonDefaultItems(dir))

Found == processed \cup OnStack

\* The worklist and what was taken off it: the roots are in, every successor
\* of a processed edge is in, and nothing is in that is not reachable.
Loop ==
    /\ Roots \subseteq Found
    /\ \A e \in processed : Successors(dir, e) \subseteq Found /\ ~EdgeBad(dir, e)
    /\ \A S \in ClosedSets(dir, Roots) : Found \subseteq S
    /\ included = {e.name : e \in {x \in processed : Active(dir, x.name) # {}}}

Uv == dir.toml = "ok" /\ SourceKind(dir) = "uv-lock"
        /\ ~ItemsBad(DefaultItems(dir) \cup NonDefaultItems(dir))

DefaultDone ==
    /\ default = ReachableNames(dir, EdgesOf(DefaultItems(dir)))
    /\ \A e \in Reachable(dir, EdgesOf(DefaultItems(dir))) : ~EdgeBad(dir, e)

\* What holds before the loop over the packages.
ReadyForPins ==
    /\ dir.toml = "ok"
    /\ Excluded = Unneeded(dir)
    /\ Malformed(dir) <=> PinsBad(dir, Unneeded(dir))

Inv ==
    /\ TypeOK
    /\ pc = "load" => processed = {} /\ included = {} /\ pins = {}
    /\ pc \in {"default", "others"} => Uv /\ Loop
    /\ pc = "others" => ProjectName(dir) = NoName /\ DefaultDone
    /\ pc = "pins" => ReadyForPins

LEMMA StartOfLoop ==
    ASSUME NEW R \in SUBSET Edges
    PROVE  {e \in Edges : StackOf(R)[e] > 0} = R /\ StackOf(R) \in [Edges -> Nat]
  BY DEF StackOf

\* A finished worklist: what was processed is what is reachable.
LEMMA EndOfLoop ==
    ASSUME TypeOK, Loop, OnStack = {}, Roots \subseteq Edges
    PROVE  /\ Reachable(dir, Roots) = processed
           /\ included = ReachableNames(dir, Roots)
           /\ \A e \in Reachable(dir, Roots) : ~EdgeBad(dir, e)
<1>1. Found = processed
  BY DEF Found
<1>2. Reachable(dir, Roots) = processed
  BY <1>1, LeastClosed DEF Loop, TypeOK
<1> QED
  BY <1>2 DEF Loop, ReachableNames

\* An edge on the worklist is reachable.
LEMMA WaitingIsReachable ==
    ASSUME TypeOK, Loop
    PROVE  OnStack \subseteq Reachable(dir, Roots)
  BY DEF Loop, Found, Reachable, OnStack

\* The first state satisfies the invariant.
LEMMA InitInv == Init => Inv
  BY StartOfLoop DEF Init, Inv, TypeOK, PCs

\* Reading the lock file establishes the loop invariant.
LEMMA LoadInv == Inv /\ Load => Inv'
<1> SUFFICES ASSUME Inv, Load PROVE Inv'
  OBVIOUS
<1> USE DEF Load
<1>1. dir \in Directories /\ dir' = dir /\ SourceKind(dir) \in LockKinds
  BY DirectoryTypes DEF Inv, TypeOK
<1>2. pc' \in PCs
  BY DEF PCs, Inv, TypeOK
<1>3. CASE pc' = "default"
  <2>1. Uv'
    BY <1>1, <1>3 DEF Uv, Inv
  <2>2. Roots' = EdgesOf(DefaultItems(dir)) /\ Roots' \subseteq Edges
    BY <1>1, <1>3, RootsTyped DEF Roots
  <2>3. OnStack' = Roots' /\ stack' \in [Edges -> Nat]
    BY <1>3, <2>2, StartOfLoop DEF OnStack
  <2>4. Found' = Roots' /\ processed' = {} /\ included' = {}
    BY <2>3 DEF Found, Inv
  <2>5. Loop'
    BY <2>4 DEF Loop, ClosedSets
  <2> QED
    BY <1>1, <1>2, <1>3, <2>1, <2>3, <2>5 DEF Inv, TypeOK
<1>4. CASE pc' = "pins"
  <2>1. SourceKind(dir) # "uv-lock" /\ dir.toml = "ok"
    BY <1>4
  <2>2. Excluded' = {} /\ Unneeded(dir) = {}
    BY <1>1, <2>1 DEF Excluded, Unneeded
  <2>3. ReadyForPins'
    BY <1>1, <2>1, <2>2 DEF ReadyForPins, Malformed
  <2> QED
    BY <1>1, <1>2, <1>4, <2>3 DEF Inv, TypeOK
<1>5. CASE pc' \in {"done", "error"}
  BY <1>1, <1>2, <1>5 DEF Inv, TypeOK
<1> QED
  BY <1>3, <1>4, <1>5

\* One turn of the loop keeps the loop invariant.
LEMMA PopInv == Inv /\ Pop => Inv'
<1> SUFFICES ASSUME Inv, Pop PROVE Inv'
  OBVIOUS
<1>1. PICK e \in OnStack :
        /\ pc \in {"default", "others"}
        /\ ~(e \notin processed /\ EdgeBad(dir, e))
        /\ processed' = processed \cup {e}
        /\ included' = IF e \notin processed /\ Active(dir, e.name) # {}
                       THEN included \cup {e.name} ELSE included
        /\ stack' = [f \in Edges |->
                       (IF f = e THEN stack[f] - 1 ELSE stack[f])
                       + IF e \notin processed /\ f \notin processed'
                         THEN Copies(dir, e, f) ELSE 0]
        /\ UNCHANGED <<dir, pc, default, pins>>
  BY DEF Pop
<1>2. e \in Edges /\ stack[e] > 0 /\ e.name \in Names
  BY DEF OnStack, Edges
<1>3. dir \in Directories /\ Loop /\ Uv /\ TypeOK
  BY <1>1 DEF Inv, TypeOK
<1>4. \A f \in Edges : /\ Copies(dir, e, f) \in Nat
                       /\ Copies(dir, e, f) > 0 <=> f \in Successors(dir, e)
  BY <1>2, <1>3, CopiesCount
<1>5. stack' \in [Edges -> Nat]
  <2>1. ASSUME NEW f \in Edges PROVE stack'[f] \in Nat
    BY <1>1, <1>2, <1>3, <1>4 DEF TypeOK
  <2> QED
    BY <1>1, <2>1
<1>6. Found' = Found \cup (IF e \notin processed THEN Successors(dir, e) ELSE {})
  <2>1. Successors(dir, e) \subseteq Edges
    BY <1>2, <1>3, SuccessorsTyped
  <2>2. ASSUME NEW f \in Edges
        PROVE  f \in Found' <=> f \in Found \/ (e \notin processed /\ f \in Successors(dir, e))
    <3>1. CASE f \in processed'
      BY <1>1, <1>2, <3>1 DEF Found
    <3>2. CASE f \notin processed'
      <4>1. f # e /\ f \notin processed
        BY <1>1, <3>2
      <4>2. stack'[f] = stack[f] + IF e \notin processed THEN Copies(dir, e, f) ELSE 0
        BY <1>1, <3>2, <4>1
      <4>3. stack[f] \in Nat
        BY <1>3 DEF TypeOK
      <4>4. stack'[f] > 0 <=> stack[f] > 0 \/ (e \notin processed /\ f \in Successors(dir, e))
        BY <1>4, <4>2, <4>3
      <4> QED
        BY <3>2, <4>1, <4>4 DEF Found, OnStack
    <3> QED
      BY <3>1, <3>2
  <2>3. Found \subseteq Edges /\ Found' \subseteq Edges
    BY <1>1, <1>2, <1>3 DEF Found, OnStack, TypeOK
  <2> QED
    BY <2>1, <2>2, <2>3
<1>7. Loop'
  <2>1. Roots' = Roots
    BY <1>1 DEF Roots
  <2>2. Roots' \subseteq Found'
    BY <1>3, <1>6, <2>1 DEF Loop
  <2>3. \A f \in processed' : Successors(dir, f) \subseteq Found' /\ ~EdgeBad(dir, f)
    BY <1>1, <1>3, <1>6 DEF Loop
  <2>4. ASSUME NEW S \in ClosedSets(dir, Roots) PROVE Found' \subseteq S
    <3>1. Found \subseteq S
      BY <1>3 DEF Loop
    <3>2. e \in S
      BY <3>1 DEF Found
    <3>3. Successors(dir, e) \subseteq S
      BY <1>2, <3>2 DEF ClosedSets
    <3> QED
      BY <1>6, <3>1, <3>3
  <2>5. included' = {f.name : f \in {x \in processed' : Active(dir, x.name) # {}}}
    BY <1>1, <1>3 DEF Loop
  <2> QED
    BY <1>1, <2>1, <2>2, <2>3, <2>4, <2>5 DEF Loop
<1>8. TypeOK'
  BY <1>1, <1>2, <1>3, <1>5 DEF TypeOK
<1> QED
  BY <1>1, <1>3, <1>7, <1>8 DEF Inv, Uv, DefaultDone

\* The default closure is complete.
LEMMA DefaultClosedInv == Inv /\ DefaultClosed => Inv'
<1> SUFFICES ASSUME Inv, DefaultClosed PROVE Inv'
  OBVIOUS
<1>1. TypeOK /\ Uv /\ Loop /\ pc = "default" /\ OnStack = {} /\ dir' = dir
  BY DEF DefaultClosed, Inv
<1>2. Roots = EdgesOf(DefaultItems(dir)) /\ Roots \subseteq Edges
  BY <1>1, RootsTyped DEF Roots, TypeOK
<1>3. /\ included = ReachableNames(dir, Roots)
      /\ \A e \in Reachable(dir, Roots) : ~EdgeBad(dir, e)
  BY <1>1, <1>2, EndOfLoop
<1>4. DefaultDone'
  BY <1>1, <1>2, <1>3 DEF DefaultDone, DefaultClosed
<1>5. CASE ProjectName(dir) # NoName
  <2>1. Excluded' = Unneeded(dir)
    BY <1>1, <1>4, <1>5 DEF Excluded, Unneeded, DefaultDone, Uv, AllNames
  <2>2. ReadyForPins'
    BY <1>1, <1>2, <1>3, <1>5, <2>1 DEF ReadyForPins, Malformed, Uv
  <2> QED
    BY <1>1, <1>5, <2>2 DEF Inv, DefaultClosed, TypeOK, PCs
<1>6. CASE ProjectName(dir) = NoName
  <2>1. pc' = "others" /\ stack' = StackOf(EdgesOf(NonDefaultItems(dir)))
           /\ processed' = {} /\ included' = {}
    BY <1>6 DEF DefaultClosed
  <2>2. Roots' = EdgesOf(NonDefaultItems(dir)) /\ Roots' \subseteq Edges
    BY <1>1, <2>1, RootsTyped DEF Roots, TypeOK
  <2>3. OnStack' = Roots' /\ stack' \in [Edges -> Nat]
    BY <2>1, <2>2, StartOfLoop DEF OnStack
  <2>4. Found' = Roots'
    BY <2>1, <2>3 DEF Found
  <2>5. Loop'
    BY <2>1, <2>4 DEF Loop, ClosedSets
  <2>6. TypeOK'
    BY <1>1, <2>1, <2>3 DEF TypeOK, PCs, DefaultClosed
  <2> QED
    BY <1>1, <1>4, <1>6, <2>1, <2>5, <2>6 DEF Inv, Uv
<1> QED
  BY <1>5, <1>6

\* The second closure is complete.
LEMMA OthersClosedInv == Inv /\ OthersClosed => Inv'
<1> SUFFICES ASSUME Inv, OthersClosed PROVE Inv'
  OBVIOUS
<1>1. /\ TypeOK /\ Uv /\ Loop /\ pc = "others" /\ OnStack = {} /\ dir' = dir
      /\ ProjectName(dir) = NoName /\ DefaultDone
      /\ default' = default /\ included' = included
  BY DEF OthersClosed, Inv
<1>2. Roots = EdgesOf(NonDefaultItems(dir)) /\ Roots \subseteq Edges
  BY <1>1, RootsTyped DEF Roots, TypeOK
<1>3. /\ included = ReachableNames(dir, Roots)
      /\ \A e \in Reachable(dir, Roots) : ~EdgeBad(dir, e)
  BY <1>1, <1>2, EndOfLoop
<1>4. Excluded' = Unneeded(dir)
  BY <1>1, <1>2, <1>3 DEF Excluded, Unneeded, DefaultDone, Uv
<1>5. Malformed(dir) <=> PinsBad(dir, Unneeded(dir))
  BY <1>1, <1>2, <1>3 DEF Malformed, Uv, DefaultDone
<1>6. ReadyForPins'
  BY <1>1, <1>4, <1>5 DEF ReadyForPins, Uv
<1> QED
  BY <1>1, <1>6 DEF Inv, OthersClosed, TypeOK, PCs

\* The steps that end the scan, and no step at all.
LEMMA LastStepsInv ==
    Inv /\ (PopRaises \/ CollectPins \/ Returned \/ UNCHANGED vars) => Inv'
<1> SUFFICES ASSUME Inv, PopRaises \/ CollectPins \/ Returned \/ UNCHANGED vars PROVE Inv'
  OBVIOUS
<1>1. CASE PopRaises
  BY <1>1 DEF PopRaises, Inv, TypeOK, PCs
<1>2. CASE CollectPins
  BY <1>2 DEF CollectPins, Inv, TypeOK, PCs
<1>3. CASE Returned \/ UNCHANGED vars
  BY <1>3 DEF Returned, vars, Inv, TypeOK, Uv, Loop, Roots, Found, OnStack,
     DefaultDone, ReadyForPins, Excluded
<1> QED
  BY <1>1, <1>2, <1>3

LEMMA NextInv == Inv /\ [Next]_vars => Inv'
  BY LoadInv, PopInv, DefaultClosedInv, OthersClosedInv, LastStepsInv DEF Next

-----------------------------------------------------------------------------
(* Each step is a step of PinnedDependencies or changes nothing there      *)

\* A turn raises only on a lock file that is malformed where it is reachable.
LEMMA RaisesOnMalformed == Inv /\ PopRaises => Malformed(dir)
<1> SUFFICES ASSUME Inv, PopRaises PROVE Malformed(dir)
  OBVIOUS
<1>1. TypeOK /\ Uv /\ Loop /\ pc \in {"default", "others"}
  BY DEF Inv, PopRaises
<1>2. \E e \in Reachable(dir, Roots) : EdgeBad(dir, e)
  BY <1>1, WaitingIsReachable DEF PopRaises
<1>3. CASE pc = "default"
  BY <1>1, <1>2, <1>3 DEF Malformed, Uv, Roots
<1>4. CASE pc = "others"
  BY <1>1, <1>2, <1>4 DEF Malformed, Uv, Roots, Inv
<1> QED
  BY <1>1, <1>3, <1>4

LEMMA StepsAreAbstractSteps ==
    Inv /\ [Next]_vars => [Abstract!Next]_(Abstract!vars)
<1> SUFFICES ASSUME Inv, [Next]_vars PROVE [Abstract!Next]_(Abstract!vars)
  OBVIOUS
<1> USE DEF Abstract!Next, Abstract!vars
<1>0. dir \in Directories /\ Promise(dir) = [d \in Directories |-> Promise(d)][dir]
  BY DEF Inv, TypeOK
<1>1. ASSUME dir' = dir, pc \notin {"done", "error"}, pc' = "error", Malformed(dir)
      PROVE  Abstract!Next
  BY <1>0, <1>1 DEF Answered, Promise, Waiting, Failed
<1>2. ASSUME dir' = dir, pc \notin {"done", "error"}, pc' = "done", ~Malformed(dir),
             pins' = IF dir.toml = "ok" THEN Pins(dir, Unneeded(dir)) ELSE {}
      PROVE  Abstract!Next
  BY <1>0, <1>2 DEF Answered, Promise, Waiting, Pinned
<1>3. ASSUME dir' = dir, pc \notin {"done", "error"}, pc' \notin {"done", "error"}
      PROVE  UNCHANGED <<dir, Answered>>
  BY <1>3 DEF Answered
<1>4. CASE Load
  <2>1. dir' = dir /\ pc = "load" /\ pins' = {}
    BY <1>4 DEF Load, Inv
  <2>2. CASE dir.toml = "no_packages"
    BY <1>2, <1>4, <2>1, <2>2 DEF Load, Malformed
  <2>3. CASE dir.toml \in {"malformed", "not_a_list"}
    BY <1>1, <1>4, <2>1, <2>3 DEF Load, Malformed
  <2>4. CASE pc' \notin {"done", "error"}
    BY <1>3, <2>1, <2>4
  <2>5. CASE dir.toml = "ok" /\ pc' \in {"done", "error"}
    <3>1. pc' = "error" /\ Malformed(dir)
      BY <1>4, <2>5 DEF Load, Malformed
    <3> QED
      BY <1>1, <2>1, <3>1
  <2> QED
    BY <1>0, <2>2, <2>3, <2>4, <2>5, DirectoryTypes
<1>5. CASE PopRaises
  BY <1>1, <1>5, RaisesOnMalformed DEF PopRaises
<1>6. CASE Pop \/ DefaultClosed \/ OthersClosed
  BY <1>3, <1>6 DEF Pop, DefaultClosed, OthersClosed
<1>7. CASE CollectPins
  <2>1. /\ dir' = dir /\ pc = "pins" /\ dir.toml = "ok" /\ Excluded = Unneeded(dir)
        /\ Malformed(dir) <=> PinsBad(dir, Unneeded(dir))
    BY <1>7 DEF CollectPins, Inv, ReadyForPins
  <2>2. CASE Malformed(dir)
    BY <1>1, <1>7, <2>1, <2>2 DEF CollectPins
  <2>3. CASE ~Malformed(dir)
    BY <1>2, <1>7, <2>1, <2>3 DEF CollectPins
  <2> QED
    BY <2>2, <2>3
<1>8. CASE Returned \/ UNCHANGED vars
  BY <1>8 DEF Returned, vars, Answered
<1> QED
  BY <1>4, <1>5, <1>6, <1>7, <1>8 DEF Next

\* The first state is a first state of PinnedDependencies.
LEMMA InitIsAbstractInit == Init => Abstract!Init
  BY DEF Init, Abstract!Init, Answered

\* The worklist never leaves its types.
THEOREM ScanTypes == Spec => []TypeOK
<1>1. Inv => TypeOK
  BY DEF Inv
<1> QED
  BY <1>1, InitInv, NextInv, PTL DEF Spec

\* _dependency_closure and the loops around it compute the least fixed point:
\* whatever order the worklist is taken in, the pins, or the error, are those
\* of reachability from the roots.
THEOREM ScanImplementsPromise == Spec => ClosureIsReachability
<1>1. Spec => []Inv
  BY InitInv, NextInv, PTL DEF Spec
<1> QED
  BY <1>1, InitIsAbstractInit, StepsAreAbstractSteps, PTL
     DEF Spec, ClosureIsReachability, Abstract!Spec

=============================================================================
