----------------------------- MODULE Constraints -----------------------------
(***************************************************************************)
(* Compiled constraints and how one of them is judged: the static checks   *)
(* of compiler/, the delta of delta/code_state_delta.py, path resolution   *)
(* and operators of evaluator/, for one comparison of two code states.     *)
(*                                                                         *)
(* A code state maps each dimension to the set of its entries, abstracted  *)
(* to Items.  A comparison w is a record                                   *)
(*   base, cand      what extraction of the full trees yields              *)
(*   smoke           whether only the smoke dimensions are extracted       *)
(*   baseOut, candOut  dimensions whose extractor timed out on each side   *)
(*   allowApi, allowEffects   entries an allow rule of the target matches  *)
(***************************************************************************)
EXTENDS Integers, FiniteSets

CONSTANTS
    Items,      \* entries of a dimension (api symbols, effects, edges, ...)
    Hidden,     \* the entries whose visibility is not public
    Cyclomatic  \* the complexity of an entry that is a function

ASSUME HiddenItems == Hidden \subseteq Items

\* A function without a branch has complexity one.
ASSUME CyclomaticTypes == Cyclomatic \in [Items -> Nat \ {0}]

Dimensions == {"api_surface", "effects", "imports", "complexity",
               "test_surface", "module_graph"}

SmokeDimensions == {"api_surface", "effects", "imports"}

States == [Dimensions -> {S \in SUBSET Items : IsFiniteSet(S)}]

Comparison ==
    [base : States, cand : States, smoke : BOOLEAN,
     baseOut : SUBSET Dimensions, candOut : SUBSET Dimensions,
     allowApi : SUBSET Items, allowEffects : SUBSET Items]

-----------------------------------------------------------------------------
(* Operators and targets                                                   *)

BaselineOperators ==
    {"equals_baseline", "not_equals_baseline", "superset_of_baseline",
     "no_new_items", "no_removed_items", "unchanged", "changed"}

CollectionExpected ==
    {"includes_all", "includes_any", "excludes_all", "subset_of", "superset_of"}

CollectionOperators ==
    CollectionExpected \cup
    {"superset_of_baseline", "no_new_items", "no_removed_items"}

NumericOperators ==
    {"less_than", "less_than_or_equal", "greater_than", "greater_than_or_equal"}

PureOperators == CollectionExpected \cup NumericOperators
                    \cup {"equals", "not_equals", "within_range"}

Operators == BaselineOperators \cup PureOperators \cup {"changed_only_in"}

\* A representative of each kind of target path: every dimension, alias and
\* way to be unset that the schema has.
StateTargets == {"api_surface_public", "effects", "test_surface", "module_graph",
                 "type_relations", "coverage"}

DeltaTargets == {"api_surface_delta.added", "api_surface_delta.removed_public",
                 "decorators_delta.removed", "effect_changes.added",
                 "imports_delta.added", "complexity_delta.cyclomatic",
                 "test_surface_delta.new_cases", "test_surface_delta.removed_cases",
                 "type_changes",
                 "coverage_delta.line"}

OpenTargets == {"python_specific", "python_specific.module_graph_delta",
                "python_specific.complexity_changes"}

Targets == StateTargets \cup DeltaTargets \cup OpenTargets
              \cup {"api_surfaces", "api_surface..fqn"}

\* _target_segments: the second of the two bad targets is not even a path.
WellFormed(t) == t # "api_surface..fqn"

\* _category_for_annotation; a nullable field has the category of its type.
Category(t) ==
    CASE t \in {"complexity_delta.cyclomatic", "coverage_delta.line"} -> "number"
      [] t \in OpenTargets -> "open"
      [] OTHER -> "collection"

\* _dimension_for_target, "none" where it returns None.
DimensionForTarget(t) ==
    CASE t \in {"api_surface_public", "api_surface_delta.added",
                "api_surface_delta.removed_public"} -> "api_surface"
      [] t \in {"effects", "effect_changes.added"} -> "effects"
      [] t = "imports_delta.added" -> "imports"
      [] t \in {"complexity_delta.cyclomatic",
                "python_specific.complexity_changes"} -> "complexity"
      [] t \in {"test_surface", "test_surface_delta.new_cases",
                "test_surface_delta.removed_cases"} -> "test_surface"
      [] t \in {"module_graph", "python_specific.module_graph_delta"} -> "module_graph"
      [] t \in {"type_relations", "type_changes"} -> "type_relations"
      [] t \in {"coverage", "coverage_delta.line"} -> "coverage"
      [] OTHER -> "none"

-----------------------------------------------------------------------------
(* Values                                                                  *)

\* What a path resolves to, and what `expected` holds.
Value(s, S, n) == [shape |-> s, items |-> S, num |-> n]
ItemList(S) == Value("items", S, 0)
Number(n) == Value("number", {}, n)
RangeTo(n) == Value("range", {}, n)     \* the pair (0, n)
Null == Value("null", {}, 0)
Mapping(S) == Value("mapping", S, 0)
Unresolved == Value("unresolved", {}, 0)

Added(b, c) == c \ b
Removed(b, c) == b \ c
Changes(b, c) == Added(b, c) \cup Removed(b, c)

\* resolve_path on a CodeState.  Dimensions without an extractor keep their
\* schema defaults: an empty tuple, or None for coverage and python_specific.
StateValue(t, s) ==
    CASE t = "api_surface_public" -> ItemList(s["api_surface"] \ Hidden)
      [] t \in {"effects", "test_surface", "module_graph"} -> ItemList(s[t])
      [] t = "type_relations" -> ItemList({})
      [] t \in {"coverage", "python_specific"} -> Null
      [] OTHER -> Unresolved

\* A sub-mapping of python_specific is omitted when it is empty.
Detail(S) == IF S = {} THEN Unresolved ELSE Mapping(S)

\* What the functions of S count for: each of them 1..Cyclomatic[f].
Points(S) == UNION {{f} \X (1..Cyclomatic[f]) : f \in S}

\* _sum_complexity
SumComplexity(S) == Cardinality(Points(S))

\* compute_code_state_delta, then resolve_path on the CodeStateDelta.  An entry
\* of test_surface is its case, so test_surface_changes, which compares the
\* asserts of a case, does not arise.
DeltaValue(t, b, c) ==
    CASE t = "api_surface_delta.added" -> ItemList(Added(b["api_surface"], c["api_surface"]))
      [] t = "api_surface_delta.removed_public" ->
            ItemList(Removed(b["api_surface"], c["api_surface"]) \ Hidden)
      [] t = "decorators_delta.removed" ->
            ItemList(Removed(b["api_surface"] \ Hidden, c["api_surface"] \ Hidden))
      [] t = "effect_changes.added" -> ItemList(Added(b["effects"], c["effects"]))
      [] t = "imports_delta.added" -> ItemList(Added(b["imports"], c["imports"]))
      [] t = "complexity_delta.cyclomatic" ->
            Number(SumComplexity(c["complexity"]) - SumComplexity(b["complexity"]))
      [] t = "test_surface_delta.new_cases" ->
            ItemList(Added(b["test_surface"], c["test_surface"]))
      [] t = "test_surface_delta.removed_cases" ->
            ItemList(Removed(b["test_surface"], c["test_surface"]))
      [] t = "type_changes" -> ItemList({})
      [] t = "python_specific.module_graph_delta" ->
            Detail(Changes(b["module_graph"], c["module_graph"]))
      [] t = "python_specific.complexity_changes" ->
            Detail(Changes(b["complexity"], c["complexity"]))
      [] t = "python_specific" ->
            LET all == UNION {Changes(b[d], c[d]) :
                                 d \in {"module_graph", "complexity"}}
            IN  IF all = {} THEN Null ELSE Mapping(all)
      [] OTHER -> Unresolved

\* CompiledConstraint: what `expected` and the other fields may hold.
Values ==
    {v \in [shape : STRING, items : SUBSET Items, num : Int] :
        v \in {ItemList(v.items), Number(v.num), RangeTo(v.num), Mapping(v.items), Null}}

CompiledConstraint ==
    [id : STRING, source : {"template", "user"},
     kind : {"state", "delta", "repair"}, target : STRING, op : Operators,
     expected : Values, severity : {"hard", "soft", "info"},
     policy : {"fail", "repair", "warn", "ignore"}]

-----------------------------------------------------------------------------
(* Outcomes                                                                *)

Statuses == {"satisfied", "violated", "unknown", "skipped"}
Causes == {"none", "authoring", "extraction", "open_runtime"}

Outcomes == [status : Statuses, cause : Causes]

Judged(b) == [status |-> IF b THEN "satisfied" ELSE "violated", cause |-> "none"]
Unknown(cause) == [status |-> "unknown", cause |-> cause]
Skipped == [status |-> "skipped", cause |-> "none"]

\* _unknown_type_mismatch with its default cause.
TypeMismatch == Unknown("authoring")

\* The collection operators; items are matched by identity.
CollectionHolds(op, S, E) ==
    \/ op \in {"includes_all", "superset_of"} /\ E \subseteq S
    \/ op = "includes_any" /\ E \cap S # {}
    \/ op = "excludes_all" /\ E \cap S = {}
    \/ op = "subset_of" /\ S \subseteq E

NumericHolds(op, n, e) ==
    \/ op = "less_than" /\ n < e
    \/ op = "less_than_or_equal" /\ n <= e
    \/ op = "greater_than" /\ n > e
    \/ op = "greater_than_or_equal" /\ n >= e

\* _collection_items: a mapping counts as the collection of its pairs.
Collection(v) == v.shape \in {"items", "mapping"}

\* evaluate_pure_operator, without tolerance.
PureOutcome(op, v, e) ==
    IF op = "equals" THEN Judged(v = e)
    ELSE IF op = "not_equals" THEN Judged(v # e)
    ELSE IF op \in CollectionExpected
    THEN IF Collection(v) /\ Collection(e)
         THEN Judged(CollectionHolds(op, v.items, e.items)) ELSE TypeMismatch
    ELSE IF op = "within_range"
    THEN IF v.shape = "number" /\ e.shape = "range"
         THEN Judged(0 <= v.num /\ v.num <= e.num) ELSE TypeMismatch
    ELSE IF v.shape = "number" /\ e.shape = "number"
         THEN Judged(NumericHolds(op, v.num, e.num)) ELSE TypeMismatch

\* evaluate_baseline_operator
BaselineOutcome(op, b, c) ==
    IF op \in {"equals_baseline", "unchanged"} THEN Judged(b = c)
    ELSE IF op \in {"not_equals_baseline", "changed"} THEN Judged(b # c)
    ELSE IF ~Collection(b) \/ ~Collection(c) THEN TypeMismatch
    ELSE IF op = "no_new_items" THEN Judged(c.items \subseteq b.items)
    ELSE Judged(b.items \subseteq c.items)

\* _from_operator_outcome: the shape of an open target is the run's affair.
Retagged(t, o) ==
    IF t \in OpenTargets /\ o.cause = "authoring" THEN Unknown("open_runtime") ELSE o

\* _resolved_unknown_cause
ResolvedUnknownCause(t) ==
    IF t \in OpenTargets THEN "open_runtime"
    ELSE IF t \in StateTargets \cup DeltaTargets THEN "extraction"
    ELSE "authoring"

-----------------------------------------------------------------------------
(* compile_target_svp: the checks on one user constraint                   *)

ValidPath(c) ==
    \/ c.target \in StateTargets \cup OpenTargets
    \/ c.kind = "delta" /\ c.target \in DeltaTargets

\* Mutant: a state constraint may use a baseline operator.
OperatorFitsLoose(c) ==
    \/ c.op = "changed_only_in"
    \/ c.kind = "state"
    \/ c.kind = "delta" /\ (c.op \in BaselineOperators <=> c.target \in StateTargets)

\* check_operator_target_compatibility
OperatorFits(c) ==
    \/ c.op = "changed_only_in"
    \/ c.kind = "state" /\ c.op \notin BaselineOperators
    \/ c.kind = "delta" /\ (c.op \in BaselineOperators <=> c.target \in StateTargets)

\* check_type_compatibility, the observed side and the expected side.
TypesFit(c) ==
    /\ Category(c.target) # "open" =>
          /\ c.op \in CollectionOperators => Category(c.target) = "collection"
          /\ c.op \in NumericOperators \cup {"within_range"}
                => Category(c.target) = "number"
    /\ c.op \in CollectionExpected => c.expected.shape = "items"
    /\ c.op \in NumericOperators => c.expected.shape = "number"
    /\ c.op = "within_range" => c.expected.shape = "range"

\* normalize_collection_expected
MatchFits(c) ==
    c.op \in {"excludes_all", "includes_any"} => c.expected.items # {}

Compiles(c) ==
    \/ c.kind = "repair"
    \/ ValidPath(c) /\ OperatorFits(c) /\ TypesFit(c) /\ MatchFits(c)

-----------------------------------------------------------------------------
(* _evaluate_constraint                                                    *)

\* _assemble_code_state: what was not selected or timed out is empty.
Extracted(s, out, smoke) ==
    [d \in Dimensions |->
        IF d \in out \/ (smoke /\ d \notin SmokeDimensions) THEN {} ELSE s[d]]

SkippedDimension(c, w) ==
    /\ w.smoke
    /\ DimensionForTarget(c.target) # "none"
    /\ DimensionForTarget(c.target) \notin SmokeDimensions

\* Mutant: only the candidate's timeouts are consulted.
TimedOutCandidate(c, w) == DimensionForTarget(c.target) \in w.candOut

\* A state constraint reads the candidate only.
TimedOutDimension(c, w) ==
    DimensionForTarget(c.target)
        \in IF c.kind = "state" THEN w.candOut ELSE w.baseOut \cup w.candOut

EvaluateState(c, cand) ==
    LET v == StateValue(c.target, cand)
    IN  IF c.target \notin StateTargets \cup OpenTargets \/ c.op \in BaselineOperators
        THEN Unknown("authoring")
        ELSE IF v = Unresolved THEN Unknown(ResolvedUnknownCause(c.target))
        ELSE Retagged(c.target, PureOutcome(c.op, v, c.expected))

\* Mutant: an allow rule is consulted for every constraint on its target.
AllowedAnySource(c, w) ==
    CASE c.target = "effect_changes.added" -> w.allowEffects
      [] c.target = "api_surface_delta.removed_public" -> w.allowApi
      [] OTHER -> {}

\* _delta_for_constraint and _states_for_constraint: an allow rule hides its
\* entries from the template constraint it is meant for, and from no other.
Allowed(c, w) ==
    IF c.source # "template" THEN {}
    ELSE CASE /\ c.id = "no_removed_api"
              /\ c.target = "api_surface_delta.removed_public"
              /\ c.op = "equals" -> w.allowApi
           [] /\ c.id = "api_surface_unchanged"
              /\ c.target = "api_surface_public"
              /\ c.op = "equals_baseline" -> w.allowApi
           [] /\ c.id = "no_new_effects"
              /\ c.target = "effect_changes.added"
              /\ c.op = "equals" -> w.allowEffects
           [] OTHER -> {}

Without(v, S) == IF S = {} THEN v ELSE [v EXCEPT !.items = @ \ S]

EvaluateDelta(c, w, base, cand) ==
    LET allowed == Allowed(c, w)
        v == Without(DeltaValue(c.target, base, cand), allowed)
        bv == Without(StateValue(c.target, base), allowed)
        cv == Without(StateValue(c.target, cand), allowed)
    IN  IF c.target \in DeltaTargets \cup OpenTargets
        THEN IF c.op \in BaselineOperators THEN Unknown("authoring")
             ELSE IF v = Unresolved THEN Unknown(ResolvedUnknownCause(c.target))
             ELSE Retagged(c.target, PureOutcome(c.op, v, c.expected))
        ELSE IF c.target \in StateTargets /\ c.op \in BaselineOperators
             THEN IF Unresolved \in {bv, cv}
                  THEN Unknown(ResolvedUnknownCause(c.target))
                  ELSE Retagged(c.target, BaselineOutcome(c.op, bv, cv))
             ELSE Unknown("authoring")

EvaluateConstraint(c, w) ==
    LET base == Extracted(w.base, w.baseOut, w.smoke)
        cand == Extracted(w.cand, w.candOut, w.smoke)
    IN  IF c.kind = "repair" \/ c.op = "changed_only_in" THEN Skipped
        ELSE IF ~WellFormed(c.target) THEN Unknown("authoring")
        ELSE IF SkippedDimension(c, w) THEN Skipped
        ELSE IF TimedOutDimension(c, w) THEN Unknown("extraction")
        ELSE IF c.kind = "state" THEN EvaluateState(c, cand)
        ELSE EvaluateDelta(c, w, base, cand)

=============================================================================
