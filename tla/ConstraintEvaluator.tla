------------------------- MODULE ConstraintEvaluator -------------------------
(***************************************************************************)
(* evaluate_constraints of evaluator/evaluator.py: the loop over compiled  *)
(* constraints with its short circuit after a violated user lock, and the  *)
(* loop of _aggregate over the results.                                    *)
(***************************************************************************)
EXTENDS Constraints, Sequences

CONSTANTS
    Plans,      \* the compiled constraint sequences considered
    Worlds      \* the comparisons considered

ASSUME PlanTypes == Plans \subseteq Seq(CompiledConstraint)

ASSUME WorldTypes == Worlds \subseteq Comparison

VARIABLES
    plan,       \* compiled.constraints
    world,      \* the comparison, see Constraints
    results,    \* outcomes appended so far
    short,      \* short_circuited
    agg,        \* _aggregate: results already examined
    hasRepair,  \* _aggregate: has_repair
    verdict     \* Verdict.result, or "none" while evaluating

vars == <<plan, world, results, short, agg, hasRepair, verdict>>

-----------------------------------------------------------------------------
Verdicts == {"pass", "repair", "fail"}

\* _LOCK_SHORT_CIRCUIT_OPERATORS
LockOperators == {"equals_baseline", "superset_of_baseline", "no_new_items",
                  "no_removed_items", "unchanged"}

\* _DELTA_LOCK_COLLECTION_TARGETS; decorators_delta is not among them.
LockTargets == {"api_surface_delta.added", "api_surface_delta.removed_public",
                "effect_changes.added", "imports_delta.added",
                "test_surface_delta.new_cases", "test_surface_delta.removed_cases",
                "type_changes"}

\* _is_equals_empty_delta_lock and _is_deny_style_delta_lock
DeltaLock(c) ==
    /\ c.kind = "delta"
    /\ c.target \in LockTargets
    /\ \/ c.op = "equals" /\ c.expected = ItemList({})
       \/ c.op \in {"excludes_all", "subset_of"}

\* _is_user_lock_result
UserLock(c) ==
    /\ c.source = "user"
    /\ c.severity = "hard"
    /\ c.op \in LockOperators \/ DeltaLock(c)

\* Mutant: a lock of any severity ends the evaluation.
ShouldShortCircuitSoft(c, r) ==
    (c.op \in LockOperators \/ DeltaLock(c)) /\ r.status = "violated"

\* Mutant: any violated hard user constraint ends the evaluation.
ShouldShortCircuitAnyHard(c, r) ==
    c.source = "user" /\ c.severity = "hard" /\ r.status = "violated"

ShouldShortCircuit(c, r) ==
    /\ UserLock(c)
    /\ r.status = "violated" \/ (r.status = "unknown" /\ r.cause = "authoring")

\* The outcomes for which _aggregate returns FAIL at once.
Fails(c, r) ==
    \/ r.status = "violated" /\ c.severity = "hard"
    \/ r.status = "unknown" /\ (r.cause = "authoring" \/ c.policy = "fail")

\* The outcomes for which it sets has_repair.
Repairs(c, r) ==
    \/ r.status = "violated" /\ c.severity = "soft"
    \/ r.status = "unknown" /\ r.cause # "authoring" /\ c.policy = "repair"

Init ==
    /\ plan \in Plans
    /\ world \in Worlds
    /\ results = <<>>
    /\ short = FALSE
    /\ agg = 0
    /\ hasRepair = FALSE
    /\ verdict = "none"

\* One turn of the evaluation loop.
EvaluateNext ==
    /\ Len(results) < Len(plan)
    /\ ~short
    /\ LET c == plan[Len(results) + 1]
           r == EvaluateConstraint(c, world)
       IN  /\ results' = Append(results, r)
           /\ short' = ShouldShortCircuit(c, r)
    /\ UNCHANGED <<plan, world, agg, hasRepair, verdict>>

\* Mutant: every turn of a short-circuited loop appends one result too many.
SkipNextTwice ==
    /\ Len(results) < Len(plan)
    /\ short
    /\ results' = results \o <<Skipped, Skipped>>
    /\ UNCHANGED <<plan, world, short, agg, hasRepair, verdict>>

\* _short_circuit_skipped_result
SkipNext ==
    /\ Len(results) < Len(plan)
    /\ short
    /\ results' = Append(results, Skipped)
    /\ UNCHANGED <<plan, world, short, agg, hasRepair, verdict>>

\* One turn of the loop of _aggregate.
AggregateNext ==
    /\ Len(results) = Len(plan)
    /\ agg < Len(plan)
    /\ verdict = "none"
    /\ agg' = agg + 1
    /\ LET c == plan[agg + 1]
           r == results[agg + 1]
       IN  /\ verdict' = IF Fails(c, r) THEN "fail" ELSE verdict
           /\ hasRepair' = (hasRepair \/ Repairs(c, r))
    /\ UNCHANGED <<plan, world, results, short>>

AggregateEnd ==
    /\ Len(results) = Len(plan)
    /\ agg = Len(plan)
    /\ verdict = "none"
    /\ verdict' = IF hasRepair THEN "repair" ELSE "pass"
    /\ UNCHANGED <<plan, world, results, short, agg, hasRepair>>

\* The verdict is returned.
Returned == verdict # "none" /\ UNCHANGED vars

Next == EvaluateNext \/ SkipNext \/ AggregateNext \/ AggregateEnd \/ Returned

Spec == Init /\ [][Next]_vars

-----------------------------------------------------------------------------
(* Properties                                                              *)

\* The loops keep their types and their pace.
TypeOK ==
    /\ results \in Seq(Outcomes)
    /\ Len(results) <= Len(plan)
    /\ short \in BOOLEAN
    /\ agg \in 0..Len(plan)
    /\ hasRepair \in BOOLEAN
    /\ verdict \in Verdicts \cup {"none"}

\* The outcome constraint m has when nothing is short-circuited.
FullResult(m) == EvaluateConstraint(plan[m], world)

\* The verdict as the design documents define it, over every constraint.
FullVerdict ==
    IF \E m \in 1..Len(plan) : Fails(plan[m], FullResult(m)) THEN "fail"
    ELSE IF \E m \in 1..Len(plan) : Repairs(plan[m], FullResult(m)) THEN "repair"
    ELSE "pass"

\* Skipping the constraints after a violated user lock, and returning from
\* _aggregate at the first failure, never change the verdict: it is the one
\* that judging every constraint would give.
VerdictIsFull == verdict # "none" => verdict = FullVerdict

\* The comparison with complete data: no smoke subset and no timeout.
Complete(w) == [w EXCEPT !.smoke = FALSE, !.baseOut = {}, !.candOut = {}]

\* A constraint that is judged satisfied or violated although dimensions were
\* skipped or timed out is judged as it would be on complete data: an empty
\* default never decides a constraint.
NoJudgementFromDefaults ==
    \A m \in 1..Len(results) :
        results[m].status \in {"satisfied", "violated"}
            => results[m] = EvaluateConstraint(plan[m], Complete(world))

\* The dimensions that the value of a target is computed from.
SourceDimensions(t) ==
    CASE t = "decorators_delta.removed" -> {"api_surface"}
      [] t = "python_specific" -> {"module_graph", "complexity"}
      [] OTHER -> {DimensionForTarget(t)} \cap Dimensions

\* docs/code_semantic_ci_design.md 18.4: a constraint that reads a timed-out
\* dimension is UNKNOWN with cause extraction.
TimedOutMeansUnknown ==
    \A m \in 1..Len(results) :
        LET c == plan[m]
            out == IF c.kind = "state" THEN world.candOut
                   ELSE world.baseOut \cup world.candOut
        IN  SourceDimensions(c.target) \cap out # {}
                => results[m].status \in {"unknown", "skipped"}

\* No constraint that the compiler accepts is ever unknown for an authoring
\* cause, whatever the states hold: the static path, operator and type checks
\* cover every authoring branch of the evaluator.
CompiledNeverAuthoring ==
    \A m \in 1..Len(results) : results[m].cause # "authoring"

NoAllowance(w) == [w EXCEPT !.allowApi = {}, !.allowEffects = {}]

\* The entries that violate a template constraint of this id.
Offending(id, w) ==
    CASE id = "no_removed_api" ->
            Removed(w.base["api_surface"], w.cand["api_surface"]) \ Hidden
      [] id = "api_surface_unchanged" ->
            Changes(w.base["api_surface"], w.cand["api_surface"]) \ Hidden
      [] OTHER -> Added(w.base["effects"], w.cand["effects"])

\* Allow rules only relax: an outcome they change was a violation of a
\* template constraint, and it becomes satisfied only when every entry that
\* violated it is allowed.
AllowRulesOnlyRelax ==
    \A m \in 1..Len(results) :
        LET c == plan[m]
            strict == EvaluateConstraint(c, NoAllowance(world))
        IN  results[m] \notin {strict, Skipped} =>
                /\ c.source = "template"
                /\ strict.status = "violated"
                /\ results[m].status = "satisfied"
                /\ Offending(c.id, world)
                      \subseteq IF c.id = "no_new_effects" THEN world.allowEffects
                                ELSE world.allowApi

-----------------------------------------------------------------------------
(* What the theorems ask of the plans                                      *)

\* Plans as compile_target_svp lets them through.
PlansCompile == \A p \in Plans : \A m \in 1..Len(p) : Compiles(p[m])

\* Plans without a constraint on coverage: no extractor fills it, and
\* eval_coverage shows what follows.
CoverageUnused == \A p \in Plans : \A m \in 1..Len(p) : p[m].target # "coverage"

\* Plans without the two targets whose dimension _dimension_for_target does
\* not know; eval_authguard shows what becomes of those.
DimensionsKnown ==
    \A p \in Plans : \A m \in 1..Len(p) :
        p[m].target \notin {"decorators_delta.removed", "python_specific"}

\* The constraints of templates.py: _template gives every one the same kind,
\* severity and policy, and the two ids below say that a collection is empty.
TemplatesAsShipped ==
    \A p \in Plans : \A m \in 1..Len(p) :
        p[m].source = "template" =>
            /\ p[m].kind = "delta" /\ p[m].severity = "hard" /\ p[m].policy = "fail"
            /\ p[m].id \in {"no_removed_api", "no_new_effects"}
                  => p[m].expected = ItemList({})

=============================================================================
