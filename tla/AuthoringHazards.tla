-------------------------- MODULE AuthoringHazards --------------------------
(***************************************************************************)
(* authoring/hazards.py: what target-doctor tells the author of a target   *)
(* before any run, for the advisories that foretell a verdict, set beside  *)
(* the evaluator that gives it.  The target is `plan`.  As in Constraints  *)
(* there are no tolerances, no zero records of a whole delta, and          *)
(* ItemList({}) stands for the absent `expected` of a baseline operator.   *)
(***************************************************************************)
EXTENDS ConstraintEvaluator

Naming(Test(_)) == {m \in 1..Len(plan) : Test(plan[m])}

\* is_leaf: the targets with a dot.
Leaf(t) == t \in (DeltaTargets \ {"type_changes"}) \cup (OpenTargets \ {"python_specific"})

\* Mutant: a constraint of severity info is never counted.
ParticipatesInVerdictNoInfo(c) ==
    c.kind # "repair" /\ c.op # "changed_only_in" /\ c.severity # "info"

\* _participates_in_verdict: unknown_policy brings an info constraint back.
ParticipatesInVerdict(c) ==
    /\ c.kind # "repair"
    /\ c.op # "changed_only_in"
    /\ c.severity = "info" => c.policy \in {"fail", "repair"}

EmptyCollection(e) == e = ItemList({})
ScalarNumber(e) == e.shape = "number"

\* _is_lock_only_constraint: satisfied by an empty delta.
LockOnlyConstraint(c) ==
    /\ c.kind = "delta"
    /\ c.target \notin OpenTargets
    /\ \/ c.op \in LockOperators
       \/ /\ Leaf(c.target)
          /\ \/ c.op \in {"excludes_all", "subset_of"}
             \/ c.op \in {"equals", "includes_all", "superset_of"} /\ EmptyCollection(c.expected)
             \/ c.op = "equals" /\ c.expected = Number(0)
             \/ c.op = "not_equals" /\ c.expected # Number(0) /\ ~EmptyCollection(c.expected)
             \/ ScalarNumber(c.expected) /\ NumericHolds(c.op, 0, c.expected.num)
             \/ c.op = "within_range" /\ c.expected.shape = "range" /\ 0 <= c.expected.num

\* _is_lock_only_target
LockOnlyTarget ==
    LET counted == Naming(ParticipatesInVerdict)
    IN  counted # {} /\ \A m \in counted : LockOnlyConstraint(plan[m])

\* _targets_added_dimension
TargetsAddedDimension(t) == t \in {"api_surface_delta.added", "test_surface_delta.new_cases"}

\* _is_positive_addition
PositiveAddition(c) ==
    /\ ParticipatesInVerdict(c)
    /\ TargetsAddedDimension(c.target)
    /\ \/ c.op \in {"equals", "includes_all", "includes_any", "superset_of"}
             /\ ~EmptyCollection(c.expected)
       \/ c.op = "not_equals" /\ EmptyCollection(c.expected)

\* _targets_new_test_cases
TargetsNewTestCases(c) == c.target = "test_surface_delta.new_cases" /\ PositiveAddition(c)

\* _rejects_cyclomatic_delta
RejectsCyclomaticDelta(c, n) ==
    \/ c.op = "less_than_or_equal" /\ ScalarNumber(c.expected) /\ ~(n <= c.expected.num)
    \/ c.op = "less_than" /\ ScalarNumber(c.expected) /\ ~(n < c.expected.num)
    \/ c.op = "equals" /\ ScalarNumber(c.expected) /\ c.expected.num # n
    \/ c.op = "within_range" /\ c.expected.shape = "range" /\ ~(0 <= n /\ n <= c.expected.num)

\* Mutant: the literals are not compared.
ConstraintsCollideLoose(u, t) == u.kind = t.kind /\ u.target = t.target /\ u.op = t.op

\* _constraints_collide
ConstraintsCollide(u, t) ==
    u.kind = t.kind /\ u.target = t.target /\ u.op = t.op /\ u.expected = t.expected

-----------------------------------------------------------------------------
(* The advisories                                                          *)

\* detect_d3, the user constraints named; the templates are those of the plan.
DetectD3 ==
    Naming(LAMBDA c : c.source = "user" /\
        \E k \in 1..Len(plan) : plan[k].source = "template" /\ ConstraintsCollide(c, plan[k]))

\* detect_d4 for a diff without Python files.
DetectD4 == LockOnlyTarget

\* detect_d7 for a target whose primary_kind is refactor, when the diff adds
\* `net` visible functions; the constraints named.
DetectD7(net) ==
    IF net <= 0 THEN {}
    ELSE Naming(LAMBDA c : c.target = "complexity_delta.cyclomatic"
                          /\ ParticipatesInVerdict(c) /\ RejectsCyclomaticDelta(c, net))

\* detect_p1 for a feature, detect_p2 for a bugfix.
DetectP1 == Naming(PositiveAddition) = {}
DetectP2 == Naming(TargetsNewTestCases) = {}

\* detect_s1, the constraints named.
DetectS1 ==
    Naming(LAMBDA c : c.source = "user" /\ c.severity = "info"
                                /\ c.policy \in {"fail", "repair"})

-----------------------------------------------------------------------------
(* Properties                                                              *)

\* What D4 does not consider: coverage, which no extractor fills, and `equals`
\* with a literal of another type than its target, which the compiler accepts.
D4Blind(c) ==
    \/ c.target \in {"coverage", "coverage_delta.line"}
    \/ c.op = "equals" /\ Category(c.target) # "open"
          /\ (Category(c.target) = "number") # ScalarNumber(c.expected)

\* Functions the candidate has more.
NetAdded == Cardinality(world.cand["complexity"]) - Cardinality(world.base["complexity"])

\* What the functions of S count for beyond one each.
Branches(S) == UNION {{f} \X (2..Cyclomatic[f]) : f \in S}

\* The candidate has as many branches as the baseline, in whatever functions:
\* "every branch is preserved", as detect_d7 says of an extraction.
BranchesPreserved ==
    Cardinality(Branches(world.cand["complexity"])) = Cardinality(Branches(world.base["complexity"]))

\* The advisories foretell the verdict of a complete run.  A target that D4
\* calls vacuous passes on unchanged code, unless it has a constraint that D4
\* does not see through; a target that P1 or P2 finds nothing missing in does
\* not pass on unchanged code, and one that D7 warns of does not pass when the
\* functions are added and every branch is preserved (it may pass when branches
\* go as well), unless S1 warns that a violation would not count.
VerdictAsAdvised ==
    verdict # "none" /\ world = Complete(world) =>
        /\ DetectD4 /\ world.base = world.cand /\ Naming(D4Blind) = {}
              => verdict = "pass"
        /\ (~DetectP1 \/ ~DetectP2) /\ world.base = world.cand /\ DetectS1 = {}
              => verdict # "pass"
        /\ DetectD7(NetAdded) # {} /\ BranchesPreserved /\ DetectS1 = {}
              => verdict # "pass"

\* A user constraint that D3 advises to remove as a duplicate decides nothing:
\* the verdict is that of the other constraints, whatever its severity and
\* policy, in partial runs too.  Only an allow rule, which relaxes the template
\* and not its duplicate, can tell the two apart.
DuplicateIsRedundant ==
    verdict # "none" /\ world = NoAllowance(world) =>
        \A d \in DetectD3 :
            LET rest == (1..Len(plan)) \ {d}
            IN  /\ verdict = "fail" <=> \E m \in rest : Fails(plan[m], FullResult(m))
                /\ verdict = "pass" <=>
                      \A m \in rest : ~Fails(plan[m], FullResult(m))
                                         /\ ~Repairs(plan[m], FullResult(m))

=============================================================================
