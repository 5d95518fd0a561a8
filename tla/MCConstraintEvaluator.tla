----------------------- MODULE MCConstraintEvaluator -----------------------
(* TLC instances of ConstraintEvaluator.                                   *)
EXTENDS AuthoringHazards

CONSTANTS a, b, big

\* Two functions can take the place of one that has more branches than they.
ComplexityOf == [i \in Items |-> IF i = a THEN 1 ELSE IF i = b THEN 2 ELSE 3]

Constraint(id, source, kind, t, op, e, severity, policy) ==
    [id |-> id, source |-> source, kind |-> kind, target |-> t, op |-> op,
     expected |-> e, severity |-> severity, policy |-> policy]

Literals == {ItemList({}), ItemList({a}), Number(0), RangeTo(1)}

\* Every user constraint over the targets of T that the compiler accepts; one
\* of kind repair is skipped whatever it says.
Compiled(T) ==
    {c \in {Constraint("user", "user", k, t, op, e, "soft", "warn") :
               k \in {"state", "delta"}, t \in T, op \in Operators, e \in Literals} :
        Compiles(c)}
    \cup {Constraint("user", "user", "repair", t, "equals", ItemList({}), "soft", "warn") : t \in T}

\* The template constraints that allow rules apply to (compiler/templates.py).
Template(id, t, op) ==
    Constraint(id, "template", "delta", t, op, ItemList({}), "hard", "fail")

Templates == {Template("api_surface_unchanged", "api_surface_public", "equals_baseline"),
              Template("no_removed_api", "api_surface_delta.removed_public", "equals"),
              Template("no_new_effects", "effect_changes.added", "equals")}

\* The targets whose dimension the evaluator knows.
KnownTargets ==
    Targets \ {"decorators_delta.removed", "python_specific", "coverage"}

\* Comparisons that differ in one dimension d, with any timeouts of it.
EmptyState == [x \in Dimensions |-> {}]

WorldsOf(d, E, smokes, outs, allows) ==
    {[base |-> [EmptyState EXCEPT ![d] = S], cand |-> [EmptyState EXCEPT ![d] = T],
      smoke |-> sm, baseOut |-> bo, candOut |-> co,
      allowApi |-> al, allowEffects |-> al] :
        S \in SUBSET E, T \in SUBSET E, sm \in smokes,
        bo \in outs, co \in outs, al \in allows}

PartialWorlds ==
    UNION {WorldsOf(d, {a, b}, BOOLEAN, {{}, {d}}, {{}}) : d \in Dimensions}

\* Second constraints of every weight, behind a template or a user's lock.
Weights == {<<"hard", "fail">>, <<"soft", "warn">>, <<"info", "repair">>}

Advised(T) ==
    {[c EXCEPT !.severity = w[1], !.policy = w[2]] :
        c \in {x \in Compiled(T) : x.kind = "delta"}, w \in Weights}

Lock == Constraint("lock", "user", "delta", "imports_delta.added", "excludes_all",
                   ItemList({a}), "hard", "fail")

AdvisedPlans ==
    {<<Lock, c>> : c \in Advised({"api_surface_delta.added", "test_surface_delta.new_cases",
                                  "complexity_delta.cyclomatic",
                                  "python_specific.module_graph_delta"})}
    \cup {<<Template("no_new_effects", "effect_changes.added", "equals"), c>> :
             c \in Advised({"effect_changes.added"})}
    \cup {<<Template("api_surface_unchanged", "api_surface_public", "equals_baseline"), c>> :
             c \in Advised({"api_surface_public"})}

OutcomePlans == {<<c>> : c \in Compiled(KnownTargets) \cup Templates} \cup AdvisedPlans

\* Complete comparisons with any allow rules.
AllowWorlds ==
    UNION {WorldsOf(d, {a, b}, {FALSE}, {{}}, SUBSET {a, b}) : d \in {"effects", "api_surface"}}

\* Complete comparisons in which functions and branches come and go.
BranchWorlds == WorldsOf("complexity", Items, {FALSE}, {{}}, {{}})

OutcomeWorlds == PartialWorlds \cup AllowWorlds \cup BranchWorlds

AuthGuardPlans ==
    {<<Constraint("user", "user", "delta", "decorators_delta.removed",
                  "excludes_all", ItemList({a}), s, "fail")>> : s \in {"hard", "soft"}}

CoveragePlans == {<<c>> : c \in Compiled({"coverage"})}

\* The outcome plans meet the hypotheses of the theorems about them.
ASSUME OutcomePlansQualify ==
    Plans = OutcomePlans =>
        PlansCompile /\ CoverageUnused /\ DimensionsKnown /\ TemplatesAsShipped

=============================================================================
