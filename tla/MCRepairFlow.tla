---------------------------- MODULE MCRepairFlow ----------------------------
(* TLC instance of RepairFlow.                                             *)
EXTENDS RepairFlow

CONSTANTS a, b

ComplexityOf == [i \in Items |-> 1]

Constraint(id, source, kind, t, op, e, severity, policy) ==
    [id |-> id, source |-> source, kind |-> kind, target |-> t, op |-> op,
     expected |-> e, severity |-> severity, policy |-> policy]

Template(id, t, op) ==
    Constraint(id, "template", "delta", t, op, ItemList({}), "hard", "fail")

\* A user constraint of each way to be judged, and of each way to count.
UserConstraints(id) ==
    {Constraint(id, "user", "delta", "effect_changes.added", "excludes_all",
                ItemList({a}), s, "warn") : s \in {"hard", "soft", "info"}}
    \cup {Constraint(id, "user", "delta", "api_surface_public", "no_removed_items",
                     ItemList({}), "hard", po) : po \in {"fail", "repair", "warn", "ignore"}}
    \cup {Constraint(id, "user", "state", "effects", "includes_all", ItemList({a}), s, "fail") :
             s \in {"hard", "soft"}}
    \cup {Constraint(id, "user", "delta", "test_surface", "unchanged", ItemList({}), "soft", "fail"),
          Constraint(id, "user", "delta", "effects", "changed_only_in", ItemList({a}), "hard", "fail"),
          Constraint(id, "user", "repair", "effects", "equals", ItemList({}), "hard", "fail"),
          \* accepted, and unknown for an authoring cause when evaluated
          Constraint(id, "user", "delta", "coverage", "no_new_items", ItemList({}), "hard", "ignore"),
          Constraint(id, "user", "delta", "coverage", "no_new_items", ItemList({}), "soft", "ignore"),
          \* refused by the compiler
          Constraint(id, "user", "state", "effects", "equals_baseline", ItemList({}), "hard", "ignore")}

TargetPlans ==
    {t \o <<c, d>> :
        t \in {<<>>, <<Template("no_new_effects", "effect_changes.added", "equals")>>,
               <<Template("api_surface_unchanged", "api_surface_public", "equals_baseline")>>},
        c \in UserConstraints("u1"), d \in UserConstraints("u2")}
    \cup {<<c, c>> : c \in UserConstraints("u1")}

EmptyState == [x \in Dimensions |-> {}]

WorldsOf(d, smokes, outs) ==
    {[base |-> [EmptyState EXCEPT ![d] = S], cand |-> [EmptyState EXCEPT ![d] = T],
      smoke |-> sm, baseOut |-> bo, candOut |-> {}, allowApi |-> {}, allowEffects |-> {}] :
        S \in SUBSET {a}, T \in SUBSET {a}, sm \in smokes, bo \in outs}

Comparisons == WorldsOf("effects", BOOLEAN, {{}})
                  \cup WorldsOf("api_surface", {FALSE}, {{}, {"api_surface"}})

CommandLines ==
    [command : {"check", "compare"}, format : Formats, strict : {FALSE}, toFile : {FALSE}]
    \cup {[command |-> "check", format |-> f, strict |-> TRUE, toFile |-> TRUE] :
             f \in {"json", "gh-actions"}}
    \cup [command : {"validate-plan"}, format : {"json"}, strict : {FALSE}, toFile : BOOLEAN]

=============================================================================
