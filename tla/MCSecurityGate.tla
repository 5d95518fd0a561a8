--------------------------- MODULE MCSecurityGate ---------------------------
(* TLC instance of SecurityGate.                                           *)
EXTENDS SecurityGate

CONSTANTS s1, s2, s3, v1, v2, v3, r1, r2

\* A directory named like the scanned one lies below it.
Top == <<"src", "a">>
Nested == <<"src", "src", "a">>
RepoFiles == {Top, Nested, <<"setup">>}
Src == <<"src">>

RuleOf == s1 :> r1 @@ s2 :> r2 @@ s3 :> r1
FileOf == s1 :> Top @@ s2 :> Nested @@ s3 :> Top
LevelOf == s1 :> "ERROR" @@ s2 :> "INFO" @@ s3 :> "WARNING"
VulnOf == v1 :> [score |-> 95, named |-> "none"] @@ v2 :> [score |-> 0, named |-> "info"]
             @@ v3 :> [score |-> -1, named |-> "low"]
RulesetFinds == <<{s1, s2}, {s1, s2, s3}>>
DatabaseKnows == <<{v1, v3}, {v1, v2, v3}>>

At(g, n) == [group |-> g, span |-> n]
Trees == {{}, {At(s1, 1)}, {At(s1, 2)}, {At(s1, 1), At(s1, 3)}, {At(s1, 2), At(s2, 1), At(s3, 3)}}

BaseWorld ==
    [tree |-> [x \in Sides |-> {}], deps |-> [x \in Sides |-> {}], convention |-> "absolute",
     order |-> "doubled", kind |-> "requirements", locked |-> FALSE, lockBad |-> FALSE,
     recorded |-> TRUE, sensors |-> {"semgrep"}, api |-> {}, renames |-> {}]

Pair(x, y) == [side \in Sides |-> IF side = "baseline" THEN x ELSE y]
SomeTrees == {{At(s1, 1)}, {At(s1, 2), At(s2, 1), At(s3, 3)}}
SomeDeps == {{}, {v1}, {v2, v3}}

ScanWorlds ==
    {[BaseWorld EXCEPT !.tree = Pair(x, y)] : x \in Trees, y \in Trees}
    \cup {[BaseWorld EXCEPT !.tree = Pair(x, y), !.convention = c, !.order = "reversed"] :
             x \in SomeTrees, y \in SomeTrees, c \in {"repo", "target"}}
    \cup {[BaseWorld EXCEPT !.deps = Pair(x, y), !.recorded = b, !.sensors = {"pip-audit"}] :
             x \in SomeDeps, y \in SomeDeps, b \in BOOLEAN}
    \cup {[BaseWorld EXCEPT !.tree = Pair({}, x), !.deps = Pair({v3}, d),
                            !.sensors = {"semgrep", "pip-audit"}] : x \in SomeTrees, d \in {{v3}, {v1}}}
    \cup {[BaseWorld EXCEPT !.deps = Pair({}, {v1}), !.sensors = {"pip-audit"}, !.kind = k,
                            !.locked = l, !.lockBad = l] :
             k \in SourceKinds, l \in BOOLEAN}

\* pkg.mod was renamed from pkg.old; a view, its class and a moved function.
Entry(q, k, g) == [fqn |-> q, kind |-> k, guarded |-> g]
ScoutWorlds ==
    {[BaseWorld EXCEPT !.sensors = {}, !.renames = {[new |-> <<"lib", "pkg", "mod">>,
                                                     old |-> <<"pkg", "old">>]},
                       !.api = {Entry(<<"pkg", "old", "f">>, "function", FALSE),
                                Entry(<<"pkg", "view", "C">>, "class", g),
                                Entry(<<"pkg", "view", "C", "get">>, "function", FALSE)}] :
        g \in BOOLEAN}

NoPolicy ==
    [notIn |-> {}, maxCount |-> -1, deny |-> {}, sameRuleset |-> TRUE, sameVersion |-> FALSE,
     sameDb |-> TRUE, suppressions |-> {}]

Suppress(s, g, p, n, until) ==
    [id |-> <<s, g, p, n>>, expires |-> until, valid |-> TRUE]

Policies ==
    {NoPolicy,
     [NoPolicy EXCEPT !.notIn = {"critical"}, !.sameVersion = TRUE],
     [NoPolicy EXCEPT !.maxCount = 0, !.notIn = {"critical"}],
     [NoPolicy EXCEPT !.deny = {r2}, !.sameRuleset = FALSE, !.sameDb = FALSE],
     [NoPolicy EXCEPT !.suppressions = {Suppress("semgrep", s1, Top, 0, 1),
                                        Suppress("semgrep", s1, Top, 1, 2),
                                        Suppress("pip-audit", v1, <<>>, 0, 1)}]}

Plain ==
    [flags |-> "both", format |-> "sarif", strict |-> FALSE, asOf |-> 0, code |-> "pass",
     policy |-> NoPolicy, late |-> {}, foreign |-> "none", payloads |-> <<>>, mutes |-> {}]

Item(c, m, q, k, n, s) ==
    [class |-> c, module |-> m, fqn |-> q, kind |-> k,
     expected |-> IF k = "absence" THEN "login" ELSE "", ordinal |-> n, severity |-> s]

Moved(n, s) == Item("missing-authz", <<"lib", "pkg", "mod">>, <<"pkg", "mod", "f">>, "absence", n, s)
View(n, s) == Item("missing-authz", <<"pkg", "view">>, <<"pkg", "view", "C", "get">>, "absence", n, s)
Inject(n, s) == Item("injection", <<"pkg", "view">>, <<"pkg", "view", "C", "get">>, "presence", n, s)

Payload(st, fs) == [valid |-> TRUE, status |-> st, findings |-> fs]
Scouts ==
    {Payload("complete", <<Inject(-1, "low"), Moved(-1, "high"), Inject(0, "high"), View(-1, "info")>>),
     Payload("complete", <<Inject(1, "medium"), Inject(-1, "low"), Inject(-1, "low")>>),
     Payload("complete", <<Moved(0, "low"), Moved(0, "low")>>),
     Payload("complete", <<Moved(1, "critical"), View(-1, "low")>>),
     Payload("error", <<Inject(-1, "low")>>),
     [Payload("complete", <<>>) EXCEPT !.valid = FALSE]}

Mute(sensor, f, until) == [sensor |-> sensor, anchor |-> Anchor(f), expires |-> until]
Ledger == {Mute(CodexSecurity, Inject(0, "low"), 1), Mute(CodexSecurity, Moved(0, "low"), 2),
           Mute(LLMEnsemble, View(0, "low"), 1)}

SensorRequests ==
    {[Plain EXCEPT !.policy = p] : p \in Policies}
    \cup {[Plain EXCEPT !.code = "repair", !.strict = TRUE, !.asOf = 2, !.format = "json"],
          [Plain EXCEPT !.code = "fail"]}
    \cup {[Plain EXCEPT !.late = {"pip-audit"}]}
    \cup {[Plain EXCEPT !.payloads = <<p>>, !.format = "json", !.foreign = "advisory_sensor"] :
             p \in {x \in Scouts : x.status = "error"}}

RefusedRequests ==
    {[Plain EXCEPT !.flags = "one"], [Plain EXCEPT !.foreign = "llm_finding"],
     [Plain EXCEPT !.policy.suppressions =
         {[Suppress("semgrep", s1, Top, 0, 1) EXCEPT !.valid = FALSE]}]}

RefusedScouts ==
    {[Plain EXCEPT !.flags = "none", !.format = "json", !.payloads = <<x>>, !.asOf = -1] :
        x \in Scouts}
    \cup {[Plain EXCEPT !.flags = "none", !.format = "json", !.payloads = <<x>>,
                        !.mutes = Ledger \cup {Mute(LLMEnsemble, View(0, "low"), 2)}] : x \in Scouts}

ScoutRequests ==
    {[Plain EXCEPT !.flags = "none", !.format = f, !.payloads = p, !.mutes = m] :
        f \in {"json", "sarif"}, m \in {{}, Ledger},
        p \in {<<>>} \cup {<<x>> : x \in Scouts} \cup {<<x, y>> : x \in Scouts, y \in Scouts}}

AllWorlds == ScanWorlds \cup ScoutWorlds
AllRequests == SensorRequests \cup RefusedRequests \cup RefusedScouts \cup ScoutRequests

=============================================================================
