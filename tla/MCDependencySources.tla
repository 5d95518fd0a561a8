------------------------- MODULE MCDependencySources -------------------------
(* TLC instance of DependencySources: every lock over an application and    *)
(* two packages, with cycles, an extra, markers and variants.              *)
EXTENDS DependencySources

CONSTANTS app, a, b, x

Version(text, release) ==
    [text |-> text, release |-> release, phase |-> Final, wild |-> FALSE, parts |-> {}]

Word(text) == [text |-> text, release |-> <<>>, phase |-> Final, wild |-> FALSE,
               parts |-> {}]

\* Ranks of the texts: "3.10" < "3.11" < "3.11.0" < "3.11.4" < "linux" < "win32".
MCEnvironment == [python_version |-> Version(2, <<3, 11>>),
                  python_full_version |-> Version(4, <<3, 11, 4>>),
                  sys_platform |-> Word(5)]

Marker(j, cs) == [junction |-> j, clauses |-> cs]
Clause(v, op, val) == [var |-> v, op |-> op, value |-> val]

Holds == Marker("and", {Clause("python_full_version", "~=", Version(3, <<3, 11, 0>>)),
                        Clause("sys_platform", "!=", Word(6))})
HoldsNot == Marker("or", {Clause("python_version", "<", Version(1, <<3, 10>>)),
                          Clause("sys_platform", "==", Word(6))})
Bad == Marker("and", {Clause("python", "==", Version(2, <<3, 11>>))})

Item(n, extras, ms) == [name |-> n, extras |-> extras, markers |-> ms, resolution |-> <<>>]

ItemSets == {{}, {Item(a, {}, <<>>)}, {Item(a, {x}, <<Holds>>)}, {Item(b, {}, <<>>)},
             {Item(b, {}, <<HoldsNot, Bad>>)}, {Item(b, {}, <<Bad>>)},
             {Item(b, {}, <<>>), Item(a, {x}, <<>>)}}

DevItemSets == {{}, {Item(b, {}, <<>>)}, {Item(b, {}, <<Bad>>)}, {Item(a, {x}, <<>>)}}

Package(n, v, deps, dev, opt, ms, res) ==
    [name |-> n, version |-> v, deps |-> deps, dev |-> dev, opt |-> [e \in {x} |-> opt],
     local |-> n = app, optional |-> FALSE, group |-> "none",
     markers |-> ms, resolution |-> res]

\* Two variants of b for different platforms, of which one or none applies.
VariantsOfB(deps, res) ==
    {Package(b, "1", deps, {}, {}, <<>>, <<HoldsNot, res>>),
     Package(b, "2", {}, {}, {}, <<>>, <<HoldsNot>>)}

Directory(kind, name, toml, packages) ==
    [files |-> {kind}, pyproject |-> IF name = NoName THEN "absent" ELSE "no_dependencies",
     name |-> name, toml |-> toml, packages |-> packages]

UvDirectories ==
    {Directory("uv-lock", name, "ok",
        {Package(app, "0", deps, dev, {}, <<>>, <<>>),
         Package(a, "1", adeps, {}, opt, <<>>, <<>>)} \cup VariantsOfB(bdeps, Holds)) :
        name \in {app, NoName}, deps \in ItemSets, dev \in DevItemSets, adeps \in ItemSets,
        opt \in {{}, {Item(b, {}, <<>>)}}, bdeps \in {{}, {Item(a, {x}, <<>>)}}}

\* Other lock kinds, groups, and what cannot be read.
OtherPackages(group, ms) ==
    {Package(a, "1", {}, {}, {}, ms, <<>>),
     [Package(b, "2", {}, {}, {}, <<>>, <<>>) EXCEPT !.group = group,
                                                     !.optional = (group = "main")]}

OtherDirectories ==
    {Directory("poetry-lock", app, toml, OtherPackages(group, ms)) :
        toml \in {"ok", "malformed", "no_packages", "not_a_list"},
        group \in {"none", "main", "dev", "bad"}, ms \in {<<>>, <<HoldsNot>>, <<Holds, Bad>>}}

MCDirectories == UvDirectories \cup OtherDirectories

=============================================================================
