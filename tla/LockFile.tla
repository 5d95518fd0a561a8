------------------------------- MODULE LockFile -------------------------------
(***************************************************************************)
(* What ssp/adapters/dependency_sources.py reads from a scan directory:    *)
(* the dependency file it selects, the packages of a lock file, their      *)
(* markers and the edges between them.  Operators only; the closure over   *)
(* the edges is in DependencySources.                                      *)
(*                                                                         *)
(* A scan directory d is a record                                          *)
(*   files      the requirements and lock files that exist                 *)
(*   pyproject  "absent" or what pyproject.toml holds                      *)
(*   name       [project].name, or NoName                                  *)
(*   toml       "ok", "malformed", "no_packages" or "not_a_list": the lock *)
(*   packages   the package tables of the lock                             *)
(* Names and extras are the normalised ones: two spellings of a name are   *)
(* one element of Names.                                                   *)
(***************************************************************************)
EXTENDS Integers, Sequences, FiniteSets

CONSTANTS
    Names,          \* normalised package names
    Extras,         \* normalised extras
    NoName,         \* a project without a name
    Environment     \* marker variable |-> its value, _marker_environment()

ASSUME NoNameIsNoPackage == NoName \notin Names

-----------------------------------------------------------------------------
(* Markers                                                                 *)
(*                                                                         *)
(* A value is a text, given by its rank in the order of texts, and what    *)
(* the version pattern finds in it: [text, release, phase, wild, parts],   *)
(* release = <<>> for a text that is no version, wild for "N.N.*", parts   *)
(* the texts it contains.                                                  *)

Final == <<1, 0, 0>>            \* the phase of a version without a suffix

\* Python's order on tuples of one length.
LexLess(s, t) ==
    \E i \in DOMAIN s : s[i] < t[i] /\ \A j \in 1..(i - 1) : s[j] = t[j]

Padded(s, n) == [i \in 1..n |-> IF i \in DOMAIN s THEN s[i] ELSE 0]

\* _compare_marker_versions(left, right) < 0
Less(l, r) ==
    LET n == IF Len(l.release) > Len(r.release) THEN Len(l.release) ELSE Len(r.release)
        pl == Padded(l.release, n)
        pr == Padded(r.release, n)
    IN  IF l.release = <<>> \/ r.release = <<>> THEN l.text < r.text
        ELSE LexLess(pl, pr) \/ (pl = pr /\ LexLess(l.phase, r.phase))

\* _version_wildcard_matches: the prefix itself, or the prefix and a dot: what
\* follows is more of the release, or ".post1" or ".dev1"; "rc1" has no dot.
WildcardMatches(p, v) ==
    /\ p.wild
    /\ Len(p.release) <= Len(v.release)
    /\ SubSeq(v.release, 1, Len(p.release)) = p.release
    /\ Len(v.release) > Len(p.release) \/ v.phase[1] # 0

\* _marker_values_equal
ValuesEqual(l, r) == l.text = r.text \/ WildcardMatches(l, r) \/ WildcardMatches(r, l)

\* _compatible_release_wildcard: "3.11" gives "3.*", "3.11.2" gives "3.11.*".
CompatibleWildcard(v) ==
    [v EXCEPT !.wild = TRUE, !.phase = Final, !.text = -1,
              !.release = SubSeq(@, 1, IF Len(@) <= 2 THEN 1 ELSE Len(@) - 1)]

\* _compare_marker_values, and ~= as _normalize_pep508_marker_syntax rewrites it.
Compare(l, op, r) ==
    CASE op = "==" -> ValuesEqual(l, r)
      [] op = "!=" -> ~ValuesEqual(l, r)
      [] op = "in" -> l.text \in r.parts
      [] op = "not in" -> l.text \notin r.parts
      [] op = "<" -> Less(l, r)
      [] op = "<=" -> ~Less(r, l)
      [] op = ">" -> Less(r, l)
      [] op = ">=" -> ~Less(l, r)
      [] op = "~=" -> ~Less(l, r) /\ ValuesEqual(l, CompatibleWildcard(r))

\* _evaluate_marker: a marker joins comparisons [var, op, value]; all of them
\* are evaluated, and one with an unknown variable is an error.
EvaluateMarker(m) ==
    LET holds(c) == Compare(Environment[c.var], c.op, c.value)
    IN  IF \E c \in m.clauses : c.var \notin DOMAIN Environment THEN "bad"
        ELSE IF \/ m.junction = "and" /\ \A c \in m.clauses : holds(c)
                \/ m.junction = "or" /\ \E c \in m.clauses : holds(c)
        THEN "true" ELSE "false"

First(S) == CHOOSE i \in S : \A j \in S : i <= j

\* _marker_allows_current_environment: all markers must hold, and one of the
\* resolution markers if there are any; evaluation stops when it is decided.
MarkerAllows(p) ==
    LET stops == {i \in DOMAIN p.markers : EvaluateMarker(p.markers[i]) # "true"}
        hits == {i \in DOMAIN p.resolution : EvaluateMarker(p.resolution[i]) # "false"}
    IN  IF stops # {} THEN EvaluateMarker(p.markers[First(stops)])
        ELSE IF p.resolution = <<>> THEN "true"
        ELSE IF hits # {} THEN EvaluateMarker(p.resolution[First(hits)]) ELSE "false"

-----------------------------------------------------------------------------
(* Edges                                                                   *)
(*                                                                         *)
(* A package is [name, version, deps, dev, opt, local, optional, group,    *)
(* markers, resolution]; deps and dev are sets of items [name, extras,     *)
(* markers, resolution], opt maps extras to such sets, version is "none"   *)
(* when the table lacks a name or a version.                               *)

\* _DependencyEdge
Edges == [name : Names, extras : SUBSET Extras]

\* _dependency_edges_from_object, _dependency_edge_from_item: an item whose
\* marker does not hold is no edge, and one with a bad marker is an error.
ItemsBad(items) == \E it \in items : MarkerAllows(it) = "bad"
EdgesOf(items) ==
    {[name |-> it.name, extras |-> it.extras] :
        it \in {x \in items : MarkerAllows(x) = "true"}}

\* _optional_dependency_edges
OptionalItems(p, extras) == UNION {p.opt[x] : x \in DOMAIN p.opt \cap extras}

Variants(d, n) == {p \in d.packages : p.name = n}

\* _active_lock_package_variants
Active(d, n) == {p \in Variants(d, n) : MarkerAllows(p) = "true"}
VariantsBad(d, n) == \E p \in Variants(d, n) : MarkerAllows(p) = "bad"

\* What one turn of the loop of _dependency_closure reads for edge e.
ItemsFor(p, e) == p.deps \cup OptionalItems(p, e.extras)
EdgeBad(d, e) ==
    VariantsBad(d, e.name) \/ \E p \in Active(d, e.name) : ItemsBad(ItemsFor(p, e))
Successors(d, e) == UNION {EdgesOf(ItemsFor(p, e)) : p \in Active(d, e.name)}

\* How often that turn pushes edge f: once for each variant and list naming it.
Copies(d, e, f) ==
    Cardinality({p \in Active(d, e.name) : f \in EdgesOf(p.deps)})
    + Cardinality({p \in Active(d, e.name) :
                      f \in EdgesOf(OptionalItems(p, e.extras))})

-----------------------------------------------------------------------------
(* The dependency file and the lock                                        *)

LockKinds == {"uv-lock", "pdm-lock", "poetry-lock"}

\* _discover_pyproject
PyprojectKind(d) ==
    CASE d.pyproject \in {"absent", "no_table", "dynamic", "no_dependencies"} -> "fallback"
      [] d.pyproject \in {"malformed", "bad_dependencies"} -> "error"
      [] d.pyproject = "static" -> "pyproject"

\* discover_dependency_source
SourceKind(d) ==
    CASE "requirements" \in d.files -> "requirements"
      [] "requirements" \notin d.files /\ "pylock" \in d.files -> "pylock"
      [] d.files \cap {"requirements", "pylock"} = {} ->
            IF "uv-lock" \in d.files THEN "uv-lock"
            ELSE IF "pdm-lock" \in d.files THEN "pdm-lock"
            ELSE IF "poetry-lock" \in d.files THEN "poetry-lock"
            ELSE PyprojectKind(d)

\* _project_name
ProjectName(d) ==
    IF d.pyproject \in {"absent", "malformed", "no_table"} THEN NoName ELSE d.name

\* The packages whose own tables name the roots.
RootPackages(d) ==
    {p \in d.packages : ProjectName(d) = NoName \/ p.name = ProjectName(d)}

DefaultItems(d) == UNION {p.deps : p \in RootPackages(d)}
NonDefaultItems(d) ==
    UNION {p.dev \cup OptionalItems(p, DOMAIN p.opt) : p \in RootPackages(d)}

\* _is_selected_dependency_group: "none" when the table names no group.
SelectedGroup(p) == p.group \in {"none", "default", "main"}

\* The early continues of the loop of _pinned_lines_from_lock, in their order
\* up to the group; excluded is _excluded_lock_package_names.
Passed(d, p, excluded) ==
    \/ p.name = ProjectName(d)
    \/ p.local
    \/ p.name \in excluded
    \/ p.optional

\* The loop raises on a package without a name or version, and on an invalid
\* group or marker of a package that it has not passed over.
PinsBad(d, excluded) ==
    \E p \in d.packages :
        \/ p.version = "none"
        \/ /\ ~Passed(d, p, excluded)
           /\ p.group = "bad" \/ (SelectedGroup(p) /\ MarkerAllows(p) = "bad")

\* _pinned_lines_from_lock
Pins(d, excluded) ==
    {<<p.name, p.version>> :
        p \in {q \in d.packages : /\ ~Passed(d, q, excluded)
                                  /\ SelectedGroup(q)
                                  /\ MarkerAllows(q) = "true"}}

-----------------------------------------------------------------------------
(* What the pins should be                                                 *)
(*                                                                         *)
(* A package of uv.lock is left out by where it is reachable from, and     *)
(* reachability is the least fixed point: an edge is reachable when it is  *)
(* in every set that holds the roots and is closed under the edges of its  *)
(* members.                                                                *)

ClosedSets(d, roots) ==
    LET next == [e \in Edges |-> Successors(d, e)]
    IN  {S \in SUBSET Edges : roots \subseteq S /\ \A e \in S : next[e] \subseteq S}

Reachable(d, roots) ==
    LET closed == ClosedSets(d, roots) IN {e \in Edges : \A S \in closed : e \in S}

\* The names the closure includes: those with a variant that applies here.
ReachableNames(d, roots) ==
    {e.name : e \in {x \in Reachable(d, roots) : Active(d, x.name) # {}}}

AllNames(d) == {p.name : p \in d.packages}

\* The packages that the default installation does not need.
Unneeded(d) ==
    IF SourceKind(d) # "uv-lock" THEN {}
    ELSE LET default == ReachableNames(d, EdgesOf(DefaultItems(d)))
         IN  IF ProjectName(d) # NoName
             THEN (AllNames(d) \ default) \ {ProjectName(d)}
             ELSE ReachableNames(d, EdgesOf(NonDefaultItems(d))) \ default

\* Something malformed was met on the way.
Malformed(d) ==
    \/ d.toml \in {"malformed", "not_a_list"}
    \/ /\ d.toml = "ok"
       /\ \/ PinsBad(d, Unneeded(d))
          \/ /\ SourceKind(d) = "uv-lock"
             /\ \/ ItemsBad(DefaultItems(d) \cup NonDefaultItems(d))
                \/ \E e \in Reachable(d, EdgesOf(DefaultItems(d))) : EdgeBad(d, e)
                \/ /\ ProjectName(d) = NoName
                   /\ \E e \in Reachable(d, EdgesOf(NonDefaultItems(d))) : EdgeBad(d, e)

Waiting == [status |-> "waiting", pins |-> {}]
Failed == [status |-> "error", pins |-> {}]
Pinned(S) == [status |-> "pinned", pins |-> S]

Promise(d) ==
    IF Malformed(d) THEN Failed
    ELSE Pinned(IF d.toml = "ok" THEN Pins(d, Unneeded(d)) ELSE {})

=============================================================================
