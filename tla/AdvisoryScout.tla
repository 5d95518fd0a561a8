--------------------------- MODULE AdvisoryScout ---------------------------
(***************************************************************************)
(* The advisory side of `check`: recorded LLM scout payloads, the ordinals *)
(* they are given, the ensemble of several payloads, their reprojection    *)
(* onto the baseline code and the mute ledger.  A name is the sequence of  *)
(* its dotted parts; an anchor is a finding without its severity.          *)
(***************************************************************************)
EXTENDS Integers, Sequences, FiniteSets, SequencesExt

CodexSecurity == "codex-security"
LLMEnsemble == "llm-ensemble"
GuardedClasses == {"missing-authz"}   \* the keys of _ABSENCE_GUARD_DECORATORS
SeverityRank == [info |-> 0, low |-> 1, medium |-> 2, high |-> 3, critical |-> 4]

\* A list of items as the schema of a payload admits it.
FindingList(fs) ==
    /\ fs \in Seq(ToSet(fs))
    /\ \A i \in DOMAIN fs : fs[i].ordinal \in Int /\ fs[i].severity \in DOMAIN SeverityRank

-----------------------------------------------------------------------------
(* codex_security.py: an item of a payload has an ordinal, or -1 for none. *)

GroupOf(f) == <<f.class, f.module, f.fqn, f.kind, f.expected>>

\* _reserve_explicit_ordinals raises.
DuplicateOrdinals(fs) ==
    \E i, j \in DOMAIN fs : i # j /\ fs[i].ordinal >= 0
                               /\ fs[i].ordinal = fs[j].ordinal /\ GroupOf(fs[i]) = GroupOf(fs[j])

\* Mutant: the ordinals given explicitly further down are not reserved.
NextFreeOrdinalUnreserved(start, reserved) == start

\* _next_free_ordinal
NextFreeOrdinal(start, reserved) ==
    CHOOSE n \in start..(start + Cardinality(reserved)) :
        n \notin reserved /\ \A m \in start..(n - 1) : m \in reserved

\* The items before the i-th of its group that had no ordinal either.
ImplicitBefore(fs, i) ==
    {j \in 1..(i - 1) : GroupOf(fs[j]) = GroupOf(fs[i]) /\ fs[j].ordinal < 0}

\* next_ordinal_by_group when the loop comes to item i, the items before it
\* having the ordinals `given`.
NextOrdinal(fs, given, i) ==
    LET B == ImplicitBefore(fs, i)
    IN  IF B = {} THEN 0 ELSE given[Max(B)] + 1

\* seen_ordinals_by_group at the same point: _reserve_explicit_ordinals has
\* put in every explicit ordinal of the payload.
SeenOrdinals(fs, given, i) ==
    {fs[j].ordinal : j \in {m \in DOMAIN fs : GroupOf(fs[m]) = GroupOf(fs[i])
                                                 /\ fs[m].ordinal >= 0}}
    \cup {given[j] : j \in ImplicitBefore(fs, i)}

\* The ordinal that item i gets.
OrdinalOf(fs, given, i) ==
    IF fs[i].ordinal >= 0 THEN fs[i].ordinal
    ELSE NextFreeOrdinal(NextOrdinal(fs, given, i), SeenOrdinals(fs, given, i))

\* The loop over the payload.
Ordinals(fs) ==
    LET given[i \in DOMAIN fs] == OrdinalOf(fs, given, i)
    IN  given

\* RawLLMFinding.model_validate
RawFinding(f, n) ==
    [class |-> f.class, module |-> f.module, fqn |-> f.fqn, kind |-> f.kind,
     expected |-> f.expected, ordinal |-> n, severity |-> f.severity]

\* _raw_findings
RawFindings(fs) ==
    LET given == Ordinals(fs)
    IN  [i \in DOMAIN fs |-> RawFinding(fs[i], given[i])]

Anchor(f) == <<f.class, f.module, f.fqn, f.kind, f.expected, f.ordinal>>

\* The validator of SensorState refuses two findings of one canonical id.
DuplicateIds(raw) == \E i, j \in DOMAIN raw : i # j /\ Anchor(raw[i]) = Anchor(raw[j])

\* _parse_payload or the validator raises.
PayloadRaises(p) ==
    \/ ~p.valid
    \/ /\ p.status = "complete"
       /\ DuplicateOrdinals(p.findings) \/ DuplicateIds(RawFindings(p.findings))

\* sensor_state_from_codex_security_json
ScoutState(p) ==
    [status |-> p.status,
     findings |-> IF p.status = "complete" THEN ToSet(RawFindings(p.findings)) ELSE {}]

-----------------------------------------------------------------------------
(* aggregate.py                                                            *)

\* _max_severity_finding of one group
Strongest(F) == CHOOSE f \in F : \A h \in F : SeverityRank[f.severity] >= SeverityRank[h.severity]

\* aggregate_advisory_states
AggregateStates(states) ==
    LET complete == {k \in DOMAIN states : states[k].status = "complete"}
        found == UNION {states[k].findings : k \in complete}
    IN  [status |-> IF complete # {} THEN "complete" ELSE "error",
         findings |-> {Strongest({h \in found : Anchor(h) = Anchor(f)}) : f \in found}]

\* _advisory_runtime
AdvisoryRuntime(payloads) ==
    LET states == [k \in DOMAIN payloads |-> ScoutState(payloads[k])]
    IN  IF Len(payloads) = 1 THEN [sensor |-> CodexSecurity, state |-> states[1]]
        ELSE [sensor |-> LLMEnsemble, state |-> AggregateStates(states)]

-----------------------------------------------------------------------------
(* advisory.py.  The baseline's API surface is a set of [fqn, kind,        *)
(* guarded]; a rename is [new, old], module names.                         *)

LastParts(s, n) == SubSeq(s, Len(s) - n + 1, Len(s))

\* _remap_renamed_fqn: the longest common number of trailing module parts
\* under which the name lies; <<>> if there is none.
RemapRenamedFqn(fqn, new, old) ==
    LET fits == {n \in 1..Len(new) : n <= Len(old) /\ IsPrefix(LastParts(new, n), fqn)}
        n == CHOOSE m \in fits : \A k \in fits : k <= m
    IN  IF fits = {} THEN <<>> ELSE LastParts(old, n) \o SubSeq(fqn, n + 1, Len(fqn))

\* _resolve_baseline_sites
BaselineSites(f, api, renames) ==
    LET Named(q) == {e \in api : e.fqn = q}
        moved == {r \in renames : r.new = f.module}
    IN  IF Named(f.fqn) # {} \/ moved = {} THEN Named(f.fqn)
        ELSE LET r == CHOOSE x \in moved : TRUE
             IN  Named(RemapRenamedFqn(f.fqn, r.new, r.old))

\* _has_guard_decorator_in_scope, _enclosing_entries
GuardInScope(sites, api) ==
    \/ \E e \in sites : e.guarded
    \/ \E e \in sites, c \in api :
          c.kind = "class" /\ c.guarded /\ IsStrictPrefix(c.fqn, e.fqn)

\* _already_in_baseline
AlreadyInBaseline(f, api, renames) ==
    LET sites == BaselineSites(f, api, renames)
    IN  /\ f.kind = "absence"
        /\ f.class \in GuardedClasses
        /\ sites # {}
        /\ ~GuardInScope(sites, api)

\* compute_advisory_reprojection, the findings that are not new
PreExisting(found, api, renames) == {f \in found : AlreadyInBaseline(f, api, renames)}

\* load_advisory_mutes refuses a second mute of one canonical id.
MutesRejected(mutes) ==
    \E m, n \in mutes : m # n /\ m.sensor = n.sensor /\ m.anchor = n.anchor

\* AdvisoryMute.is_active: a mute [sensor, anchor, expires] counts on its last day.
ActiveMutes(mutes, asOf) == {m \in mutes : m.expires >= asOf}

\* _build_advisory_detail
AdvisoryDetail(payloads, api, renames, mutes, asOf) ==
    LET r == AdvisoryRuntime(payloads)
        found == IF r.state.status = "complete" THEN r.state.findings ELSE {}
        old == PreExisting(found, api, renames)
        Muted(f) == \E m \in ActiveMutes(mutes, asOf) : m.sensor = r.sensor /\ m.anchor = Anchor(f)
    IN  [sensor |-> r.sensor, status |-> r.state.status,
         surfaced |-> {f \in found \ old : ~Muted(f)},
         pre_existing |-> {f \in old : ~Muted(f)},
         muted |-> {f \in found : Muted(f)}]

=============================================================================
