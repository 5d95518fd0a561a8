----------------------------- MODULE SensorScan -----------------------------
(***************************************************************************)
(* What the two scanners report and how the adapters of ssp/adapters read  *)
(* it: the findings of a Semgrep payload with the check that it covered    *)
(* every file, the findings of a pip-audit payload, the ordinals that tell *)
(* equal findings apart, and the SSP delta of two scans.                   *)
(*                                                                         *)
(* A SAST group stands for (rule, file, qualified name, normalized text),  *)
(* an SCA group for (package, installed version, advisory).  A path is the *)
(* sequence of its parts, relative to the repository.                      *)
(***************************************************************************)
EXTENDS Integers, Sequences, FiniteSets, SequencesExt

CONSTANTS
    SastGroups, ScaGroups,
    Rule,       \* the rule of a SAST group
    File,       \* the path of a SAST group
    Level,      \* Semgrep's severity of a SAST group
    Vuln,       \* [score, named] of an SCA group: CVSS in tenths or -1, and a word or "none"
    Files,      \* the Python files of the repository
    Target      \* the scanned directory, <<>> for the repository itself

ASSUME ScanConstants ==
    /\ IsFiniteSet(Files) /\ Files \subseteq Seq(STRING) /\ Target \in Seq(STRING)
    /\ SastGroups \cap ScaGroups = {}

Sensors == {"semgrep", "pip-audit"}
Severities == {"critical", "high", "medium", "low", "info"}

-----------------------------------------------------------------------------
(* Severities                                                              *)

\* _severity_from_cvss: a score of zero is not a clean bill.
SeverityFromCvss(score) ==
    IF score >= 90 THEN "critical"
    ELSE IF score >= 70 THEN "high"
    ELSE IF score >= 40 THEN "medium"
    ELSE IF score > 0 THEN "low"
    ELSE "medium"

\* _named_severity, with the default of _severity_for_vuln
NamedSeverity(name) == IF name \in Severities THEN name ELSE "medium"

\* _severity_for_vuln: a score that can be read (-1: none) decides.
SeverityForVuln(v) == IF v.score >= 0 THEN SeverityFromCvss(v.score) ELSE NamedSeverity(v.named)

\* _SEVERITY_MAP
SemgrepSeverity(level) ==
    IF level = "ERROR" THEN "critical" ELSE IF level = "WARNING" THEN "medium" ELSE "info"

Severity(g) == IF g \in SastGroups THEN SemgrepSeverity(Level[g]) ELSE SeverityForVuln(Vuln[g])

-----------------------------------------------------------------------------
(* Semgrep: paths and coverage                                             *)

Conventions == {"absolute", "repo", "target"}

\* How Semgrep writes the path of a scanned file.
PathText(f, convention) ==
    [absolute |-> convention = "absolute",
     path |-> IF convention = "target" THEN SubSeq(f, Len(Target) + 1, Len(f)) ELSE f]

\* _source_paths, for a directory: a relative path that starts with the
\* target's own path is taken to be relative to the repository.
SourcePaths(text) ==
    IF text.absolute \/ (Target # <<>> /\ IsPrefix(Target, text.path))
    THEN text.path
    ELSE Target \o text.path

\* _expected_python_paths
ExpectedPythonPaths == {f \in Files : IsPrefix(Target, f)}

\* Mutant: a file that was not scanned goes unnoticed when another one was.
CoverageErrorAny(p) ==
    /\ ExpectedPythonPaths # {}
    /\ ~p.listed \/ {SourcePaths(t) : t \in p.scanned} \cap ExpectedPythonPaths = {}

\* _scanned_path_coverage_error
CoverageError(p) ==
    /\ ExpectedPythonPaths # {}
    /\ ~p.listed \/ ~(ExpectedPythonPaths \subseteq {SourcePaths(t) : t \in p.scanned})

-----------------------------------------------------------------------------
(* Scan results.  `hash` is the provenance the adapter records, `used` what *)
(* the scanner really read (it is in no file), -1 when the adapter did not *)
(* see all that the scanner found.                                         *)

Complete(findings, hash, used) ==
    [status |-> "complete", findings |-> findings, hash |-> hash, used |-> used]

ErrorResult(hash, used) ==
    [status |-> "error", findings |-> <<>>, hash |-> hash, used |-> used]

\* _finding_from_result: the rule, the qualified name and the matched text are
\* the group; a span is its starting line, 0 for none.
FindingFromResult(r) == [group |-> r.group, path |-> SourcePaths(r.text), span |-> r.span]

\* The order of Python's sorted, which is stable: by span, then by position.
Before(fs, j, i) == fs[j].span < fs[i].span \/ (fs[j].span = fs[i].span /\ j < i)

\* sorted with _finding_sort_key, which sorts by span within a file.
Sorted(fs) ==
    [k \in DOMAIN fs |->
        fs[CHOOSE i \in DOMAIN fs : Cardinality({j \in DOMAIN fs : Before(fs, j, i)}) = k - 1]]

\* _result_items: without a list of results there are none, and of a list only
\* the mappings count.
ResultItems(p) == IF p.list THEN p.mappings ELSE <<>>

\* SemgrepAdapter.from_json
SemgrepFromJson(p, hash, used) ==
    IF p.errors \/ CoverageError(p)
    THEN ErrorResult(hash, used)
    ELSE LET items == ResultItems(p)
         IN  Complete(Sorted([k \in DOMAIN items |-> FindingFromResult(items[k])]), hash, used)

\* _findings_from_package: one for each vulnerability.
FindingsFromPackages(groups) ==
    [k \in DOMAIN groups |-> [group |-> groups[k], path |-> <<>>, span |-> 0]]

\* PipAuditAdapter.from_json: packages without a list of vulnerabilities and
\* payloads without a list of packages contribute nothing.
PipAuditFromJson(groups, malformed, hash, used) ==
    IF malformed THEN ErrorResult(hash, used)
    ELSE Complete(FindingsFromPackages(groups), hash, used)

SourceKinds == {"requirements", "pylock", "uv-lock", "pdm-lock", "poetry-lock", "pyproject",
                "fallback", "error"}

\* _command_for_source raises DependencySourceError; `locked` is
\* _supports_locked_project_scan of the detected version.
CommandRaises(kind, locked, lockBad) ==
    \/ kind = "error"
    \/ kind = "pylock" /\ ~locked
    \/ kind \in {"uv-lock", "pdm-lock", "poetry-lock", "pyproject"} /\ lockBad

-----------------------------------------------------------------------------
(* ssp/delta.py                                                            *)

SameGroup(f, h) == f.group = h.group /\ f.path = h.path

\* Where a SAST finding stands among the findings `kept` of its group.
Ordinal(fs, kept, i) == Cardinality({j \in kept : SameGroup(fs[j], fs[i]) /\ Before(fs, j, i)})

SastFinding(fs, kept, i) ==
    [group |-> fs[i].group, path |-> fs[i].path, span |-> fs[i].span,
     ordinal |-> Ordinal(fs, kept, i)]

\* The positions of the SAST findings.
Sast(fs) == {i \in DOMAIN fs : fs[i].group \in SastGroups}

\* The first of equal (group, span); findings without a span are never equal.
Unique(fs) ==
    {i \in Sast(fs) : fs[i].span = 0 \/
        ~\E j \in Sast(fs) : j < i /\ SameGroup(fs[j], fs[i]) /\ fs[j].span = fs[i].span}

\* Mutant: equal spans are not recognised as one finding.
AssignSastOrdinalsNoDedup(fs) == {SastFinding(fs, Sast(fs), i) : i \in Sast(fs)}

\* assign_sast_ordinals: the unique ones, ranked in their group by span and
\* position.
AssignSastOrdinals(fs) == {SastFinding(fs, Unique(fs), i) : i \in Unique(fs)}

\* An SCA finding has no position and no ordinal: equal ones are one.
ScaFindings(fs) ==
    {[group |-> fs[i].group, path |-> <<>>, span |-> 0, ordinal |-> 0] :
        i \in {j \in DOMAIN fs : fs[j].group \in ScaGroups}}

\* _fingerprinted_findings
FingerprintedFindings(fs) ==
    AssignSastOrdinals(fs) \cup ScaFindings(fs)

\* sast_fingerprint, sca_fingerprint and the identity components: everything
\* but the span.
Fingerprint(f) == <<f.group, f.path, f.ordinal>>
Fingerprints(F) == {Fingerprint(f) : f \in F}

NotIn(F, G) == {f \in F : Fingerprint(f) \notin Fingerprints(G)}

\* verdict_for_delta and the status of _per_sensor_delta
StatusForAdded(added) == IF \E f \in added : Severity(f.group) # "info" THEN "fail" ELSE "pass"

\* compute_delta; the sensors of the two scans are the same.
ComputeDelta(b, c) ==
    IF b.status = "error" \/ c.status = "error"
    THEN [status |-> "unknown", added |-> {}, removed |-> {}]
    ELSE LET B == FingerprintedFindings(b.findings)
             C == FingerprintedFindings(c.findings)
         IN  [status |-> StatusForAdded(NotIn(C, B)), added |-> NotIn(C, B),
              removed |-> NotIn(B, C)]

\* _exit_code of the ssp command
SspExitCode(status) == IF status = "fail" THEN 1 ELSE IF status = "unknown" THEN 3 ELSE 0

=============================================================================
