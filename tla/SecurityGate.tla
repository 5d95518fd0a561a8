---------------------------- MODULE SecurityGate ----------------------------
(***************************************************************************)
(* A CI job with security sensors: `ssp scan` runs each scanner on the two *)
(* trees, the scan results are recorded as SensorState files, and `check`  *)
(* compares the files under the target's policy and joins the verdict on   *)
(* the code.  Rulesets, advisory databases and tools change under the job, *)
(* scanners fail, and the gate is run again on a later day.                *)
(***************************************************************************)
EXTENDS SensorScan, AdvisoryScout, TLC

CONSTANTS
    Detects,    \* the SAST groups each ruleset version finds
    Known,      \* the SCA groups each advisory database version knows
    Worlds,     \* the trees and the way they are scanned
    Requests,   \* the command lines of `check`, each with its target's policy
    MaxFaults,  \* scanner failures per behaviour
    Days        \* the days the job is run on

\* The matches of a tree lie in scanned files and have a position, and what is
\* recorded can be compared and counted.
ASSUME GateConstants ==
    /\ MaxFaults \in Nat
    /\ Days \in Nat \ {0}
    /\ \A v \in 1..2 : Detects[v] \subseteq SastGroups /\ Known[v] \subseteq ScaGroups
    /\ \A w \in Worlds :
          /\ w.sensors \subseteq Sensors
          /\ w.convention \in Conventions
          /\ \A side \in {"baseline", "candidate"} :
                /\ IsFiniteSet(w.tree[side]) /\ IsFiniteSet(w.deps[side])
                /\ w.tree[side] \subseteq [group : {g \in SastGroups : File[g] \in ExpectedPythonPaths},
                                          span : Nat \ {0}]
                /\ w.deps[side] \subseteq ScaGroups
    /\ \A q \in Requests :
          /\ q.code \in {"pass", "repair", "fail", "unknown"}
          /\ q.asOf \in Int /\ q.policy.maxCount \in Int
          /\ IsFiniteSet(q.policy.suppressions)
          /\ \A x \in q.policy.suppressions : x.expires \in Int
          /\ \A x \in q.mutes : x.expires \in Int
          /\ q.payloads \in Seq(ToSet(q.payloads))
          /\ \A k \in DOMAIN q.payloads : FindingList(q.payloads[k].findings)

VARIABLES
    world,      \* the world of this behaviour
    env,        \* [ruleset, db, tool]: the versions on disk now
    faults,     \* scanner failures so far
    scan,       \* the scan in progress, or NoScan
    outputs,    \* <<side, sensor>> :> scan result
    ssp,        \* sensor :> [exit, delta] of its `ssp scan`
    today,
    gate        \* the last `check`, or NoGate

vars == <<world, env, faults, scan, outputs, ssp, today, gate>>

Sides == {"baseline", "candidate"}
NoScan == [running |-> FALSE]
NoGate == [ran |-> FALSE]
NoDelta == [status |-> "none", added |-> {}, removed |-> {}]

-----------------------------------------------------------------------------
(* `ssp scan`                                                              *)

SemgrepOutcomes ==
    {[kind |-> k, skip |-> <<>>] :
        k \in {"ok", "missing", "crashed", "garbage", "errors", "unlisted",
               "malformed", "denied", "nonobject", "nolist"}}
    \cup [kind : {"partial", "unmapped"}, skip : ExpectedPythonPaths]

PipAuditOutcomes ==
    {[kind |-> k, skip |-> <<>>] :
        k \in {"ok", "missing", "crashed", "garbage", "malformed", "denied", "nolist"}}

Outcomes(sensor) == IF sensor = "semgrep" THEN SemgrepOutcomes ELSE PipAuditOutcomes

\* What Semgrep prints: any order, and the same match more than once.
Ordered(s) ==
    IF world.order = "reversed" THEN Reverse(s) ELSE s \o s

\* The file `skip` is not scanned, or its matches are missing although it was:
\* they are no mappings, or its errors are in no list.
SemgrepPayload(side, outcome) ==
    LET scanned == IF outcome.kind = "unmapped" THEN ExpectedPythonPaths
                   ELSE ExpectedPythonPaths \ {outcome.skip}
        matches == {o \in world.tree[side] :
                       /\ o.group \in Detects[env.ruleset]
                       /\ File[o.group] \in ExpectedPythonPaths \ {outcome.skip}}
    IN  [errors |-> outcome.kind = "errors",
         listed |-> outcome.kind # "unlisted",
         list |-> outcome.kind # "nolist",
         scanned |-> {PathText(f, world.convention) : f \in scanned},
         mappings |-> Ordered(SetToSeq({[group |-> o.group, span |-> o.span,
                                        text |-> PathText(File[o.group], world.convention)] :
                                           o \in matches}))]

\* The version the scanner used, if the adapter saw all it found: an answer
\* without the list, or with other things in it, is read without those findings.
AsRead(version, outcome) == IF outcome.kind \in {"nolist", "unmapped"} THEN -1 ELSE version

\* _ruleset_hash, 0 for a ruleset that cannot be read
RulesetHashes == {env.ruleset, 0}

\* SemgrepAdapter.scan, after the ruleset was hashed; from_json reads it once
\* more when that failed.
SemgrepScan(side, outcome, again) ==
    IF outcome.kind \in {"missing", "crashed", "garbage"}
    THEN ErrorResult(scan.hash, env.ruleset)
    ELSE SemgrepFromJson(SemgrepPayload(side, outcome),
                         IF scan.hash # 0 THEN scan.hash ELSE again,
                         AsRead(env.ruleset, outcome))

\* PipAuditAdapter.scan, after the version was detected.
PipAuditScan(side, outcome) ==
    IF \/ CommandRaises(world.kind, world.locked, world.lockBad)
       \/ outcome.kind \in {"missing", "crashed", "garbage"}
    THEN ErrorResult(scan.hash, env.db)
    ELSE PipAuditFromJson(IF outcome.kind = "nolist" THEN <<>>
                          ELSE SetToSeq(world.deps[side] \cap Known[env.db]),
                          outcome.kind = "malformed", scan.hash, AsRead(env.db, outcome))

\* An exception leaves the adapter: an OSError other than a missing program,
\* a match the model refuses, a Semgrep payload that is no object.
ExitOfRaise(sensor, outcome) ==
    IF outcome.kind = "denied" THEN 2
    ELSE IF sensor = "semgrep" /\ outcome.kind = "malformed" THEN 2
    ELSE IF sensor = "semgrep" /\ outcome.kind = "nonobject" THEN 4
    ELSE 0

\* Mutant: the sensor asked for is not looked at.
NextScanAny(sensor, side) ==
    /\ ~scan.running
    /\ ssp[sensor].exit = -1
    /\ <<side, sensor>> \notin DOMAIN outputs
    /\ side = "candidate" => <<"baseline", sensor>> \in DOMAIN outputs

\* _scan_envelope: one sensor, the baseline first.  The job runs Semgrep first.
NextScan(sensor, side) ==
    /\ ~scan.running
    /\ sensor \in world.sensors
    /\ ssp[sensor].exit = -1
    /\ <<side, sensor>> \notin DOMAIN outputs
    /\ side = "candidate" => <<"baseline", sensor>> \in DOMAIN outputs
    /\ \A s \in world.sensors : ssp[s].exit = -1 /\ s # sensor => sensor = "semgrep"

\* The part of scan() before the scanner runs: _ruleset_hash or
\* _detect_version.  The hash of the advisory database is only there when the
\* caller of from_json supplies it.
BeginScan(sensor, side) ==
    /\ NextScan(sensor, side)
    /\ \E hash \in IF sensor = "semgrep" THEN RulesetHashes
                   ELSE {IF world.recorded THEN env.db ELSE 0} :
          scan' = [running |-> TRUE, sensor |-> sensor, side |-> side, hash |-> hash,
                   tool |-> env.tool]
    /\ UNCHANGED <<world, env, faults, outputs, ssp, today, gate>>

\* The version in the result: pip-audit was asked before the scan, Semgrep
\* prints its own in the payload (_semgrep_version); 0 is "unknown".
ToolVersion(r, outcome) ==
    IF scan.sensor = "pip-audit"
    THEN IF outcome.kind = "missing" THEN 0 ELSE scan.tool
    ELSE IF r.status = "error" THEN 0 ELSE env.tool

\* The scanner ran and the adapter returned or raised.
RunScan(outcome) ==
    /\ scan.running
    /\ outcome \in Outcomes(scan.sensor)
    /\ outcome.kind # "ok" => faults < MaxFaults
    /\ faults' = IF outcome.kind = "ok" THEN faults ELSE faults + 1
    /\ \E again \in IF scan.hash = 0 /\ scan.sensor = "semgrep" THEN RulesetHashes ELSE {0} :
       LET r == IF scan.sensor = "semgrep" THEN SemgrepScan(scan.side, outcome, again)
                ELSE PipAuditScan(scan.side, outcome)
           exit == ExitOfRaise(scan.sensor, outcome)
       IN  IF exit # 0
           THEN /\ ssp' = [ssp EXCEPT ![scan.sensor] = [exit |-> exit, delta |-> NoDelta]]
                /\ UNCHANGED outputs
           ELSE /\ outputs' = [k \in DOMAIN outputs \cup {<<scan.side, scan.sensor>>} |->
                                  IF k \in DOMAIN outputs THEN outputs[k]
                                  ELSE [output |-> r, version |-> ToolVersion(r, outcome)]]
                /\ UNCHANGED ssp
    /\ scan' = NoScan
    /\ UNCHANGED <<world, env, today, gate>>

\* _build_envelope, then run_ssp: write_output, 2 for a file that cannot be
\* written, and _exit_code.
SspReport(sensor) ==
    /\ ssp[sensor].exit = -1
    /\ {<<"baseline", sensor>>, <<"candidate", sensor>>} \subseteq DOMAIN outputs
    /\ LET d == ComputeDelta(outputs[<<"baseline", sensor>>].output,
                             outputs[<<"candidate", sensor>>].output)
           Ends(exit) == ssp' = [ssp EXCEPT ![sensor] = [exit |-> exit, delta |-> d]]
       IN  \/ Ends(SspExitCode(d.status)) /\ UNCHANGED faults
           \/ faults < MaxFaults /\ faults' = faults + 1 /\ Ends(2)
    /\ UNCHANGED <<world, env, scan, outputs, today, gate>>

\* One of the ruleset, the advisory database and the tools is replaced.
EnvironmentChanges ==
    /\ \E x \in DOMAIN env : env' = [env EXCEPT ![x] = 2]
    /\ \A x \in DOMAIN env : env[x] = 1
    /\ \E s \in world.sensors : ssp[s].exit = -1
    /\ UNCHANGED <<world, faults, scan, outputs, ssp, today, gate>>

-----------------------------------------------------------------------------
(* The SensorState files and sensor/delta.py                               *)

\* The sensors of a file: those that were scanned, without the ones the
\* baseline was recorded before.
Recorded(side, q) ==
    {s \in Sensors : <<side, s>> \in DOMAIN outputs /\ ~(side = "baseline" /\ s \in q.late)}

\* _sensor_state_from_output of both adapters
SensorFindings(o) == IF o.status = "complete" THEN FingerprintedFindings(o.findings) ELSE {}

\* _drift_fields_for_scanner: Semgrep records a ruleset hash, pip-audit the
\* hash of its database.  The versions of the adapter and of the identity
\* algorithm are the same in one release.
DriftFields(policy, sensor) ==
    [hash |-> IF sensor = "semgrep" THEN policy.sameRuleset ELSE policy.sameDb,
     version |-> policy.sameVersion]

Unknown(drift) ==
    [status |-> "unknown", added |-> {}, suppressed |-> {}, drift |-> drift]

\* Mutant: the date is taken for the day from which the suppression counts.
ActiveSuppressionsFrom(policy, asOf) ==
    {s.id : s \in {x \in policy.suppressions : x.expires <= asOf}}

\* _active_suppression_ids: the last day counts.
ActiveSuppressions(policy, asOf) == {s.id : s \in {x \in policy.suppressions : x.expires >= asOf}}

CanonicalId(sensor, f) == <<sensor, f.group, f.path, f.ordinal>>

\* _effective_fail_severities
FailSeverities(policy) == IF policy.notIn # {} THEN policy.notIn ELSE Severities \ {"info"}

\* _violates_finding_policy
Violates(policy, f) ==
    \/ Severity(f.group) \in FailSeverities(policy)
    \/ f.group \in SastGroups /\ Rule[f.group] \in policy.deny

\* Mutant: a sensor of one side is compared with nothing.
SensorResultOneSided(q, asOf, sensor) ==
    LET F(side) == IF sensor \in Recorded(side, q)
                   THEN SensorFindings(outputs[<<side, sensor>>].output) ELSE {}
        added == NotIn(F("candidate"), F("baseline"))
        active == ActiveSuppressions(q.policy, asOf)
        open == {f \in added : CanonicalId(sensor, f) \notin active}
    IN  [status |-> IF \E f \in open : Violates(q.policy, f) THEN "fail" ELSE "pass",
         added |-> open, suppressed |-> added \ open, drift |-> FALSE]

\* _provenance_drift_reason
Drifted(q, sensor) ==
    LET b == outputs[<<"baseline", sensor>>]
        c == outputs[<<"candidate", sensor>>]
        fields == DriftFields(q.policy, sensor)
    IN  \/ sensor \notin Recorded("baseline", q) \cap Recorded("candidate", q)
        \/ fields.hash /\ b.output.hash # c.output.hash
        \/ fields.version /\ b.version # c.version

\* _per_sensor_delta and the loop of evaluate_security_detail
SensorResult(q, asOf, sensor) ==
    LET b == outputs[<<"baseline", sensor>>]
        c == outputs[<<"candidate", sensor>>]
        added == NotIn(SensorFindings(c.output), SensorFindings(b.output))
        active == ActiveSuppressions(q.policy, asOf)
        open == {f \in added : CanonicalId(sensor, f) \notin active}
    IN  IF Drifted(q, sensor) THEN Unknown(TRUE)
        ELSE IF b.output.status # "complete" \/ c.output.status # "complete"
        THEN Unknown(FALSE)
        ELSE [status |-> IF \E f \in open : Violates(q.policy, f) THEN "fail" ELSE "pass",
              added |-> open, suppressed |-> added \ open, drift |-> FALSE]

\* aggregate_status
AggregateStatus(statuses) ==
    IF "unknown" \in statuses THEN "unknown" ELSE IF "fail" \in statuses THEN "fail" ELSE "pass"

\* _violates_global_count_policy, -1 for a policy without max_count
TooMany(policy, count) == policy.maxCount >= 0 /\ count > policy.maxCount

\* evaluate_security_detail
EvaluateSecurity(q, asOf) ==
    LET ids == Recorded("baseline", q) \cup Recorded("candidate", q)
        results == [s \in ids |-> SensorResult(q, asOf, s)]
        count == Cardinality(UNION {{<<s, f>> : f \in results[s].added} : s \in ids})
        tooMany == TooMany(q.policy, count)
        statuses == {results[s].status : s \in ids} \cup IF tooMany THEN {"fail"} ELSE {}
    IN  [sensors |-> results, tooMany |-> tooMany,
         status |-> AggregateStatus(statuses)]

-----------------------------------------------------------------------------
(* The suite, its SARIF and its exit code                                  *)

SuiteRank == [pass |-> 0, repair |-> 1, fail |-> 2, unknown |-> 3]

\* combine_verdict
CombineVerdict(code, security) ==
    IF SuiteRank[security] > SuiteRank[code] THEN security ELSE code

\* _security_level
SecurityLevel(severity) ==
    IF severity \in {"critical", "high"} THEN "error"
    ELSE IF severity = "medium" THEN "warning" ELSE "note"

\* Mutant: only the findings of a failed sensor are shown.
SecuritySarifFindingsOnly(e) ==
    UNION {{[about |-> s, level |-> SecurityLevel(Severity(f.group))] : f \in e.sensors[s].added} :
              s \in DOMAIN e.sensors}

\* _security_sarif_results: the findings, a note for each unknown sensor, an
\* error for a failed sensor of which nothing visible is shown, and one for
\* the number of findings.
SecuritySarif(e) ==
    LET Findings(s) == {[about |-> s, level |-> SecurityLevel(Severity(f.group))] :
                           f \in e.sensors[s].added}
        Of(s) == IF e.sensors[s].status = "unknown"
                 THEN {[about |-> s, level |-> "note"]}
                 ELSE IF e.sensors[s].status = "fail"
                         /\ ~\E r \in Findings(s) : r.level \in {"error", "warning"}
                 THEN Findings(s) \cup {[about |-> s, level |-> "error"]}
                 ELSE Findings(s)
    IN  (UNION {Of(s) : s \in DOMAIN e.sensors})
            \cup (IF e.tooMany THEN {[about |-> "count", level |-> "error"]} ELSE {})

\* _exit_code_for_suite, and _exit_code_for when there is no suite
SuiteExitCode(final, strict) ==
    IF final = "unknown" THEN 3
    ELSE IF final = "fail" \/ (final = "repair" /\ strict) THEN 1 ELSE 0

\* _reject_llm_findings, _without_advisory_data and _load_sensor_state raise:
\* the file cannot be read, an LLM finding is in it, or a finding of another
\* category under an advisory sensor.
StateRejected(q) == q.foreign \in {"unreadable", "llm_finding", "mixed_finding"}

\* _validate_suppressions: the canonical id is not that of the components.
SuppressionsRejected(policy) == \E s \in policy.suppressions : ~s.valid

\* The checks of run_check that end in a usage error.
UsageError(q) ==
    \/ q.flags = "one"
    \/ q.mutes # {} /\ q.payloads = <<>>
    \/ q.flags = "both" /\ q.format = "gh-actions"
    \/ q.payloads # <<>> /\ q.format \in {"sarif", "gh-actions"}
    \/ q.asOf = -1
    \/ q.flags = "both" /\ (StateRejected(q) \/ SuppressionsRejected(q.policy))
    \/ \E k \in DOMAIN q.payloads : PayloadRaises(q.payloads[k])
    \/ MutesRejected(q.mutes)

\* _as_of_date: 0 stands for no --as-of.
AsOf(q) == IF q.asOf = 0 THEN today ELSE q.asOf

Fits(q) == (q.flags # "none") <=> (world.sensors # {})

\* run_check from the sensor flags on; the verdict on the code is given.
Check(q) ==
    /\ ~scan.running
    /\ \A s \in world.sensors : ssp[s].exit # -1
    /\ Fits(q)
    /\ gate.ran => q = gate.request /\ today > gate.day
    /\ LET e == EvaluateSecurity(q, AsOf(q))
           final == IF q.flags = "both" THEN CombineVerdict(q.code, e.status) ELSE q.code
       IN  gate' = IF UsageError(q)
                   THEN [ran |-> TRUE, request |-> q, day |-> today, exit |-> 2]
                   ELSE [ran |-> TRUE, request |-> q, day |-> today,
                         exit |-> SuiteExitCode(final, q.strict),
                         final |-> final, asOf |-> AsOf(q),
                         security |-> IF q.flags = "both" THEN e
                                      ELSE [sensors |-> <<>>, tooMany |-> FALSE, status |-> "pass"],
                         sarif |-> IF q.flags = "both" THEN SecuritySarif(e) ELSE {},
                         advisory |-> IF q.payloads = <<>> THEN NoGate
                                      ELSE AdvisoryDetail(q.payloads, world.api, world.renames,
                                                          q.mutes, AsOf(q))]
    /\ UNCHANGED <<world, env, faults, scan, outputs, ssp, today>>

NextDay ==
    /\ gate.ran
    /\ today < Days
    /\ today' = today + 1
    /\ UNCHANGED <<world, env, faults, scan, outputs, ssp, gate>>

-----------------------------------------------------------------------------
Init ==
    /\ world \in Worlds
    /\ env = [ruleset |-> 1, db |-> 1, tool |-> 1]
    /\ faults = 0
    /\ scan = NoScan
    /\ outputs = <<>>
    /\ ssp = [s \in Sensors |-> [exit |-> -1, delta |-> NoDelta]]
    /\ today = 1
    /\ gate = NoGate

Done == gate.ran /\ gate.day = Days /\ UNCHANGED vars

Next ==
    \/ \E s \in Sensors, side \in Sides : BeginScan(s, side)
    \/ \E outcome \in SemgrepOutcomes \cup PipAuditOutcomes : RunScan(outcome)
    \/ \E s \in Sensors : SspReport(s)
    \/ EnvironmentChanges
    \/ \E q \in Requests : Check(q)
    \/ NextDay
    \/ Done

Spec == Init /\ [][Next]_vars

-----------------------------------------------------------------------------
(* Properties                                                              *)

TypeOK ==
    /\ world \in Worlds
    /\ env \in [{"ruleset", "db", "tool"} -> 1..2]
    /\ faults \in 0..MaxFaults
    /\ scan.running => scan.sensor \in world.sensors /\ scan.side \in Sides
    /\ DOMAIN outputs \subseteq Sides \X world.sensors
    /\ \A s \in Sensors : ssp[s].exit \in {-1, 0, 1, 2, 3, 4}
    /\ today \in 1..Days
    /\ gate.ran => gate.request \in Requests /\ gate.exit \in 0..3

\* A Semgrep scan the adapter calls complete holds every match of the scanned
\* tree once, under its own path: whatever way Semgrep writes paths, in
\* whatever order and however often it prints a match, and although a path
\* below a directory named like the target can be read in two ways.  When the
\* payload lists its results otherwise than as mappings the adapter drops them
\* and still calls the scan complete: then it holds some of the matches, and
\* nothing else.
CompleteScanIsWhole ==
    \A side \in Sides :
        LET o == outputs[<<side, "semgrep">>].output
            kept == FingerprintedFindings(o.findings)
            held == {<<f.group, f.path, f.span>> : f \in kept}
            Shown(M) == {<<m.group, File[m.group], m.span>> : m \in M}
        IN  <<side, "semgrep">> \in DOMAIN outputs /\ o.status = "complete" =>
                /\ held \subseteq Shown(world.tree[side])
                /\ o.used > 0 =>
                       held = Shown({m \in world.tree[side] : m.group \in Detects[o.used]})
                /\ Cardinality(Fingerprints(kept)) = Cardinality(kept)

\* How many findings of a group the candidate really has more.
Count(side, g) ==
    IF g \in SastGroups THEN Cardinality({o \in world.tree[side] : o.group = g})
    ELSE IF g \in world.deps[side] THEN 1 ELSE 0

Growth(g) ==
    LET n == Count("candidate", g) - Count("baseline", g) IN IF n > 0 THEN n ELSE 0

Reads(sensor, side) == outputs[<<side, sensor>>].output.used

Reported(sensor) ==
    IF sensor = "semgrep" THEN Detects[Reads(sensor, "candidate")]
    ELSE Known[Reads(sensor, "candidate")]

\* Both scans read the same rules, and all of the tree.
SameReading(sensor) ==
    /\ {<<"baseline", sensor>>, <<"candidate", sensor>>} \subseteq DOMAIN outputs
    /\ Reads(sensor, "baseline") = Reads(sensor, "candidate")
    /\ Reads(sensor, "candidate") > 0

\* The recorded hashes are those of what was read: false when the file was
\* replaced between the hash and the run, was never hashed, or when findings
\* were dropped from the payload.
HonestHashes(sensor) ==
    \A side \in Sides : outputs[<<side, sensor>>].output.hash = Reads(sensor, side)

\* `ssp scan` reports exactly the growth of each group: matches that moved,
\* were reordered or printed twice add nothing, and of several equal ones as
\* many are added as there are more.
SspAddsTheGrowth ==
    \A s \in Sensors :
        ssp[s].exit \in {0, 1} /\ SameReading(s) =>
            \A g \in Reported(s) :
                Cardinality({f \in ssp[s].delta.added : f.group = g}) = Growth(g)

\* A check that exits 0 leaves nothing unexplained: each sensor of either file
\* completed on both sides, and each group the policy fails on grew by no more
\* than its active suppressions allow, unless a recorded hash is not that of
\* what was read or the policy gave up comparing hashes.
ExitZeroMeansNothingNew ==
    LET q == gate.request
    IN  gate.ran /\ gate.exit = 0 /\ q.flags = "both" =>
            \A s \in Recorded("baseline", q) \cup Recorded("candidate", q) :
                /\ s \in Recorded("baseline", q) \cap Recorded("candidate", q)
                /\ \A side \in Sides : outputs[<<side, s>>].output.status = "complete"
                /\ HonestHashes(s) /\ DriftFields(q.policy, s).hash =>
                      \A g \in Reported(s) :
                          Violates(q.policy, [group |-> g]) =>
                              Growth(g) <= Cardinality({x \in q.policy.suppressions :
                                              x.id[1] = s /\ x.id[2] = g /\ x.expires >= gate.asOf})

\* The two delta engines agree on the same scans: what SSP cannot judge the
\* gate does not judge either, and what the gate judges it judges on the same
\* added findings.
SspAndGateAgree ==
    gate.ran /\ gate.exit # 2 =>
        \A s \in DOMAIN gate.security.sensors :
            LET r == gate.security.sensors[s]
            IN  /\ ssp[s].exit = 3 => r.status = "unknown"
                /\ r.status # "unknown" =>
                      Fingerprints(r.added \cup r.suppressed) = Fingerprints(ssp[s].delta.added)

\* A reader of the SARIF sees why the gate fails: each failed sensor has an
\* error or a warning of its own, each unknown one a result, and a failure by
\* number alone an error.
SarifShowsFailure ==
    gate.ran /\ gate.exit # 2 =>
        /\ \A s \in DOMAIN gate.security.sensors :
              /\ gate.security.sensors[s].status = "fail" =>
                    \E r \in gate.sarif : r.about = s /\ r.level \in {"error", "warning"}
              /\ gate.security.sensors[s].status = "unknown" => \E r \in gate.sarif : r.about = s
        /\ gate.security.status = "fail" =>
              \E r \in gate.sarif : r.level \in {"error", "warning"}

\* Every item of a payload that completed is in the report d once, with at
\* least its severity, and nothing else is.
AccountsFor(payloads, d) ==
    LET members == {k \in DOMAIN payloads : payloads[k].status = "complete"}
        all == d.surfaced \cup d.pre_existing \cup d.muted
        Items(k) == payloads[k].findings
    IN  /\ \A k \in members : \A i \in DOMAIN Items(k) :
              /\ \E f \in all : /\ GroupOf(f) = GroupOf(Items(k)[i])
                                /\ SeverityRank[f.severity] >= SeverityRank[Items(k)[i].severity]
              /\ Cardinality({f \in all : GroupOf(f) = GroupOf(Items(k)[i])})
                    >= Cardinality({j \in DOMAIN Items(k) :
                                       GroupOf(Items(k)[j]) = GroupOf(Items(k)[i])})
        /\ \A f \in all : \E k \in members : \E i \in DOMAIN Items(k) :
              GroupOf(Items(k)[i]) = GroupOf(f)
        /\ Cardinality(all) = Cardinality(d.surfaced) + Cardinality(d.pre_existing)
                                 + Cardinality(d.muted)
        /\ Cardinality({Anchor(f) : f \in all}) = Cardinality(all)

\* No payload is refused but for a fault of its own: the ordinals given to items
\* without one never clash.  Every item of a payload that completed is accounted
\* for, once, as surfaced, pre-existing or muted and with at least its severity;
\* a failed member of the ensemble hides nothing, and nothing else is reported.
AdvisoryAccounted ==
    /\ gate.ran => \A k \in DOMAIN gate.request.payloads :
          LET p == gate.request.payloads[k]
          IN  PayloadRaises(p) => ~p.valid \/ DuplicateOrdinals(p.findings)
    /\ gate.ran /\ gate.exit # 2 /\ gate.request.payloads # <<>> =>
          AccountsFor(gate.request.payloads, gate.advisory)

\* Running the gate again on the same files never makes it more lenient, and
\* never hides an advisory finding it showed: with the days suppressions and
\* mutes only expire.
LaterNeverMoreLenient ==
    [][gate.ran /\ gate.exit # 2 /\ gate' # gate =>
          /\ SuiteRank[gate'.final] >= SuiteRank[gate.final]
          /\ gate.request.payloads # <<>> => gate'.advisory.muted \subseteq gate.advisory.muted]_vars

=============================================================================
