------------------------- MODULE SecurityGateProofs -------------------------
(***************************************************************************)
(* Proofs about SecurityGate, for any trees, rulesets, databases, policies,*)
(* scanner failures and number of days: its types; a complete scan misses  *)
(* nothing; `ssp scan` reports exactly the growth; the two delta engines   *)
(* agree; the SARIF shows why the gate fails; exit 0 leaves nothing new    *)
(* unexplained; the passing of days makes no verdict more lenient; and the *)
(* advisory report accounts for every item of the scouts that completed.   *)
(***************************************************************************)
EXTENDS SecurityGate, SensorScanProofs

-----------------------------------------------------------------------------
(* The inductive invariant                                                 *)

BothScanned(s) == {<<"baseline", s>>, <<"candidate", s>>} \subseteq DOMAIN outputs

\* The scan in progress is one `ssp scan` still needs.
ScanIsOpen ==
    scan.running => /\ ssp[scan.sensor].exit = -1
                    /\ <<scan.side, scan.sensor>> \notin DOMAIN outputs

\* An `ssp scan` that reported has both results, and the report of one that
\* has them is the delta of the two that are recorded, written or not.
SspStandsFor(s) ==
    /\ ssp[s].exit \in {0, 1, 3} => BothScanned(s)
    /\ ssp[s].exit # -1 /\ BothScanned(s) =>
          /\ ssp[s].delta = ComputeDelta(outputs[<<"baseline", s>>].output,
                                         outputs[<<"candidate", s>>].output)
          /\ ssp[s].exit \in {2, SspExitCode(ssp[s].delta.status)}

\* The gate runs when nothing is left to scan.
ScansAreOver ==
    gate.ran => /\ ~scan.running
                /\ \A s \in world.sensors : ssp[s].exit # -1

OutputsComplete ==
    \A k \in DOMAIN outputs : outputs[k].output.status \in {"complete", "error"}

GateInv ==
    /\ TypeOK
    /\ DOMAIN ssp = Sensors
    /\ ScanIsOpen
    /\ \A s \in Sensors : SspStandsFor(s)
    /\ ScansAreOver
    /\ OutputsComplete

-----------------------------------------------------------------------------
LEMMA ExitCodes ==
    /\ \A d : SspExitCode(d) \in {0, 1, 3}
    /\ \A f, strict : SuiteExitCode(f, strict) \in {0, 1, 3}
    /\ \A s, o : ExitOfRaise(s, o) \in {0, 2, 4}
  BY DEF SspExitCode, SuiteExitCode, ExitOfRaise

LEMMA ScanStatus ==
    /\ \A side, o, a : SemgrepScan(side, o, a).status \in {"complete", "error"}
    /\ \A side, o : PipAuditScan(side, o).status \in {"complete", "error"}
<1>1. \A f, h, u : Complete(f, h, u).status = "complete"
  BY DEF Complete
<1>2. \A h, u : ErrorResult(h, u).status = "error"
  BY DEF ErrorResult
<1>3. \A p, h, u : SemgrepFromJson(p, h, u).status \in {"complete", "error"}
  BY <1>1, <1>2 DEF SemgrepFromJson
<1>4. \A g, m, h, u : PipAuditFromJson(g, m, h, u).status \in {"complete", "error"}
  BY <1>1, <1>2 DEF PipAuditFromJson
<1> QED
  BY <1>2, <1>3, <1>4 DEF SemgrepScan, PipAuditScan

LEMMA GateInit == Init => GateInv
<1> SUFFICES ASSUME Init PROVE GateInv
  OBVIOUS
<1>1. DOMAIN outputs = {}
  BY DEF Init
<1>2. env \in [{"ruleset", "db", "tool"} -> 1..2]
  BY DEF Init
<1>3. TypeOK
  BY <1>1, <1>2, GateConstants DEF TypeOK, Init, NoScan, NoGate, Sensors
<1> QED
  BY <1>1, <1>3 DEF GateInv, Init, NoScan, NoGate, ScanIsOpen, SspStandsFor, ScansAreOver,
                    OutputsComplete

\* Steps that change neither the scans nor the gate.
LEMMA GateQuiet ==
    ASSUME GateInv, TypeOK', UNCHANGED <<world, scan, outputs, ssp, gate>>
    PROVE  GateInv'
<1>1. (\A s \in Sensors : SspStandsFor(s))'
  BY DEF GateInv, SspStandsFor, BothScanned
<1> QED
  BY <1>1 DEF GateInv, ScanIsOpen, ScansAreOver, OutputsComplete

LEMMA BeginScanStep ==
    ASSUME GateInv, NEW s \in Sensors, NEW side \in Sides, BeginScan(s, side)
    PROVE  GateInv'
<1> USE DEF BeginScan, NextScan
<1>1. /\ scan'.running /\ scan'.sensor = s /\ scan'.side = side
      /\ UNCHANGED <<world, env, faults, outputs, ssp, today, gate>>
      /\ s \in world.sensors /\ ssp[s].exit = -1 /\ <<side, s>> \notin DOMAIN outputs
  OBVIOUS
<1> HIDE DEF BeginScan, NextScan
<1>2. TypeOK'
  BY <1>1 DEF GateInv, TypeOK
<1>3. ScanIsOpen'
  BY <1>1 DEF ScanIsOpen
<1>4. ~gate.ran
  BY <1>1 DEF GateInv, ScansAreOver
<1>5. (\A x \in Sensors : SspStandsFor(x))'
  BY <1>1 DEF GateInv, SspStandsFor, BothScanned
<1> QED
  BY <1>1, <1>2, <1>3, <1>4, <1>5 DEF GateInv, ScansAreOver, OutputsComplete

LEMMA RunScanStep ==
    ASSUME GateInv, NEW outcome \in SemgrepOutcomes \cup PipAuditOutcomes, RunScan(outcome)
    PROVE  GateInv'
<1>0. PICK s, side : s = scan.sensor /\ side = scan.side
  OBVIOUS
<1> DEFINE key == <<side, s>>
<1>1. /\ scan.running
      /\ outcome.kind # "ok" => faults < MaxFaults
      /\ faults' = IF outcome.kind = "ok" THEN faults ELSE faults + 1
      /\ scan' = NoScan
      /\ UNCHANGED <<world, env, today, gate>>
  BY DEF RunScan
<1>2. /\ s \in world.sensors /\ side \in Sides /\ world.sensors \subseteq Sensors
      /\ ssp[s].exit = -1 /\ key \notin DOMAIN outputs
  BY <1>0, <1>1, GateConstants DEF GateInv, TypeOK, ScanIsOpen
<1>3. ~gate.ran
  BY <1>1 DEF GateInv, ScansAreOver
<1>4. faults' \in 0..MaxFaults
  BY <1>1, GateConstants DEF GateInv, TypeOK
<1>5. ~scan'.running /\ ~gate'.ran
  BY <1>1, <1>3 DEF NoScan
<1>6. CASE \E exit \in {2, 4} : /\ ssp' = [ssp EXCEPT ![s] = [exit |-> exit, delta |-> NoDelta]]
                                /\ UNCHANGED outputs
  <2>1. PICK exit \in {2, 4} : /\ ssp' = [ssp EXCEPT ![s] = [exit |-> exit, delta |-> NoDelta]]
                               /\ UNCHANGED outputs
    BY <1>6
  <2>2. /\ DOMAIN ssp' = Sensors
        /\ \A x \in Sensors : ssp'[x] = IF x = s THEN [exit |-> exit, delta |-> NoDelta] ELSE ssp[x]
    BY <2>1, <1>2 DEF GateInv
  <2>3. TypeOK'
    BY <1>1, <1>4, <1>5, <2>1, <2>2 DEF GateInv, TypeOK
  <2>4. ~BothScanned(s)
    BY <1>2 DEF BothScanned, Sides
  <2>5. SspStandsFor(s)'
    BY <2>1, <2>2, <2>4, <1>2 DEF SspStandsFor, BothScanned
  <2>6. ASSUME NEW x \in Sensors, x # s PROVE SspStandsFor(x)'
    <3>1. SspStandsFor(x) /\ ssp'[x] = ssp[x] /\ outputs' = outputs
      BY <2>1, <2>2, <2>6 DEF GateInv
    <3> QED
      BY <3>1 DEF SspStandsFor, BothScanned
  <2> QED
    BY <1>5, <2>1, <2>2, <2>3, <2>5, <2>6 DEF GateInv, ScanIsOpen, ScansAreOver, OutputsComplete
<1>7. CASE \E o : /\ o.output.status \in {"complete", "error"}
                  /\ outputs' = [k \in DOMAIN outputs \cup {key} |->
                                    IF k \in DOMAIN outputs THEN outputs[k] ELSE o]
                  /\ UNCHANGED ssp
  <2>1. PICK o : /\ o.output.status \in {"complete", "error"}
                 /\ outputs' = [k \in DOMAIN outputs \cup {key} |->
                                   IF k \in DOMAIN outputs THEN outputs[k] ELSE o]
                 /\ UNCHANGED ssp
    BY <1>7
  <2>2. /\ DOMAIN outputs' = DOMAIN outputs \cup {key}
        /\ \A k \in DOMAIN outputs : outputs'[k] = outputs[k]
        /\ outputs'[key] = o
    BY <2>1, <1>2
  <2>3. TypeOK'
    BY <1>1, <1>2, <1>4, <1>5, <2>1, <2>2 DEF GateInv, TypeOK
  <2>4. SspStandsFor(s)'
    BY <1>2, <2>1 DEF SspStandsFor
  <2>5. ASSUME NEW x \in Sensors, x # s PROVE SspStandsFor(x)'
    <3>1. SspStandsFor(x) /\ ssp'[x] = ssp[x]
      BY <2>1 DEF GateInv
    <3>2. \A y : <<y, x>> # key
      BY <2>5
    <3>3. \A y : /\ <<y, x>> \in DOMAIN outputs' <=> <<y, x>> \in DOMAIN outputs
                 /\ <<y, x>> \in DOMAIN outputs => outputs'[<<y, x>>] = outputs[<<y, x>>]
      BY <2>2, <3>2
    <3>4. BothScanned(x)' <=> BothScanned(x)
      BY <3>3 DEF BothScanned
    <3>5. BothScanned(x) => /\ outputs'[<<"baseline", x>>] = outputs[<<"baseline", x>>]
                            /\ outputs'[<<"candidate", x>>] = outputs[<<"candidate", x>>]
      BY <3>3 DEF BothScanned
    <3> QED
      BY <3>1, <3>4, <3>5 DEF SspStandsFor
  <2>6. OutputsComplete'
    BY <2>1, <2>2 DEF GateInv, OutputsComplete
  <2> QED
    BY <1>5, <2>1, <2>3, <2>4, <2>5, <2>6 DEF GateInv, ScanIsOpen, ScansAreOver
<1>8. PICK again :
        LET r == IF s = "semgrep" THEN SemgrepScan(side, outcome, again)
                 ELSE PipAuditScan(side, outcome)
            exit == ExitOfRaise(s, outcome)
        IN  IF exit # 0
            THEN /\ ssp' = [ssp EXCEPT ![s] = [exit |-> exit, delta |-> NoDelta]]
                 /\ UNCHANGED outputs
            ELSE /\ outputs' = [k \in DOMAIN outputs \cup {key} |->
                                   IF k \in DOMAIN outputs THEN outputs[k]
                                   ELSE [output |-> r, version |-> ToolVersion(r, outcome)]]
                 /\ UNCHANGED ssp
  BY <1>0 DEF RunScan
<1> DEFINE r == IF s = "semgrep" THEN SemgrepScan(side, outcome, again)
                ELSE PipAuditScan(side, outcome)
           o == [output |-> r, version |-> ToolVersion(r, outcome)]
<1>9. r.status \in {"complete", "error"}
  BY ScanStatus
<1>10. o.output = r
  OBVIOUS
<1>11. CASE ExitOfRaise(s, outcome) # 0
  <2>1. ExitOfRaise(s, outcome) \in {2, 4}
    BY <1>11, ExitCodes
  <2> QED
    BY <1>6, <1>8, <1>11, <2>1
<1>12. CASE ExitOfRaise(s, outcome) = 0
  <2>1. /\ outputs' = [k \in DOMAIN outputs \cup {key} |->
                         IF k \in DOMAIN outputs THEN outputs[k] ELSE o]
        /\ UNCHANGED ssp
    BY <1>8, <1>12
  <2> HIDE DEF o, r
  <2> QED
    BY <1>7, <1>9, <1>10, <2>1
<1> QED
  BY <1>11, <1>12

LEMMA SspReportStep ==
    ASSUME GateInv, NEW s \in Sensors, SspReport(s)
    PROVE  GateInv'
<1> DEFINE d == ComputeDelta(outputs[<<"baseline", s>>].output,
                             outputs[<<"candidate", s>>].output)
<1>1. PICK exit \in {2, SspExitCode(d.status)} :
        /\ ssp[s].exit = -1 /\ BothScanned(s)
        /\ ssp' = [ssp EXCEPT ![s] = [exit |-> exit, delta |-> d]]
        /\ faults' \in {faults, faults + 1} /\ (faults' # faults => faults < MaxFaults)
        /\ UNCHANGED <<world, env, scan, outputs, today, gate>>
  BY DEF SspReport, BothScanned
<1> HIDE DEF d
<1>2. /\ DOMAIN ssp' = Sensors
      /\ \A x \in Sensors : ssp'[x] = IF x = s THEN [exit |-> exit, delta |-> d] ELSE ssp[x]
  BY <1>1 DEF GateInv
<1>3. ssp'[s].exit = exit /\ ssp'[s].delta = d
  BY <1>2
<1>4. TypeOK'
  <2>1. faults' \in 0..MaxFaults
    BY <1>1, GateConstants DEF GateInv, TypeOK
  <2> QED
    BY <1>1, <1>2, <1>3, <2>1, ExitCodes DEF GateInv, TypeOK
<1>5. SspStandsFor(s)'
  <2>1. BothScanned(s)'
    BY <1>1 DEF BothScanned
  <2> QED
    BY <1>1, <1>3, <2>1 DEF SspStandsFor, d
<1>6. ASSUME NEW x \in Sensors, x # s PROVE SspStandsFor(x)'
  <2>1. SspStandsFor(x) /\ ssp'[x] = ssp[x] /\ outputs' = outputs
    BY <1>1, <1>2, <1>6 DEF GateInv
  <2> QED
    BY <2>1 DEF SspStandsFor, BothScanned
<1>7. s \in world.sensors
  BY <1>1 DEF GateInv, TypeOK, BothScanned
<1>8. ~gate.ran
  BY <1>1, <1>7 DEF GateInv, ScansAreOver
<1>9. scan.running => scan.sensor # s
  <2>1. ASSUME scan.running, scan.sensor = s PROVE FALSE
    BY <2>1, <1>1 DEF GateInv, ScanIsOpen, BothScanned, TypeOK, Sides
  <2> QED
    BY <2>1
<1>10. ScanIsOpen'
  BY <1>1, <1>2, <1>9, GateConstants DEF GateInv, ScanIsOpen, TypeOK
<1> QED
  BY <1>1, <1>2, <1>4, <1>5, <1>6, <1>8, <1>10 DEF GateInv, ScansAreOver, OutputsComplete

LEMMA EnvironmentStep == GateInv /\ EnvironmentChanges => GateInv'
<1> SUFFICES ASSUME GateInv, EnvironmentChanges PROVE GateInv'
  OBVIOUS
<1>1. UNCHANGED <<world, faults, scan, outputs, ssp, today, gate>>
  BY DEF EnvironmentChanges
<1>2. env' \in [{"ruleset", "db", "tool"} -> 1..2]
  BY DEF EnvironmentChanges, GateInv, TypeOK
<1>3. TypeOK'
  BY <1>1, <1>2 DEF GateInv, TypeOK
<1> QED
  BY <1>1, <1>3, GateQuiet

LEMMA NextDayStep == GateInv /\ NextDay => GateInv'
<1> SUFFICES ASSUME GateInv, NextDay PROVE GateInv'
  OBVIOUS
<1>1. UNCHANGED <<world, env, faults, scan, outputs, ssp, gate>>
  BY DEF NextDay
<1>2. today' \in 1..Days
  BY GateConstants DEF NextDay, GateInv, TypeOK
<1>3. TypeOK'
  BY <1>1, <1>2 DEF GateInv, TypeOK
<1> QED
  BY <1>1, <1>3, GateQuiet

\* The result of one `check`.
Verdict(q) ==
    LET e == EvaluateSecurity(q, AsOf(q))
    IN  IF q.flags = "both" THEN CombineVerdict(q.code, e.status) ELSE q.code

LEMMA CheckShape ==
    ASSUME NEW q \in Requests, Check(q)
    PROVE  /\ gate'.ran /\ gate'.request = q /\ gate'.day = today
           /\ UsageError(q) => gate'.exit = 2
           /\ ~UsageError(q) =>
                /\ gate'.exit = SuiteExitCode(Verdict(q), q.strict)
                /\ gate'.final = Verdict(q)
                /\ gate'.asOf = AsOf(q)
                /\ gate'.security = IF q.flags = "both" THEN EvaluateSecurity(q, AsOf(q))
                                    ELSE [sensors |-> <<>>, tooMany |-> FALSE, status |-> "pass"]
                /\ gate'.sarif = IF q.flags = "both" THEN SecuritySarif(EvaluateSecurity(q, AsOf(q)))
                                 ELSE {}
                /\ gate'.advisory = IF q.payloads = <<>> THEN NoGate
                                    ELSE AdvisoryDetail(q.payloads, world.api, world.renames,
                                                        q.mutes, AsOf(q))
           /\ ~scan.running
           /\ \A s \in world.sensors : ssp[s].exit # -1
           /\ gate.ran => q = gate.request /\ today > gate.day
           /\ UNCHANGED <<world, env, faults, scan, outputs, ssp, today>>
  BY DEF Check, Verdict

LEMMA CheckStep ==
    ASSUME GateInv, NEW q \in Requests, Check(q)
    PROVE  GateInv'
<1>1. gate'.ran /\ gate'.request = q /\ gate'.exit \in 0..3
  BY CheckShape, ExitCodes
<1>2. UNCHANGED <<world, env, faults, scan, outputs, ssp, today>>
  BY CheckShape
<1>3. ScansAreOver'
  BY <1>2, CheckShape DEF ScansAreOver
<1>4. TypeOK'
  BY <1>1, <1>2 DEF GateInv, TypeOK
<1>5. (\A s \in Sensors : SspStandsFor(s))'
  BY <1>2 DEF GateInv, SspStandsFor, BothScanned
<1> QED
  BY <1>2, <1>3, <1>4, <1>5 DEF GateInv, ScanIsOpen, OutputsComplete

LEMMA GateNext == GateInv /\ [Next]_vars => GateInv'
<1> SUFFICES ASSUME GateInv, [Next]_vars PROVE GateInv'
  OBVIOUS
<1>1. CASE \E s \in Sensors, side \in Sides : BeginScan(s, side)
  BY <1>1, BeginScanStep
<1>2. CASE \E outcome \in SemgrepOutcomes \cup PipAuditOutcomes : RunScan(outcome)
  BY <1>2, RunScanStep
<1>3. CASE \E s \in Sensors : SspReport(s)
  BY <1>3, SspReportStep
<1>4. CASE EnvironmentChanges
  BY <1>4, EnvironmentStep
<1>5. CASE \E q \in Requests : Check(q)
  BY <1>5, CheckStep
<1>6. CASE NextDay
  BY <1>6, NextDayStep
<1>7. CASE Done \/ UNCHANGED vars
  <2>1. UNCHANGED vars
    BY <1>7 DEF Done
  <2>2. TypeOK'
    BY <2>1 DEF GateInv, TypeOK, vars
  <2> QED
    BY <2>1, <2>2, GateQuiet DEF vars
<1> QED
  BY <1>1, <1>2, <1>3, <1>4, <1>5, <1>6, <1>7 DEF Next

LEMMA GateInvariant == Spec => []GateInv
<1> QED
  BY GateInit, GateNext, PTL DEF Spec

\* The state of the job is well typed: scans, results and reports are of the
\* sensors the job has, and the exit codes are those of the commands.
THEOREM GateTypes == Spec => []TypeOK
<1>1. GateInv => TypeOK
  BY DEF GateInv
<1> QED
  BY <1>1, GateInvariant, PTL

-----------------------------------------------------------------------------
(* The two delta engines                                                   *)

\* The statuses EvaluateSecurity aggregates.
StatusesOf(e) ==
    {e.sensors[s].status : s \in DOMAIN e.sensors} \cup IF e.tooMany THEN {"fail"} ELSE {}

\* What EvaluateSecurity says of a sensor of either file.
LEMMA EvaluateShape ==
    ASSUME NEW q, NEW asOf
    PROVE  LET e == EvaluateSecurity(q, asOf)
           IN  /\ DOMAIN e.sensors = Recorded("baseline", q) \cup Recorded("candidate", q)
               /\ \A s \in DOMAIN e.sensors : e.sensors[s] = SensorResult(q, asOf, s)
               /\ e.status = AggregateStatus(StatusesOf(e))
<1> DEFINE ids == Recorded("baseline", q) \cup Recorded("candidate", q)
           results == [s \in ids |-> SensorResult(q, asOf, s)]
           e == EvaluateSecurity(q, asOf)
<1>1. e.sensors = results
  BY DEF EvaluateSecurity
<1>2. e.status = AggregateStatus({results[s].status : s \in ids}
                                     \cup IF e.tooMany THEN {"fail"} ELSE {})
  BY DEF EvaluateSecurity
<1>3. DOMAIN e.sensors = ids
  BY <1>1
<1>4. \A s \in ids : e.sensors[s] = SensorResult(q, asOf, s)
  BY <1>1
<1>5. e.status = AggregateStatus(StatusesOf(e))
  BY <1>1, <1>2, <1>3 DEF StatusesOf
<1>6. DOMAIN e.sensors = ids /\ \A s \in DOMAIN e.sensors : e.sensors[s] = SensorResult(q, asOf, s)
  BY <1>3, <1>4
<1> QED
  BY <1>5, <1>6

\* A judged sensor was compared: both scans are recorded and complete.
LEMMA JudgedMeansCompared ==
    ASSUME NEW q, NEW asOf, NEW s, SensorResult(q, asOf, s).status # "unknown"
    PROVE  LET b == outputs[<<"baseline", s>>].output
               c == outputs[<<"candidate", s>>].output
               r == SensorResult(q, asOf, s)
           IN  /\ ~Drifted(q, s)
               /\ BothScanned(s)
               /\ s \in Recorded("baseline", q) \cap Recorded("candidate", q)
               /\ b.status = "complete" /\ c.status = "complete"
               /\ r.added \cup r.suppressed = NotIn(SensorFindings(c), SensorFindings(b))
               /\ r.added = {f \in NotIn(SensorFindings(c), SensorFindings(b)) :
                               CanonicalId(s, f) \notin ActiveSuppressions(q.policy, asOf)}
               /\ r.status = IF \E f \in r.added : Violates(q.policy, f) THEN "fail" ELSE "pass"
<1> DEFINE b == outputs[<<"baseline", s>>].output
           c == outputs[<<"candidate", s>>].output
           r == SensorResult(q, asOf, s)
           added == NotIn(SensorFindings(c), SensorFindings(b))
           open == {f \in added : CanonicalId(s, f) \notin ActiveSuppressions(q.policy, asOf)}
<1>1. /\ ~Drifted(q, s)
      /\ b.status = "complete" /\ c.status = "complete"
      /\ r = [status |-> IF \E f \in open : Violates(q.policy, f) THEN "fail" ELSE "pass",
              added |-> open, suppressed |-> added \ open, drift |-> FALSE]
  BY DEF SensorResult, Unknown
<1>2. s \in Recorded("baseline", q) \cap Recorded("candidate", q)
  BY <1>1 DEF Drifted
<1>3. BothScanned(s)
  BY <1>2 DEF Recorded, BothScanned
<1>4. open \subseteq added
  OBVIOUS
<1>5. r.added = open /\ r.suppressed = added \ open
      /\ r.status = IF \E f \in open : Violates(q.policy, f) THEN "fail" ELSE "pass"
  BY <1>1
<1> HIDE DEF r, added, open
<1>6. r.added \cup r.suppressed = added
  BY <1>4, <1>5
<1> QED
  BY <1>1, <1>2, <1>3, <1>5, <1>6 DEF r, added, open

\* Where both scans completed, SSP reports the same added findings.
LEMMA DeltaOfComplete ==
    ASSUME NEW b, NEW c, b.status = "complete", c.status = "complete"
    PROVE  /\ ComputeDelta(b, c).added = NotIn(SensorFindings(c), SensorFindings(b))
           /\ ComputeDelta(b, c).status \in {"fail", "pass"}
  BY DEF ComputeDelta, SensorFindings, StatusForAdded

LEMMA CheckAgrees ==
    ASSUME GateInv, NEW q \in Requests, Check(q)
    PROVE  SspAndGateAgree'
<1> DEFINE e == EvaluateSecurity(q, AsOf(q))
<1>1. UNCHANGED <<world, outputs, ssp>> /\ \A s \in world.sensors : ssp[s].exit # -1
  BY CheckShape
<1> SUFFICES ASSUME gate'.exit # 2,
                    NEW s \in DOMAIN gate'.security.sensors
             PROVE  /\ ssp[s].exit = 3 => gate'.security.sensors[s].status = "unknown"
                    /\ gate'.security.sensors[s].status # "unknown" =>
                          Fingerprints(gate'.security.sensors[s].added
                                          \cup gate'.security.sensors[s].suppressed)
                             = Fingerprints(ssp[s].delta.added)
  BY <1>1 DEF SspAndGateAgree
<1>2. ~UsageError(q) /\ gate'.security = IF q.flags = "both" THEN e
                                    ELSE [sensors |-> <<>>, tooMany |-> FALSE, status |-> "pass"]
  BY CheckShape
<1>3. gate'.security = e
  BY <1>2
<1>4. s \in Recorded("baseline", q) \cup Recorded("candidate", q)
      /\ gate'.security.sensors[s] = SensorResult(q, AsOf(q), s)
  BY <1>3, EvaluateShape
<1>5. s \in Sensors /\ s \in world.sensors
  BY <1>4 DEF Recorded, GateInv, TypeOK
<1> DEFINE r == SensorResult(q, AsOf(q), s)
           b == outputs[<<"baseline", s>>].output
           c == outputs[<<"candidate", s>>].output
<1>6. SUFFICES ASSUME r.status # "unknown"
               PROVE  /\ ssp[s].exit # 3
                      /\ Fingerprints(r.added \cup r.suppressed) = Fingerprints(ssp[s].delta.added)
  BY <1>4
<1>7. /\ BothScanned(s) /\ b.status = "complete" /\ c.status = "complete"
      /\ r.added \cup r.suppressed = NotIn(SensorFindings(c), SensorFindings(b))
  BY <1>6, JudgedMeansCompared
<1>8. ssp[s].exit # -1
  BY <1>1, <1>5
<1>9. ssp[s].delta = ComputeDelta(b, c) /\ ssp[s].exit \in {2, SspExitCode(ssp[s].delta.status)}
  BY <1>5, <1>7, <1>8 DEF GateInv, SspStandsFor
<1> HIDE DEF r, b, c
<1>10. ssp[s].delta.added = r.added \cup r.suppressed /\ ssp[s].delta.status \in {"fail", "pass"}
  BY <1>7, <1>9, DeltaOfComplete
<1>11. ssp[s].exit # 3
  BY <1>9, <1>10 DEF SspExitCode
<1> QED
  BY <1>10, <1>11

\* A step other than `check` leaves the gate, and after the gate has run the
\* reports of `ssp scan`, as they are.
LEMMA OtherSteps ==
    ASSUME GateInv, [Next]_vars, ~\E q \in Requests : Check(q)
    PROVE  gate' = gate /\ (gate.ran => UNCHANGED <<world, outputs, ssp>>)
<1>1. CASE \E s \in Sensors, side \in Sides : BeginScan(s, side)
  BY <1>1 DEF BeginScan
<1>2. CASE \E outcome \in SemgrepOutcomes \cup PipAuditOutcomes : RunScan(outcome)
  BY <1>2 DEF RunScan, GateInv, ScansAreOver
<1>3. CASE \E s \in Sensors : SspReport(s)
  BY <1>3 DEF SspReport, GateInv, ScansAreOver, TypeOK
<1>4. CASE EnvironmentChanges \/ NextDay \/ Done \/ UNCHANGED vars
  BY <1>4 DEF EnvironmentChanges, NextDay, Done, vars
<1> QED
  BY <1>1, <1>2, <1>3, <1>4 DEF Next

\* The two delta engines agree on the same scans, in every run of the gate:
\* what `ssp scan` cannot judge the gate does not judge either, and what the
\* gate judges it judges on the findings `ssp scan` calls added.
THEOREM EnginesAgree == Spec => []SspAndGateAgree
<1>1. Init => SspAndGateAgree
  BY DEF Init, SspAndGateAgree, NoGate
<1>2. GateInv /\ SspAndGateAgree /\ [Next]_vars => SspAndGateAgree'
  <2> SUFFICES ASSUME GateInv, SspAndGateAgree, [Next]_vars PROVE SspAndGateAgree'
    OBVIOUS
  <2>1. CASE \E q \in Requests : Check(q)
    BY <2>1, CheckAgrees
  <2>2. CASE ~\E q \in Requests : Check(q)
    <3>1. gate' = gate /\ (gate.ran => ssp' = ssp)
      BY <2>2, OtherSteps
    <3> QED
      BY <3>1 DEF SspAndGateAgree
  <2> QED
    BY <2>1, <2>2
<1> QED
  BY <1>1, <1>2, GateInvariant, PTL DEF Spec

-----------------------------------------------------------------------------
(* The SARIF                                                               *)

LEMMA SarifOfSensors ==
    ASSUME NEW e
    PROVE  /\ \A s \in DOMAIN e.sensors :
                 /\ e.sensors[s].status = "fail" =>
                       \E r \in SecuritySarif(e) : r.about = s /\ r.level \in {"error", "warning"}
                 /\ e.sensors[s].status = "unknown" => \E r \in SecuritySarif(e) : r.about = s
           /\ e.tooMany => \E r \in SecuritySarif(e) : r.level = "error"
<1> DEFINE Findings(s) == {[about |-> s, level |-> SecurityLevel(Severity(f.group))] :
                              f \in e.sensors[s].added}
           Of(s) == IF e.sensors[s].status = "unknown"
                    THEN {[about |-> s, level |-> "note"]}
                    ELSE IF e.sensors[s].status = "fail"
                            /\ ~\E r \in Findings(s) : r.level \in {"error", "warning"}
                    THEN Findings(s) \cup {[about |-> s, level |-> "error"]}
                    ELSE Findings(s)
           many == IF e.tooMany THEN {[about |-> "count", level |-> "error"]} ELSE {}
           shown == UNION {Of(s) : s \in DOMAIN e.sensors}
<1>1. SecuritySarif(e) = shown \cup many
  BY DEF SecuritySarif
<1>2. \A s : \A r \in Findings(s) : r.about = s
  OBVIOUS
<1>3. ASSUME NEW s PROVE
        /\ e.sensors[s].status = "fail" =>
              \E r \in Of(s) : r.about = s /\ r.level \in {"error", "warning"}
        /\ e.sensors[s].status = "unknown" => \E r \in Of(s) : r.about = s
  <2>1. CASE e.sensors[s].status = "unknown"
    <3>1. Of(s) = {[about |-> s, level |-> "note"]}
      BY <2>1
    <3> HIDE DEF Of
    <3> QED
      BY <2>1, <3>1
  <2>2. CASE e.sensors[s].status = "fail" /\ \E r \in Findings(s) : r.level \in {"error", "warning"}
    <3>1. Of(s) = Findings(s)
      BY <2>2
    <3> HIDE DEF Of, Findings
    <3> QED
      BY <2>2, <3>1, <1>2
  <2>3. CASE e.sensors[s].status = "fail" /\ ~\E r \in Findings(s) : r.level \in {"error", "warning"}
    <3>1. [about |-> s, level |-> "error"] \in Of(s)
      BY <2>3
    <3> HIDE DEF Of, Findings
    <3> QED
      BY <2>3, <3>1
  <2> QED
    BY <2>1, <2>2, <2>3
<1>4. e.tooMany => [about |-> "count", level |-> "error"] \in many
  OBVIOUS
<1> HIDE DEF Of, many
<1>5. \A s \in DOMAIN e.sensors : Of(s) \subseteq SecuritySarif(e)
  BY <1>1
<1>6. many \subseteq SecuritySarif(e)
  <2> HIDE DEF shown
  <2> QED
    BY <1>1
<1> QED
  BY <1>3, <1>4, <1>5, <1>6

LEMMA CheckShows ==
    ASSUME NEW q \in Requests, Check(q)
    PROVE  SarifShowsFailure'
<1> DEFINE e == EvaluateSecurity(q, AsOf(q))
<1> SUFFICES ASSUME gate'.exit # 2 PROVE SarifShowsFailure'
  BY DEF SarifShowsFailure
<1>1. /\ ~UsageError(q)
      /\ gate'.security = IF q.flags = "both" THEN e
                          ELSE [sensors |-> <<>>, tooMany |-> FALSE, status |-> "pass"]
      /\ gate'.sarif = IF q.flags = "both" THEN SecuritySarif(e) ELSE {}
  BY CheckShape
<1>2. CASE q.flags # "both"
  BY <1>1, <1>2 DEF SarifShowsFailure
<1>3. CASE q.flags = "both"
  <2>1. gate'.security = e /\ gate'.sarif = SecuritySarif(e)
    BY <1>1, <1>3
  <2>2. e.status = "fail" => (\E s \in DOMAIN e.sensors : e.sensors[s].status = "fail") \/ e.tooMany
    <3>1. e.status = AggregateStatus(StatusesOf(e))
      BY EvaluateShape
    <3> HIDE DEF e
    <3>2. e.status = "fail" => "fail" \in StatusesOf(e)
      BY <3>1 DEF AggregateStatus
    <3> QED
      BY <3>2 DEF StatusesOf
  <2> HIDE DEF e
  <2> QED
    BY <2>1, <2>2, SarifOfSensors DEF SarifShowsFailure
<1> QED
  BY <1>2, <1>3

\* A reader of the SARIF sees why the gate fails, whatever the policy leaves
\* visible: a failed sensor has an error or a warning of its own, an unknown
\* one a result, and a failure by number alone an error.
THEOREM SarifExplains == Spec => []SarifShowsFailure
<1>1. Init => SarifShowsFailure
  BY DEF Init, SarifShowsFailure, NoGate
<1>2. GateInv /\ SarifShowsFailure /\ [Next]_vars => SarifShowsFailure'
  <2> SUFFICES ASSUME GateInv, SarifShowsFailure, [Next]_vars PROVE SarifShowsFailure'
    OBVIOUS
  <2>1. CASE \E q \in Requests : Check(q)
    BY <2>1, CheckShows
  <2>2. CASE ~\E q \in Requests : Check(q)
    <3>1. gate' = gate
      BY <2>2, OtherSteps
    <3> QED
      BY <3>1 DEF SarifShowsFailure
  <2> QED
    BY <2>1, <2>2
<1> QED
  BY <1>1, <1>2, GateInvariant, PTL DEF Spec

-----------------------------------------------------------------------------
(* What a complete scan contains                                           *)

\* What is there to be found, and what the scanner of a sensor finds of it with
\* version `used` of its rules or of its database.
Present(sensor, side) == IF sensor = "semgrep" THEN world.tree[side] ELSE world.deps[side]

FoundBy(sensor, side, used) ==
    IF sensor = "semgrep" THEN {m \in world.tree[side] : m.group \in Detects[used]}
    ELSE world.deps[side] \cap Known[used]

HoldsAll(sensor, fs, found) == IF sensor = "semgrep" THEN SastOf(fs, found) ELSE ScaOf(fs, found)

\* A scan result as the adapter may leave it: all that was found, or some of it
\* when the payload was not the expected list.
ResultHolds(sensor, side, o) ==
    /\ o.hash \in 0..2
    /\ o.status = "complete" =>
          /\ o.used \in {-1, 1, 2}
          /\ \E found \in SUBSET Present(sensor, side) :
                /\ HoldsAll(sensor, o.findings, found)
                /\ o.used > 0 => found = FoundBy(sensor, side, o.used)

ContentInv ==
    /\ scan.running => scan.hash \in 0..2
    /\ \A side \in Sides, s \in Sensors :
          <<side, s>> \in DOMAIN outputs => ResultHolds(s, side, outputs[<<side, s>>].output)

LEMMA WorldFacts ==
    ASSUME TypeOK
    PROVE  /\ world \in Worlds
           /\ world.convention \in Conventions
           /\ world.sensors \subseteq Sensors
           /\ \A side \in Sides :
                 /\ IsFiniteSet(world.tree[side]) /\ IsFiniteSet(world.deps[side])
                 /\ world.tree[side] \subseteq Matches
                 /\ \A m \in world.tree[side] : File[m.group] \in ExpectedPythonPaths
                 /\ world.deps[side] \subseteq ScaGroups
           /\ env.ruleset \in 1..2 /\ env.db \in 1..2
<1>1. world \in Worlds
  BY DEF TypeOK
<1>2. env.ruleset \in 1..2 /\ env.db \in 1..2
  BY DEF TypeOK
<1>3. ASSUME NEW side \in Sides
      PROVE  /\ world.tree[side] \subseteq Matches
             /\ \A m \in world.tree[side] : File[m.group] \in ExpectedPythonPaths
  <2>1. world.tree[side] \subseteq [group : {g \in SastGroups : File[g] \in ExpectedPythonPaths},
                                  span : Nat \ {0}]
    BY <1>1, GateConstants DEF Sides
  <2> QED
    BY <2>1 DEF Matches
<1> QED
  BY <1>1, <1>2, <1>3, GateConstants DEF Sides

\* What Semgrep prints holds every match, in some order, once or twice.
LEMMA OrderedList ==
    ASSUME NEW R, IsFiniteSet(R)
    PROVE  LET q == Ordered(SetToSeq(R))
           IN  \E n \in Nat : /\ DOMAIN q = 1..n
                              /\ \A i \in 1..n : q[i] \in R
                              /\ \A x \in R : \E i \in 1..n : q[i] = x
<1> DEFINE q == SetToSeq(R)
<1>1. q \in Seq(R) /\ \A x \in R : \E i \in DOMAIN q : q[i] = x
  BY SetToSeqOfSet
<1> HIDE DEF q
<1>2. Len(q) \in Nat /\ DOMAIN q = 1..Len(q) /\ \A i \in 1..Len(q) : q[i] \in R
  BY <1>1
<1>3. CASE world.order = "reversed"
  <2> DEFINE r == Reverse(q)
  <2>1. DOMAIN r = 1..Len(q) /\ \A i \in 1..Len(q) : r[i] = q[(Len(q) - i) + 1]
    BY DEF Reverse
  <2>2. \A i \in 1..Len(q) : (Len(q) - i) + 1 \in 1..Len(q) /\ (Len(q) - ((Len(q) - i) + 1)) + 1 = i
    BY <1>2
  <2>3. Ordered(q) = r
    BY <1>3 DEF Ordered
  <2> HIDE DEF r
  <2>4. \A i \in 1..Len(q) : r[i] \in R
    BY <1>2, <2>1, <2>2
  <2>5. \A x \in R : \E i \in 1..Len(q) : r[i] = x
    <3> SUFFICES ASSUME NEW x \in R PROVE \E i \in 1..Len(q) : r[i] = x
      OBVIOUS
    <3>1. PICK j \in 1..Len(q) : q[j] = x
      BY <1>1, <1>2
    <3>2. (Len(q) - j) + 1 \in 1..Len(q) /\ r[(Len(q) - j) + 1] = q[(Len(q) - ((Len(q) - j) + 1)) + 1]
      BY <2>1, <2>2
    <3> QED
      BY <2>2, <3>1, <3>2
  <2> QED
    BY <1>2, <2>1, <2>3, <2>4, <2>5 DEF q
<1>4. CASE world.order # "reversed"
  <2> DEFINE r == q \o q
  <2>1. /\ r \in Seq(R) /\ Len(r) = Len(q) + Len(q)
        /\ \A i \in 1..(Len(q) + Len(q)) : r[i] = IF i <= Len(q) THEN q[i] ELSE q[i - Len(q)]
    BY <1>1, ConcatProperties
  <2>2. Ordered(q) = r
    BY <1>4 DEF Ordered
  <2> HIDE DEF r
  <2>3. Len(r) \in Nat /\ DOMAIN r = 1..Len(r) /\ \A i \in 1..Len(r) : r[i] \in R
    BY <2>1
  <2>4. \A i \in 1..Len(q) : i \in 1..Len(r) /\ r[i] = q[i]
    BY <1>2, <2>1
  <2>5. \A x \in R : \E i \in 1..Len(r) : r[i] = x
    BY <1>1, <1>2, <2>4
  <2> QED
    BY <2>2, <2>3, <2>5 DEF q
<1> QED
  BY <1>3, <1>4

\* SemgrepAdapter.scan: a complete scan is the list of the tree's matches, or of
\* those that the payload lists as mappings.
LEMMA SemgrepHolds ==
    ASSUME TypeOK, NEW side \in Sides, NEW outcome, NEW again,
           SemgrepScan(side, outcome, again).status = "complete"
    PROVE  LET r == SemgrepScan(side, outcome, again)
           IN  /\ r.used \in {-1, env.ruleset}
               /\ \E found \in SUBSET world.tree[side] :
                     /\ SastOf(r.findings, found)
                     /\ r.used > 0 => found = FoundBy("semgrep", side, r.used)
<1> DEFINE r == SemgrepScan(side, outcome, again)
           p == SemgrepPayload(side, outcome)
           items == ResultItems(p)
           hash == IF scan.hash # 0 THEN scan.hash ELSE again
           used == AsRead(env.ruleset, outcome)
           c == world.convention
           E == ExpectedPythonPaths
           S == IF outcome.kind = "unmapped" THEN E ELSE E \ {outcome.skip}
           matches == {x \in world.tree[side] :
                          x.group \in Detects[env.ruleset] /\ File[x.group] \in E \ {outcome.skip}}
           found == IF outcome.kind = "nolist" THEN {} ELSE matches
           Printed(o) == [group |-> o.group, span |-> o.span, text |-> PathText(File[o.group], c)]
           R == {Printed(o) : o \in found}
<1>1. r = SemgrepFromJson(p, hash, used)
  BY DEF SemgrepScan, ErrorResult
<1>2. ~p.errors /\ ~CoverageError(p)
      /\ r = Complete(Sorted([k \in DOMAIN items |-> FindingFromResult(items[k])]), hash, used)
  <2> HIDE DEF r, p, hash, items, used
  <2>1. r.status = "complete"
    BY DEF r
  <2> QED
    BY <1>1, <2>1 DEF SemgrepFromJson, ErrorResult, items
<1>3. /\ p.list = (outcome.kind # "nolist")
      /\ p.scanned = {PathText(f, c) : f \in S}
      /\ p.mappings = Ordered(SetToSeq({Printed(o) : o \in matches}))
  BY DEF SemgrepPayload
<1>4. \A o \in found : o \in world.tree[side] /\ File[o.group] \in E /\ o \in Matches
                      /\ o.group \in Detects[env.ruleset]
  BY WorldFacts
<1>5. E # {} => S = E /\ \A f \in E : ReadPath(f, c) = f
  <2> SUFFICES ASSUME E # {} PROVE S = E /\ \A f \in E : ReadPath(f, c) = f
    OBVIOUS
  <2>1. E \subseteq {SourcePaths(t) : t \in p.scanned}
    BY <1>2 DEF CoverageError
  <2>2. {SourcePaths(t) : t \in p.scanned} = {ReadPath(f, c) : f \in S}
    BY <1>3 DEF ReadPath
  <2>3. S \in SUBSET E /\ c \in Conventions
    BY WorldFacts
  <2> HIDE DEF S, c, p
  <2> QED
    BY <2>1, <2>2, <2>3, CoverageMakesPathsClear
<1>6. used > 0 => used = env.ruleset /\ found = FoundBy("semgrep", side, used)
  <2> SUFFICES ASSUME used > 0 PROVE used = env.ruleset /\ found = FoundBy("semgrep", side, used)
    OBVIOUS
  <2>1. outcome.kind \notin {"nolist", "unmapped"} /\ used = env.ruleset
    BY DEF AsRead
  <2>2. found = matches /\ S = E \ {outcome.skip}
    BY <2>1
  <2>3. \A m \in world.tree[side] : File[m.group] \in E
    BY WorldFacts
  <2>4. \A m \in world.tree[side] : File[m.group] \in E \ {outcome.skip}
    <3> HIDE DEF found, matches
    <3> QED
      BY <1>5, <2>2, <2>3
  <2>5. matches = {m \in world.tree[side] : m.group \in Detects[env.ruleset]}
    BY <2>4
  <2> HIDE DEF found, matches, used
  <2> QED
    BY <2>1, <2>2, <2>5 DEF FoundBy
<1>7. IF outcome.kind = "nolist" THEN items = <<>> /\ found = {} ELSE items = Ordered(SetToSeq(R))
  BY <1>3 DEF ResultItems
<1>8. IsFiniteSet(R)
  <2> DEFINE m == [o \in found |-> Printed(o)]
  <2>1. found \in SUBSET world.tree[side]
    BY <1>4
  <2>2. IsFiniteSet(found)
    BY <2>1, WorldFacts, FS_Subset
  <2>3. m \in [found -> R] /\ \A x \in R : \E o \in found : m[o] = x
    OBVIOUS
  <2> HIDE DEF m, R, found
  <2> QED
    BY <2>2, <2>3, FiniteImage
<1>9. PICK n \in Nat : /\ DOMAIN items = 1..n
                       /\ \A i \in 1..n : items[i] \in R
                       /\ \A x \in R : \E i \in 1..n : items[i] = x
  <2>1. CASE outcome.kind = "nolist"
    <3>1. R = {}
      BY <2>1
    <3>2. items = <<>> /\ DOMAIN items = 1..0
      BY <1>7, <2>1
    <3> HIDE DEF R, items
    <3> QED
      BY <3>1, <3>2
  <2>2. CASE outcome.kind # "nolist"
    <3>1. items = Ordered(SetToSeq(R))
      BY <1>7, <2>2
    <3> HIDE DEF R, items
    <3> QED
      BY <1>8, <3>1, OrderedList
  <2> QED
    BY <2>1, <2>2
<1> DEFINE us == [k \in DOMAIN items |-> FindingFromResult(items[k])]
<1>10. \A o \in found : LET f == FindingFromResult(Printed(o))
                        IN  f.group = o.group /\ f.span = o.span /\ f.path = File[o.group]
  <2> SUFFICES ASSUME NEW o \in found
               PROVE  LET f == FindingFromResult(Printed(o))
                      IN  f.group = o.group /\ f.span = o.span /\ f.path = File[o.group]
    OBVIOUS
  <2>1. File[o.group] \in E
    BY <1>4
  <2>2. SourcePaths(PathText(File[o.group], c)) = File[o.group]
    BY <1>5, <2>1 DEF ReadPath
  <2> HIDE DEF c
  <2> QED
    BY <2>2 DEF FindingFromResult
<1>11. /\ DOMAIN us = 1..n
       /\ \A i \in 1..n : \E o \in found : us[i].group = o.group /\ us[i].span = o.span
                                          /\ us[i].path = File[o.group]
       /\ \A o \in found : \E i \in 1..n : us[i].group = o.group /\ us[i].span = o.span
  <2>1. DOMAIN us = 1..n /\ \A i \in 1..n : us[i] = FindingFromResult(items[i])
    BY <1>9
  <2> HIDE DEF us, items, found
  <2>2. ASSUME NEW i \in 1..n
        PROVE  \E o \in found : us[i].group = o.group /\ us[i].span = o.span
                                 /\ us[i].path = File[o.group]
    <3>1. PICK o \in found : items[i] = Printed(o)
      BY <1>9
    <3> HIDE DEF Printed
    <3> QED
      BY <1>10, <2>1, <3>1
  <2>3. ASSUME NEW o \in found
        PROVE  \E i \in 1..n : us[i].group = o.group /\ us[i].span = o.span
    <3>1. PICK x : x = Printed(o)
      OBVIOUS
    <3>2. x \in R
      BY <3>1
    <3>3. PICK i \in 1..n : items[i] = x
      <4> HIDE DEF R
      <4> QED
        BY <1>9, <3>2
    <3> HIDE DEF Printed
    <3> QED
      BY <1>10, <2>1, <3>1, <3>3
  <2> QED
    BY <2>1, <2>2, <2>3
<1>12. r.findings = Sorted(us) /\ r.used = used
  BY <1>2 DEF Complete
<1> HIDE DEF us, r, items, found, used
<1>13. /\ DOMAIN Sorted(us) = 1..n
       /\ \A k \in 1..n : \E i \in 1..n : Sorted(us)[k] = us[i]
       /\ \A i \in 1..n : \E k \in 1..n : Sorted(us)[k] = us[i]
  <2>1. \A i \in 1..n : us[i].span \in Int
    BY <1>4, <1>11 DEF Matches
  <2> QED
    BY <1>11, <2>1, SortedKeeps
<1>14. \A k \in 1..n : /\ [group |-> Sorted(us)[k].group, span |-> Sorted(us)[k].span] \in found
                       /\ Sorted(us)[k].path = File[Sorted(us)[k].group]
  <2> SUFFICES ASSUME NEW k \in 1..n
               PROVE  /\ [group |-> Sorted(us)[k].group, span |-> Sorted(us)[k].span] \in found
                      /\ Sorted(us)[k].path = File[Sorted(us)[k].group]
    OBVIOUS
  <2>1. PICK i \in 1..n : Sorted(us)[k] = us[i]
    BY <1>13
  <2>2. PICK o \in found : us[i].group = o.group /\ us[i].span = o.span /\ us[i].path = File[o.group]
    BY <1>11
  <2>3. o = [group |-> o.group, span |-> o.span]
    BY <1>4 DEF Matches
  <2> QED
    BY <2>1, <2>2, <2>3
<1>15. ASSUME NEW o \in found
       PROVE  \E k \in 1..n : Sorted(us)[k].group = o.group /\ Sorted(us)[k].span = o.span
  <2>1. PICK i \in 1..n : us[i].group = o.group /\ us[i].span = o.span
    BY <1>11
  <2>2. PICK k \in 1..n : Sorted(us)[k] = us[i]
    BY <1>13
  <2> QED
    BY <2>1, <2>2
<1>16. found \subseteq Matches
  BY <1>4
<1>17. SastOf(Sorted(us), found)
  BY <1>13, <1>14, <1>15, <1>16 DEF SastOf
<1>18. used \in {-1, env.ruleset}
  BY DEF used, AsRead
<1>19. found \in SUBSET world.tree[side]
  BY <1>4
<1>20. r.used \in {-1, env.ruleset} /\ SastOf(r.findings, found)
       /\ (r.used > 0 => found = FoundBy("semgrep", side, r.used))
  BY <1>6, <1>12, <1>17, <1>18
<1> QED
  BY <1>19, <1>20 DEF r

\* PipAuditAdapter.scan: a complete scan is the list of the known
\* vulnerabilities of the dependencies, or nothing.
LEMMA PipAuditHolds ==
    ASSUME TypeOK, NEW side \in Sides, NEW outcome,
           PipAuditScan(side, outcome).status = "complete"
    PROVE  LET r == PipAuditScan(side, outcome)
           IN  /\ r.used \in {-1, env.db}
               /\ \E found \in SUBSET world.deps[side] :
                     /\ ScaOf(r.findings, found)
                     /\ r.used > 0 => found = FoundBy("pip-audit", side, r.used)
<1> DEFINE r == PipAuditScan(side, outcome)
           known == world.deps[side] \cap Known[env.db]
           groups == IF outcome.kind = "nolist" THEN <<>> ELSE SetToSeq(known)
           used == AsRead(env.db, outcome)
           found == IF outcome.kind = "nolist" THEN {} ELSE known
<1>1. r = Complete(FindingsFromPackages(groups), scan.hash, used)
  BY DEF PipAuditScan, PipAuditFromJson, ErrorResult
<1>2. r.findings = FindingsFromPackages(groups) /\ r.used = used
  BY <1>1 DEF Complete
<1>3. env.db \in 1..2 /\ IsFiniteSet(world.deps[side]) /\ world.deps[side] \subseteq ScaGroups
  BY WorldFacts
<1>4. /\ found \in SUBSET world.deps[side] /\ found \subseteq ScaGroups
      /\ used > 0 => found = FoundBy("pip-audit", side, used)
  BY <1>3 DEF FoundBy, AsRead
<1>5. \E n \in Nat : /\ DOMAIN groups = 1..n
                     /\ \A i \in 1..n : groups[i] \in found
                     /\ \A g \in found : \E i \in 1..n : groups[i] = g
  <2>1. CASE outcome.kind = "nolist"
    <3>1. groups = <<>> /\ found = {} /\ DOMAIN groups = 1..0
      BY <2>1
    <3> QED
      BY <3>1
  <2>2. CASE outcome.kind # "nolist"
    <3>1. groups = SetToSeq(known) /\ found = known
      BY <2>2
    <3>2. known \in SUBSET world.deps[side]
      OBVIOUS
    <3> HIDE DEF known, groups, found
    <3>3. IsFiniteSet(known)
      BY <1>3, <3>2, FS_Subset
    <3>4. groups \in Seq(known) /\ \A x \in known : \E i \in DOMAIN groups : groups[i] = x
      BY <3>1, <3>3, SetToSeqOfSet
    <3>5. Len(groups) \in Nat /\ DOMAIN groups = 1..Len(groups)
          /\ \A i \in 1..Len(groups) : groups[i] \in known
      BY <3>4
    <3>6. \A g \in found : \E i \in 1..Len(groups) : groups[i] = g
      BY <3>1, <3>4, <3>5
    <3>7. \A i \in 1..Len(groups) : groups[i] \in found
      BY <3>1, <3>5
    <3> QED
      BY <3>5, <3>6, <3>7
  <2> QED
    BY <2>1, <2>2
<1> HIDE DEF groups, found, used
<1>6. ScaOf(FindingsFromPackages(groups), found)
  <2>1. PICK n \in Nat : /\ DOMAIN groups = 1..n
                         /\ \A i \in 1..n : groups[i] \in found
                         /\ \A g \in found : \E i \in 1..n : groups[i] = g
    BY <1>5
  <2> DEFINE fs == FindingsFromPackages(groups)
  <2>2. DOMAIN fs = 1..n /\ \A i \in 1..n : fs[i].group = groups[i]
    BY <2>1 DEF FindingsFromPackages
  <2> HIDE DEF fs
  <2>3. \A i \in 1..n : fs[i].group \in found
    BY <2>1, <2>2
  <2>4. ASSUME NEW g \in found PROVE \E i \in 1..n : fs[i].group = g
    <3>1. PICK i \in 1..n : groups[i] = g
      BY <2>1
    <3> QED
      BY <2>2, <3>1
  <2>5. found \subseteq ScaGroups
    BY <1>4
  <2>6. ScaOf(fs, found)
    BY <2>2, <2>3, <2>4, <2>5 DEF ScaOf
  <2> QED
    BY <2>6 DEF fs
<1>7. r.used = used /\ used \in {-1, env.db}
  BY <1>2 DEF used, AsRead
<1> HIDE DEF r
<1>8. ScaOf(r.findings, found) /\ (r.used > 0 => found = FoundBy("pip-audit", side, r.used))
  BY <1>2, <1>4, <1>6, <1>7
<1> QED
  BY <1>4, <1>7, <1>8 DEF r

LEMMA HashKept ==
    /\ \A side, o, a : SemgrepScan(side, o, a).hash \in {scan.hash, a}
    /\ \A side, o : PipAuditScan(side, o).hash = scan.hash
<1>1. \A f, h, u : Complete(f, h, u).hash = h
  BY DEF Complete
<1>2. \A h, u : ErrorResult(h, u).hash = h
  BY DEF ErrorResult
<1>3. \A p, h, u : SemgrepFromJson(p, h, u).hash = h
  BY <1>1, <1>2 DEF SemgrepFromJson
<1>4. \A g, m, h, u : PipAuditFromJson(g, m, h, u).hash = h
  BY <1>1, <1>2 DEF PipAuditFromJson
<1>5. ASSUME NEW side, NEW o, NEW a PROVE SemgrepScan(side, o, a).hash \in {scan.hash, a}
  BY <1>2, <1>3 DEF SemgrepScan
<1> QED
  BY <1>2, <1>4, <1>5 DEF PipAuditScan

LEMMA ContentQuiet ==
    ASSUME ContentInv, UNCHANGED <<world, outputs>>, scan'.running => scan'.hash \in 0..2
    PROVE  ContentInv'
  BY DEF ContentInv, ResultHolds, Present, FoundBy

LEMMA ContentRunScan ==
    ASSUME GateInv, ContentInv, NEW outcome \in SemgrepOutcomes \cup PipAuditOutcomes,
           RunScan(outcome)
    PROVE  ContentInv'
<1>0. PICK s, side : s = scan.sensor /\ side = scan.side
  OBVIOUS
<1> DEFINE key == <<side, s>>
<1>1. scan.running /\ scan' = NoScan /\ UNCHANGED world
  BY DEF RunScan
<1>2. ~scan'.running
  BY <1>1 DEF NoScan
<1>3. /\ TypeOK /\ s \in Sensors /\ side \in Sides /\ scan.hash \in 0..2
      /\ env.ruleset \in 1..2 /\ env.db \in 1..2
  BY <1>0, <1>1, WorldFacts DEF GateInv, TypeOK, ContentInv
<1>4. PICK again \in (IF scan.hash = 0 /\ s = "semgrep" THEN RulesetHashes ELSE {0}) :
        LET r == IF s = "semgrep" THEN SemgrepScan(side, outcome, again)
                 ELSE PipAuditScan(side, outcome)
        IN  \/ UNCHANGED outputs
            \/ outputs' = [k \in DOMAIN outputs \cup {key} |->
                              IF k \in DOMAIN outputs THEN outputs[k]
                              ELSE [output |-> r, version |-> ToolVersion(r, outcome)]]
  BY <1>0 DEF RunScan
<1>5. CASE UNCHANGED outputs
  BY <1>1, <1>2, <1>5, ContentQuiet
<1> DEFINE r == IF s = "semgrep" THEN SemgrepScan(side, outcome, again)
                ELSE PipAuditScan(side, outcome)
           o == [output |-> r, version |-> ToolVersion(r, outcome)]
<1>6. again \in 0..2
  BY <1>3, <1>4 DEF RulesetHashes
<1>7. r.hash \in 0..2
  BY <1>3, <1>6, HashKept
<1>8. r.status = "complete" =>
         /\ r.used \in {-1, 1, 2}
         /\ \E found \in SUBSET Present(s, side) :
               HoldsAll(s, r.findings, found) /\ (r.used > 0 => found = FoundBy(s, side, r.used))
  <2>1. CASE s = "semgrep"
    BY <1>3, <2>1, SemgrepHolds DEF Present, HoldsAll
  <2>2. CASE s = "pip-audit"
    BY <1>3, <2>2, PipAuditHolds DEF Present, HoldsAll
  <2> QED
    BY <1>3, <2>1, <2>2 DEF Sensors
<1>9. ResultHolds(s, side, r)
  <2> HIDE DEF r
  <2> QED
    BY <1>7, <1>8 DEF ResultHolds
<1>10. CASE outputs' = [k \in DOMAIN outputs \cup {key} |-> IF k \in DOMAIN outputs THEN outputs[k] ELSE o]
  <2>1. o.output = r
    OBVIOUS
  <2> HIDE DEF o, r
  <2>2. key \notin DOMAIN outputs
    BY <1>0, <1>1 DEF GateInv, ScanIsOpen
  <2>3. /\ DOMAIN outputs' = DOMAIN outputs \cup {key}
        /\ \A k \in DOMAIN outputs : outputs'[k] = outputs[k]
        /\ outputs'[key] = o
    BY <1>10, <2>2
  <2>5. ASSUME NEW d \in Sides, NEW t \in Sensors, <<d, t>> \in DOMAIN outputs'
        PROVE  ResultHolds(t, d, outputs'[<<d, t>>].output)
    <3>1. CASE <<d, t>> \in DOMAIN outputs
      BY <2>3, <3>1 DEF ContentInv
    <3>2. CASE <<d, t>> = key
      <4>1. d = side /\ t = s
        BY <3>2
      <4> QED
        BY <1>9, <2>1, <2>3, <4>1
    <3> QED
      BY <2>3, <2>5, <3>1, <3>2
  <2>6. ASSUME NEW d \in Sides, NEW t \in Sensors, <<d, t>> \in DOMAIN outputs'
        PROVE  ResultHolds(t, d, outputs[<<d, t>>].output)'
    BY <1>1, <2>5, <2>6 DEF ResultHolds, Present, FoundBy
  <2> QED
    BY <1>2, <2>6 DEF ContentInv
<1> QED
  BY <1>4, <1>5, <1>10

LEMMA ContentNext == GateInv /\ ContentInv /\ [Next]_vars => ContentInv'
<1> SUFFICES ASSUME GateInv, ContentInv, [Next]_vars PROVE ContentInv'
  OBVIOUS
<1>1. CASE \E s \in Sensors, side \in Sides : BeginScan(s, side)
  <2>1. PICK s \in Sensors, side \in Sides : BeginScan(s, side)
    BY <1>1
  <2>2. UNCHANGED <<world, outputs>>
    BY <2>1 DEF BeginScan
  <2>3. scan'.hash \in 0..2
    BY <2>1, WorldFacts DEF BeginScan, RulesetHashes, GateInv
  <2> QED
    BY <2>2, <2>3, ContentQuiet
<1>2. CASE \E outcome \in SemgrepOutcomes \cup PipAuditOutcomes : RunScan(outcome)
  BY <1>2, ContentRunScan
<1>3. CASE \/ \E s \in Sensors : SspReport(s)
           \/ EnvironmentChanges
           \/ \E q \in Requests : Check(q)
           \/ NextDay \/ Done \/ UNCHANGED vars
  <2>1. UNCHANGED <<world, scan, outputs>>
    BY <1>3 DEF SspReport, EnvironmentChanges, Check, NextDay, Done, vars
  <2> QED
    BY <2>1, ContentQuiet DEF ContentInv
<1> QED
  BY <1>1, <1>2, <1>3 DEF Next

LEMMA ContentInvariant == Spec => [](GateInv /\ ContentInv)
<1>1. Init => ContentInv
  BY DEF Init, ContentInv, NoScan
<1> QED
  BY <1>1, ContentNext, GateInvariant, PTL DEF Spec

\* A Semgrep scan the adapter calls complete holds every match of the scanned
\* tree once, under its own path, however Semgrep writes paths, orders and
\* repeats matches and wherever the target directory lies: a path that could
\* be read in two ways makes the scan incomplete or is read as it is.  When the
\* payload does not list its results as mappings, those are dropped and the
\* scan holds some of the matches and nothing else.
THEOREM CompleteScansAreWhole == Spec => []CompleteScanIsWhole
<1> DEFINE Shown(M) == {<<m.group, File[m.group], m.span>> : m \in M}
           Held(K) == {<<f.group, f.path, f.span>> : f \in K}
<1>1. GateInv /\ ContentInv => CompleteScanIsWhole
  <2> SUFFICES ASSUME GateInv, ContentInv, NEW side \in Sides,
                      <<side, "semgrep">> \in DOMAIN outputs,
                      outputs[<<side, "semgrep">>].output.status = "complete"
               PROVE  LET o == outputs[<<side, "semgrep">>].output
                          kept == FingerprintedFindings(o.findings)
                      IN  /\ Held(kept) \subseteq Shown(world.tree[side])
                          /\ o.used > 0 =>
                                Held(kept) = Shown({m \in world.tree[side] : m.group \in Detects[o.used]})
                          /\ Cardinality(Fingerprints(kept)) = Cardinality(kept)
    BY DEF CompleteScanIsWhole
  <2> DEFINE o == outputs[<<side, "semgrep">>].output
             kept == FingerprintedFindings(o.findings)
             whole == {m \in world.tree[side] : m.group \in Detects[o.used]}
  <2>1. PICK found \in SUBSET world.tree[side] :
               SastOf(o.findings, found) /\ (o.used > 0 => found = whole)
    BY DEF ContentInv, ResultHolds, Present, HoldsAll, FoundBy, Sensors
  <2> HIDE DEF o, whole
  <2>2. /\ \A f \in kept : [group |-> f.group, span |-> f.span] \in found /\ f.path = File[f.group]
        /\ \A m \in found : \E f \in kept : f.group = m.group /\ f.span = m.span
                                             /\ f.path = File[m.group]
        /\ Cardinality(Fingerprints(kept)) = Cardinality(kept)
    BY <2>1, SastWhole
  <2> HIDE DEF kept
  <2>3. Held(kept) = Shown(found)
    <3>1. ASSUME NEW f \in kept
          PROVE  \E m \in found : <<f.group, f.path, f.span>> = <<m.group, File[m.group], m.span>>
      <4> DEFINE m == [group |-> f.group, span |-> f.span]
      <4>1. m \in found /\ m.group = f.group /\ m.span = f.span /\ f.path = File[f.group]
        BY <2>2
      <4> HIDE DEF m
      <4> QED
        BY <4>1
    <3>2. ASSUME NEW m \in found
          PROVE  \E f \in kept : <<f.group, f.path, f.span>> = <<m.group, File[m.group], m.span>>
      <4>1. PICK f \in kept : f.group = m.group /\ f.span = m.span /\ f.path = File[m.group]
        BY <2>2
      <4> QED
        BY <4>1
    <3> QED
      BY <3>1, <3>2
  <2>4. Shown(found) \subseteq Shown(world.tree[side])
    BY <2>1
  <2>5. o.used > 0 => Shown(found) = Shown(whole)
    BY <2>1
  <2> HIDE DEF Held, Shown
  <2>6. /\ Held(kept) \subseteq Shown(world.tree[side])
        /\ o.used > 0 => Held(kept) = Shown(whole)
    BY <2>3, <2>4, <2>5
  <2> QED
    BY <2>2, <2>6 DEF kept, whole, o
<1> QED
  BY <1>1, ContentInvariant, PTL

-----------------------------------------------------------------------------
(* What is added between two scans                                         *)

\* The findings of a complete scan are finitely many, with fingerprints of
\* their own.
LEMMA FindingsApart ==
    ASSUME GateInv, ContentInv, NEW s \in Sensors, NEW side \in Sides,
           <<side, s>> \in DOMAIN outputs, outputs[<<side, s>>].output.status = "complete"
    PROVE  LET kept == FingerprintedFindings(outputs[<<side, s>>].output.findings)
           IN  IsFiniteSet(kept) /\ \A f, h \in kept : Fingerprint(f) = Fingerprint(h) => f = h
<1> DEFINE o == outputs[<<side, s>>].output
<1>1. PICK found \in SUBSET Present(s, side) : HoldsAll(s, o.findings, found)
  BY DEF ContentInv, ResultHolds
<1>2. CASE s = "semgrep"
  <2>1. SastOf(o.findings, found)
    BY <1>1, <1>2 DEF HoldsAll
  <2> HIDE DEF o
  <2> QED
    BY <2>1, SastWhole DEF o
<1>3. CASE s = "pip-audit"
  <2>1. ScaOf(o.findings, found)
    BY <1>1, <1>3 DEF HoldsAll
  <2>2. found \in SUBSET world.deps[side] /\ IsFiniteSet(world.deps[side])
    BY <1>1, <1>3, WorldFacts DEF Present, GateInv
  <2> HIDE DEF o
  <2>3. IsFiniteSet(found)
    BY <2>2, FS_Subset
  <2> QED
    BY <2>1, <2>3, ScaWhole DEF o
<1> QED
  BY <1>2, <1>3 DEF Sensors

\* Two complete scans with the same rules differ by the growth of each group.
LEMMA AddedIsGrowth ==
    ASSUME GateInv, ContentInv, NEW s \in Sensors, SameReading(s),
           outputs[<<"baseline", s>>].output.status = "complete",
           outputs[<<"candidate", s>>].output.status = "complete",
           NEW g \in Reported(s)
    PROVE  LET A == Added(outputs[<<"candidate", s>>].output.findings,
                          outputs[<<"baseline", s>>].output.findings, g)
           IN  IsFiniteSet(A) /\ Cardinality(A) = Growth(g)
<1> DEFINE b == outputs[<<"baseline", s>>].output
           c == outputs[<<"candidate", s>>].output
           u == c.used
           F(side) == FoundBy(s, side, u)
           A == Added(c.findings, b.findings, g)
<1>1. b.used = u /\ u > 0 /\ u \in {-1, 1, 2}
      /\ HoldsAll(s, b.findings, F("baseline")) /\ HoldsAll(s, c.findings, F("candidate"))
  BY DEF SameReading, Reads, ContentInv, ResultHolds, Sides
<1>2. u \in 1..2
  BY <1>1
<1>3. Detects[u] \subseteq SastGroups /\ Known[u] \subseteq ScaGroups
  BY <1>2, GateConstants
<1>4. CASE s = "semgrep"
  <2>1. g \in Detects[u] /\ g \in SastGroups
    BY <1>3, <1>4 DEF Reported, Reads
  <2>2. SastOf(b.findings, F("baseline")) /\ SastOf(c.findings, F("candidate"))
    BY <1>1, <1>4 DEF HoldsAll
  <2>3. \A side : Has(F(side), g) = {o \in world.tree[side] : o.group = g}
    BY <1>4, <2>1 DEF Has, FoundBy
  <2>4. \A side : Cardinality(Has(F(side), g)) = Count(side, g)
    BY <2>1, <2>3 DEF Count
  <2> HIDE DEF F, b, c, u
  <2>5. LET n == Cardinality(Has(F("candidate"), g)) - Cardinality(Has(F("baseline"), g))
        IN  IsFiniteSet(A) /\ Cardinality(A) = IF n > 0 THEN n ELSE 0
    BY <2>2, SastGrowth
  <2> HIDE DEF A
  <2>6. IsFiniteSet(A) /\ Cardinality(A) = Growth(g)
    BY <2>4, <2>5 DEF Growth
  <2> QED
    BY <2>6 DEF A, b, c
<1>5. CASE s = "pip-audit"
  <2>1. g \in Known[u] /\ g \notin SastGroups
    BY <1>3, <1>5, ScanConstants DEF Reported, Reads
  <2>2. ScaOf(b.findings, F("baseline")) /\ ScaOf(c.findings, F("candidate"))
    BY <1>1, <1>5 DEF HoldsAll
  <2>3. \A side : F(side) = world.deps[side] \cap Known[u]
    BY <1>2, <1>5 DEF FoundBy
  <2>4. \A side : Count(side, g) = IF g \in F(side) THEN 1 ELSE 0
    BY <2>1, <2>3 DEF Count
  <2> HIDE DEF F, b, c, u
  <2>5. IsFiniteSet(F("baseline")) /\ IsFiniteSet(F("candidate"))
    BY <2>3, WorldFacts, FS_Subset DEF GateInv, Sides
  <2>6. IsFiniteSet(A) /\ Cardinality(A) = IF g \in F("candidate") \ F("baseline") THEN 1 ELSE 0
    BY <2>2, <2>5, ScaGrowth
  <2> HIDE DEF A
  <2>7. IsFiniteSet(A) /\ Cardinality(A) = Growth(g)
    BY <2>4, <2>6 DEF Growth
  <2> QED
    BY <2>7 DEF A, b, c
<1> QED
  BY <1>4, <1>5 DEF Sensors

\* `ssp scan` reports exactly the growth of each group, for trees of any size:
\* matches that moved, were reordered or printed twice add nothing, and of
\* several equal ones as many are added as there are more.
THEOREM SspReportsTheGrowth == Spec => []SspAddsTheGrowth
<1>1. GateInv /\ ContentInv => SspAddsTheGrowth
  <2> SUFFICES ASSUME GateInv, ContentInv, NEW s \in Sensors, ssp[s].exit \in {0, 1},
                      SameReading(s), NEW g \in Reported(s)
               PROVE  Cardinality({f \in ssp[s].delta.added : f.group = g}) = Growth(g)
    BY DEF SspAddsTheGrowth
  <2> DEFINE b == outputs[<<"baseline", s>>].output
             c == outputs[<<"candidate", s>>].output
  <2>1. BothScanned(s) /\ ssp[s].delta = ComputeDelta(b, c) /\ ssp[s].exit = SspExitCode(ssp[s].delta.status)
    BY DEF GateInv, SspStandsFor
  <2>2. b.status \in {"complete", "error"} /\ c.status \in {"complete", "error"}
    BY <2>1 DEF BothScanned, GateInv, OutputsComplete
  <2>3. ssp[s].delta.status # "unknown"
    BY <2>1 DEF SspExitCode
  <2>4. b.status = "complete" /\ c.status = "complete"
    BY <2>1, <2>2, <2>3 DEF ComputeDelta
  <2>5. ssp[s].delta.added = NotIn(FingerprintedFindings(c.findings), FingerprintedFindings(b.findings))
    BY <2>1, <2>4, DeltaOfComplete DEF SensorFindings
  <2>6. {f \in ssp[s].delta.added : f.group = g} = Added(c.findings, b.findings, g)
    BY <2>5 DEF Added
  <2> QED
    BY <2>4, <2>6, AddedIsGrowth
<1> QED
  BY <1>1, ContentInvariant, PTL

-----------------------------------------------------------------------------
(* The gate on a later day                                                 *)

\* What the gate printed is what it computes from the files, on day `a`.
Says(q, a) ==
    /\ gate.request = q /\ gate.asOf = a
    /\ a = IF q.asOf = 0 THEN gate.day ELSE q.asOf
    /\ ~UsageError(q)
    /\ gate.final = IF q.flags = "both" THEN CombineVerdict(q.code, EvaluateSecurity(q, a).status)
                    ELSE q.code
    /\ gate.exit = SuiteExitCode(gate.final, q.strict)
    /\ gate.advisory = IF q.payloads = <<>> THEN NoGate
                       ELSE AdvisoryDetail(q.payloads, world.api, world.renames, q.mutes, a)

GateSays ==
    gate.ran => /\ gate.day \in Nat /\ gate.day <= today
                /\ gate.exit # 2 => \E q \in Requests, a \in Int : Says(q, a)

LEMMA EvaluateUnchanged ==
    ASSUME outputs' = outputs, NEW q, NEW a
    PROVE  EvaluateSecurity(q, a)' = EvaluateSecurity(q, a)
  BY DEF EvaluateSecurity, Recorded, SensorResult, Drifted

LEMMA SaysNext == GateInv /\ GateSays /\ [Next]_vars => GateSays'
<1> SUFFICES ASSUME GateInv, GateSays, [Next]_vars PROVE GateSays'
  OBVIOUS
<1>0. today \in Nat
  BY GateConstants DEF GateInv, TypeOK
<1>1. CASE \E q \in Requests : Check(q)
  <2>1. PICK q \in Requests : Check(q)
    BY <1>1
  <2>2. /\ gate'.ran /\ gate'.request = q /\ gate'.day = today
        /\ UsageError(q) => gate'.exit = 2
        /\ ~UsageError(q) =>
             /\ gate'.exit = SuiteExitCode(Verdict(q), q.strict)
             /\ gate'.final = Verdict(q)
             /\ gate'.asOf = AsOf(q)
             /\ gate'.advisory = IF q.payloads = <<>> THEN NoGate
                                 ELSE AdvisoryDetail(q.payloads, world.api, world.renames,
                                                     q.mutes, AsOf(q))
        /\ UNCHANGED <<world, outputs, today>>
    BY <2>1, CheckShape
  <2>3. PICK a : a = AsOf(q)
    OBVIOUS
  <2>4. a = IF q.asOf = 0 THEN today ELSE q.asOf
    BY <2>3 DEF AsOf
  <2>5. a \in Int
    BY <1>0, <2>4, GateConstants
  <2>6. ASSUME gate'.exit # 2 PROVE Says(q, a)'
    <3>1. ~UsageError(q)
      BY <2>2, <2>6
    <3>2. EvaluateSecurity(q, a)' = EvaluateSecurity(q, a)
      BY <2>2, EvaluateUnchanged
    <3>3. ~UsageError(q)'
      BY <3>1 DEF UsageError, StateRejected, SuppressionsRejected, PayloadRaises, MutesRejected
    <3>4. gate'.final = IF q.flags = "both" THEN CombineVerdict(q.code, EvaluateSecurity(q, a).status)
                        ELSE q.code
      BY <2>2, <2>3, <3>1 DEF Verdict
    <3> QED
      BY <2>2, <2>3, <2>4, <3>1, <3>2, <3>3, <3>4 DEF Says
  <2> QED
    BY <1>0, <2>2, <2>5, <2>6 DEF GateSays
<1>2. CASE ~\E q \in Requests : Check(q)
  <2>1. gate' = gate /\ (gate.ran => UNCHANGED <<world, outputs, ssp>>)
    BY <1>2, OtherSteps
  <2>2. today' \in Nat /\ today <= today'
    <3>1. CASE \E s \in Sensors, side \in Sides : BeginScan(s, side)
      BY <1>0, <3>1 DEF BeginScan
    <3>2. CASE \E outcome \in SemgrepOutcomes \cup PipAuditOutcomes : RunScan(outcome)
      BY <1>0, <3>2 DEF RunScan
    <3>3. CASE \E s \in Sensors : SspReport(s)
      BY <1>0, <3>3 DEF SspReport
    <3>4. CASE EnvironmentChanges \/ NextDay \/ Done \/ UNCHANGED vars
      BY <1>0, <3>4 DEF EnvironmentChanges, NextDay, Done, vars
    <3> QED
      BY <1>2, <3>1, <3>2, <3>3, <3>4 DEF Next
  <2> SUFFICES ASSUME gate.ran
               PROVE  /\ gate'.day \in Nat /\ gate'.day <= today'
                      /\ gate'.exit # 2 => \E q \in Requests, a \in Int : Says(q, a)'
    BY <2>1 DEF GateSays
  <2>3. gate'.day \in Nat /\ gate'.day <= today'
    BY <1>0, <2>1, <2>2 DEF GateSays
  <2>4. ASSUME gate'.exit # 2 PROVE \E q \in Requests, a \in Int : Says(q, a)'
    <3>1. PICK q \in Requests, a \in Int : Says(q, a)
      BY <2>1, <2>4 DEF GateSays
    <3>2. EvaluateSecurity(q, a)' = EvaluateSecurity(q, a)
      BY <2>1, EvaluateUnchanged
    <3>3. Says(q, a)'
      BY <2>1, <3>1, <3>2 DEF Says
    <3> QED
      BY <3>3
  <2> QED
    BY <2>3, <2>4
<1> QED
  BY <1>1, <1>2

LEMMA SaysInvariant == Spec => [](GateInv /\ ContentInv /\ GateSays)
<1>1. Init => GateSays
  BY DEF Init, GateSays, NoGate
<1> QED
  BY <1>1, SaysNext, ContentInvariant, PTL DEF Spec

-----------------------------------------------------------------------------
(* A gate that passes                                                      *)

LEMMA PassMeansPass ==
    ASSUME NEW code \in {"pass", "repair", "fail", "unknown"},
           NEW st \in {"pass", "fail", "unknown"}, NEW strict,
           SuiteExitCode(CombineVerdict(code, st), strict) = 0
    PROVE  st = "pass"
<1>1. CombineVerdict(code, st) \notin {"unknown", "fail"}
  BY DEF SuiteExitCode
<1> QED
  BY <1>1 DEF CombineVerdict, SuiteRank

LEMMA StatusOf ==
    ASSUME NEW q, NEW a
    PROVE  /\ EvaluateSecurity(q, a).status \in {"pass", "fail", "unknown"}
           /\ EvaluateSecurity(q, a).status = "pass" =>
                 \A s \in Recorded("baseline", q) \cup Recorded("candidate", q) :
                    SensorResult(q, a, s).status \notin {"unknown", "fail"}
<1> DEFINE e == EvaluateSecurity(q, a)
<1>1. e.status = AggregateStatus(StatusesOf(e))
  BY EvaluateShape
<1>2. /\ DOMAIN e.sensors = Recorded("baseline", q) \cup Recorded("candidate", q)
      /\ \A s \in DOMAIN e.sensors : e.sensors[s] = SensorResult(q, a, s)
  BY EvaluateShape
<1> HIDE DEF e
<1>3. e.status \in {"pass", "fail", "unknown"}
  BY <1>1 DEF AggregateStatus
<1>4. e.status = "pass" => "unknown" \notin StatusesOf(e) /\ "fail" \notin StatusesOf(e)
  BY <1>1 DEF AggregateStatus
<1>5. \A s \in DOMAIN e.sensors : e.sensors[s].status \in StatusesOf(e)
  BY DEF StatusesOf
<1> QED
  BY <1>2, <1>3, <1>4, <1>5 DEF e

\* No more findings of a group are added than have suppressions of their own.
LEMMA SuppressionsCount ==
    ASSUME GateInv, ContentInv, NEW q \in Requests, NEW a \in Int, NEW s \in Sensors,
           SensorResult(q, a, s).status = "pass", SameReading(s), NEW g \in Reported(s),
           Violates(q.policy, [group |-> g])
    PROVE  Growth(g) <= Cardinality({x \in q.policy.suppressions :
                                        x.id[1] = s /\ x.id[2] = g /\ x.expires >= a})
<1> DEFINE b == outputs[<<"baseline", s>>].output
           c == outputs[<<"candidate", s>>].output
           r == SensorResult(q, a, s)
           A == Added(c.findings, b.findings, g)
           X == {x \in q.policy.suppressions : x.id[1] = s /\ x.id[2] = g /\ x.expires >= a}
           new == NotIn(FingerprintedFindings(c.findings), FingerprintedFindings(b.findings))
<1>1. r.status # "unknown"
  OBVIOUS
<1>2. /\ BothScanned(s) /\ b.status = "complete" /\ c.status = "complete"
      /\ r.added = {f \in NotIn(SensorFindings(c), SensorFindings(b)) :
                      CanonicalId(s, f) \notin ActiveSuppressions(q.policy, a)}
      /\ r.status = IF \E f \in r.added : Violates(q.policy, f) THEN "fail" ELSE "pass"
  BY <1>1, JudgedMeansCompared
<1>3. NotIn(SensorFindings(c), SensorFindings(b)) = new
  BY <1>2 DEF SensorFindings
<1>4. \A f \in r.added : ~Violates(q.policy, f)
  BY <1>2
<1>5. IsFiniteSet(A) /\ Cardinality(A) = Growth(g)
  BY <1>2, AddedIsGrowth
<1>6. \A f, h \in FingerprintedFindings(c.findings) : Fingerprint(f) = Fingerprint(h) => f = h
  BY <1>2, FindingsApart DEF BothScanned, Sides
<1>7. \A f \in A : f \in new /\ f.group = g /\ f \in FingerprintedFindings(c.findings)
  BY DEF Added, NotIn
<1>8. IsFiniteSet(X)
  BY GateConstants, FS_Subset
<1> HIDE DEF r, b, c, A, new
<1>9. ASSUME NEW f \in A PROVE \E x \in X : x.id = CanonicalId(s, f)
  <2>1. f \in new /\ f.group = g
    BY <1>7
  <2>2. Violates(q.policy, f)
    BY <2>1 DEF Violates
  <2>3. CanonicalId(s, f) \in ActiveSuppressions(q.policy, a)
    BY <1>2, <1>3, <1>4, <2>1, <2>2
  <2>4. PICK x \in q.policy.suppressions : x.expires >= a /\ x.id = CanonicalId(s, f)
    BY <2>3 DEF ActiveSuppressions
  <2>5. CanonicalId(s, f)[1] = s /\ CanonicalId(s, f)[2] = g
    BY <2>1 DEF CanonicalId
  <2> QED
    BY <2>4, <2>5
<1> DEFINE m == [f \in A |-> CHOOSE x \in X : x.id = CanonicalId(s, f)]
<1>10. m \in [A -> X] /\ \A f \in A : m[f].id = CanonicalId(s, f)
  BY <1>9
<1>11. \A f, h \in A : m[f] = m[h] => f = h
  <2> SUFFICES ASSUME NEW f \in A, NEW h \in A, m[f] = m[h] PROVE f = h
    OBVIOUS
  <2>1. CanonicalId(s, f) = CanonicalId(s, h)
    BY <1>10
  <2>2. Fingerprint(f) = Fingerprint(h)
    BY <2>1 DEF CanonicalId, Fingerprint
  <2> QED
    BY <1>6, <1>7, <2>2
<1> HIDE DEF m, X
<1>12. m \in Injection(A, X)
  BY <1>10, <1>11 DEF Injection, IsInjective
<1>13. Cardinality(A) <= Cardinality(X)
  BY <1>8, <1>12, FS_Injection
<1> QED
  BY <1>5, <1>13 DEF X

\* Honest hashes that are compared and equal are the same reading.
LEMMA ComparedIsSameReading ==
    ASSUME GateInv, ContentInv, NEW q \in Requests, NEW s \in Sensors, ~Drifted(q, s),
           BothScanned(s), DriftFields(q.policy, s).hash, HonestHashes(s),
           outputs[<<"candidate", s>>].output.status = "complete"
    PROVE  SameReading(s)
<1> DEFINE b == outputs[<<"baseline", s>>].output
           c == outputs[<<"candidate", s>>].output
<1>1. b.hash = c.hash
  BY DEF Drifted
<1>2. b.hash = b.used /\ c.hash = c.used
  BY DEF HonestHashes, Reads, Sides
<1>3. c.hash \in 0..2 /\ c.used \in {-1, 1, 2}
  BY DEF ContentInv, ResultHolds, BothScanned, Sides
<1>4. c.used > 0
  BY <1>2, <1>3
<1> QED
  BY <1>1, <1>2, <1>4 DEF SameReading, Reads, BothScanned

\* A check that exits 0 leaves nothing unexplained, for any trees, policy and
\* history of scans: each sensor of either file completed on both sides, and
\* a group the policy fails on grew by no more than its active suppressions,
\* unless a hash is not that of what was read or the policy ignores hashes.
THEOREM ExitZeroIsEarned == Spec => []ExitZeroMeansNothingNew
<1>1. GateInv /\ ContentInv /\ GateSays => ExitZeroMeansNothingNew
  <2> SUFFICES ASSUME GateInv, ContentInv, GateSays, gate.ran, gate.exit = 0,
                      gate.request.flags = "both",
                      NEW s \in Recorded("baseline", gate.request) \cup Recorded("candidate", gate.request)
               PROVE  LET q == gate.request
                      IN  /\ s \in Recorded("baseline", q) \cap Recorded("candidate", q)
                          /\ \A side \in Sides : outputs[<<side, s>>].output.status = "complete"
                          /\ HonestHashes(s) /\ DriftFields(q.policy, s).hash =>
                                \A g \in Reported(s) :
                                    Violates(q.policy, [group |-> g]) =>
                                        Growth(g) <= Cardinality({x \in q.policy.suppressions :
                                            x.id[1] = s /\ x.id[2] = g /\ x.expires >= gate.asOf})
    BY DEF ExitZeroMeansNothingNew
  <2>1. PICK q \in Requests, a \in Int : Says(q, a)
    BY DEF GateSays
  <2>2. gate.request = q /\ gate.asOf = a
        /\ SuiteExitCode(CombineVerdict(q.code, EvaluateSecurity(q, a).status), q.strict) = 0
    BY <2>1 DEF Says
  <2>3. q.code \in {"pass", "repair", "fail", "unknown"}
    BY GateConstants
  <2>4. EvaluateSecurity(q, a).status = "pass"
    BY <2>2, <2>3, PassMeansPass, StatusOf
  <2> DEFINE r == SensorResult(q, a, s)
  <2>5. s \in Recorded("baseline", q) \cup Recorded("candidate", q) /\ s \in Sensors
    BY <2>2 DEF Recorded
  <2>6. r.status \notin {"unknown", "fail"}
    BY <2>4, <2>5, StatusOf
  <2>7. /\ ~Drifted(q, s) /\ BothScanned(s)
        /\ s \in Recorded("baseline", q) \cap Recorded("candidate", q)
        /\ outputs[<<"baseline", s>>].output.status = "complete"
        /\ outputs[<<"candidate", s>>].output.status = "complete"
        /\ r.status = IF \E f \in r.added : Violates(q.policy, f) THEN "fail" ELSE "pass"
    BY <2>6, JudgedMeansCompared
  <2>8. r.status = "pass"
    BY <2>6, <2>7
  <2>9. ASSUME HonestHashes(s), DriftFields(q.policy, s).hash, NEW g \in Reported(s),
               Violates(q.policy, [group |-> g])
        PROVE  Growth(g) <= Cardinality({x \in q.policy.suppressions :
                                            x.id[1] = s /\ x.id[2] = g /\ x.expires >= a})
    <3>1. SameReading(s)
      BY <2>5, <2>7, <2>9, ComparedIsSameReading
    <3> QED
      BY <2>5, <2>8, <2>9, <3>1, SuppressionsCount
  <2> QED
    BY <2>2, <2>7, <2>9 DEF Sides
<1> QED
  BY <1>1, SaysInvariant, PTL

-----------------------------------------------------------------------------
(* The gate never becomes more lenient                                     *)

\* The added findings the count policy counts.
Counted(q, a) ==
    LET ids == Recorded("baseline", q) \cup Recorded("candidate", q)
    IN  UNION {{<<s, f>> : f \in SensorResult(q, a, s).added} : s \in ids}

LEMMA TooManyOf ==
    ASSUME NEW q, NEW a
    PROVE  EvaluateSecurity(q, a).tooMany = TooMany(q.policy, Cardinality(Counted(q, a)))
<1> DEFINE ids == Recorded("baseline", q) \cup Recorded("candidate", q)
           results == [s \in ids |-> SensorResult(q, a, s)]
<1>1. EvaluateSecurity(q, a).tooMany =
          TooMany(q.policy, Cardinality(UNION {{<<s, f>> : f \in results[s].added} : s \in ids}))
  BY DEF EvaluateSecurity
<1>2. UNION {{<<s, f>> : f \in results[s].added} : s \in ids} = Counted(q, a)
  <2>1. \A s \in ids : results[s] = SensorResult(q, a, s)
    OBVIOUS
  <2>2. Counted(q, a) = UNION {{<<s, f>> : f \in SensorResult(q, a, s).added} : s \in ids}
    BY DEF Counted
  <2> HIDE DEF ids, results
  <2>3. {{<<s, f>> : f \in results[s].added} : s \in ids}
            = {{<<s, f>> : f \in SensorResult(q, a, s).added} : s \in ids}
    BY <2>1
  <2> QED
    BY <2>2, <2>3
<1> QED
  BY <1>1, <1>2

\* With the days a sensor's suppressions expire, and nothing else changes.
LEMMA SensorLater ==
    ASSUME NEW q \in Requests, NEW a \in Int, NEW b \in Int, a <= b, NEW s
    PROVE  LET r == SensorResult(q, a, s)
               n == SensorResult(q, b, s)
           IN  /\ r.added \subseteq n.added
               /\ r.status \in {"pass", "fail", "unknown"}
               /\ n.status \in {"pass", "fail", "unknown"}
               /\ r.status = "unknown" <=> n.status = "unknown"
               /\ r.status = "fail" => n.status = "fail"
<1> DEFINE r == SensorResult(q, a, s)
           n == SensorResult(q, b, s)
           new == NotIn(SensorFindings(outputs[<<"candidate", s>>].output),
                        SensorFindings(outputs[<<"baseline", s>>].output))
           Open(d) == {f \in new : CanonicalId(s, f) \notin ActiveSuppressions(q.policy, d)}
           Of(d) == [status |-> IF \E f \in Open(d) : Violates(q.policy, f) THEN "fail" ELSE "pass",
                     added |-> Open(d), suppressed |-> new \ Open(d), drift |-> FALSE]
<1>1. ActiveSuppressions(q.policy, b) \subseteq ActiveSuppressions(q.policy, a)
  <2>1. \A x \in q.policy.suppressions : x.expires \in Int
    BY GateConstants
  <2>2. \A x \in q.policy.suppressions : x.expires >= b => x.expires >= a
    BY <2>1
  <2> QED
    BY <2>2 DEF ActiveSuppressions
<1>2. Open(a) \subseteq Open(b)
  BY <1>1
<1>3. \/ r = Unknown(TRUE) /\ n = Unknown(TRUE)
      \/ r = Unknown(FALSE) /\ n = Unknown(FALSE)
      \/ r = Of(a) /\ n = Of(b)
  BY DEF SensorResult
<1>4. CASE r = n /\ r \in {Unknown(TRUE), Unknown(FALSE)}
  BY <1>4 DEF Unknown
<1>5. CASE r = Of(a) /\ n = Of(b)
  <2>1. /\ r.added = Open(a) /\ n.added = Open(b)
        /\ r.status = IF \E f \in Open(a) : Violates(q.policy, f) THEN "fail" ELSE "pass"
        /\ n.status = IF \E f \in Open(b) : Violates(q.policy, f) THEN "fail" ELSE "pass"
    BY <1>5
  <2> HIDE DEF r, n, Open
  <2> QED
    BY <1>2, <2>1 DEF r, n
<1> QED
  BY <1>3, <1>4, <1>5

\* What is counted is finite.
LEMMA CountedFinite ==
    ASSUME GateInv, ContentInv, NEW q, NEW a
    PROVE  IsFiniteSet(Counted(q, a))
<1> DEFINE ids == Recorded("baseline", q) \cup Recorded("candidate", q)
           Pairs(s) == {<<s, f>> : f \in SensorResult(q, a, s).added}
           all == {Pairs(s) : s \in ids}
<1>1. IsFiniteSet(ids)
  <2>1. IsFiniteSet(Sensors)
    <3>1. IsFiniteSet({"semgrep"})
      BY FS_Singleton
    <3>2. Sensors = {"semgrep"} \cup {"pip-audit"}
      BY DEF Sensors
    <3> QED
      BY <3>1, <3>2, FS_AddElement
  <2> QED
    BY <2>1, FS_Subset DEF Recorded
<1>2. ASSUME NEW s \in ids PROVE IsFiniteSet(Pairs(s))
  <2> DEFINE r == SensorResult(q, a, s)
  <2>1. IsFiniteSet(r.added)
    <3>1. CASE r.status = "unknown"
      <4>1. r.added = {}
        BY <3>1 DEF SensorResult, Unknown
      <4> QED
        BY <4>1, FS_EmptySet
    <3>2. CASE r.status # "unknown"
      <4> DEFINE c == outputs[<<"candidate", s>>].output
                 b == outputs[<<"baseline", s>>].output
      <4>1. /\ BothScanned(s) /\ c.status = "complete"
            /\ r.added = {f \in NotIn(SensorFindings(c), SensorFindings(b)) :
                            CanonicalId(s, f) \notin ActiveSuppressions(q.policy, a)}
        BY <3>2, JudgedMeansCompared
      <4>2. IsFiniteSet(FingerprintedFindings(c.findings))
        BY <4>1, FindingsApart DEF Recorded, BothScanned, Sides
      <4>3. r.added \in SUBSET FingerprintedFindings(c.findings)
        BY <4>1 DEF NotIn, SensorFindings
      <4> QED
        BY <4>2, <4>3, FS_Subset
    <3> QED
      BY <3>1, <3>2
  <2> DEFINE m == [f \in r.added |-> <<s, f>>]
  <2>2. m \in [r.added -> Pairs(s)] /\ \A t \in Pairs(s) : \E f \in r.added : m[f] = t
    OBVIOUS
  <2> HIDE DEF m, r, Pairs
  <2> QED
    BY <2>1, <2>2, FiniteImage
<1>3. IsFiniteSet(all)
  <2> DEFINE m == [s \in ids |-> Pairs(s)]
  <2>1. m \in [ids -> all] /\ \A t \in all : \E s \in ids : m[s] = t
    OBVIOUS
  <2> HIDE DEF m, ids, all
  <2> QED
    BY <1>1, <2>1, FiniteImage
<1>4. IsFiniteSet(UNION all)
  <2>1. \A T \in all : IsFiniteSet(T)
    BY <1>2
  <2> HIDE DEF all
  <2> QED
    BY <1>3, <2>1, FS_UNION
<1> QED
  BY <1>4 DEF Counted

\* The aggregate of a later day is at least as severe.
LEMMA StatusLater ==
    ASSUME GateInv, ContentInv, NEW q \in Requests, NEW a \in Int, NEW b \in Int, a <= b
    PROVE  LET before == EvaluateSecurity(q, a).status
               after == EvaluateSecurity(q, b).status
           IN  /\ before = "unknown" => after = "unknown"
               /\ before = "fail" => after \in {"fail", "unknown"}
<1> DEFINE ids == Recorded("baseline", q) \cup Recorded("candidate", q)
           e == EvaluateSecurity(q, a)
           n == EvaluateSecurity(q, b)
<1>1. \A s : /\ SensorResult(q, a, s).added \subseteq SensorResult(q, b, s).added
             /\ SensorResult(q, a, s).status = "unknown" => SensorResult(q, b, s).status = "unknown"
             /\ SensorResult(q, a, s).status = "fail" => SensorResult(q, b, s).status = "fail"
  BY SensorLater
<1>2. e.tooMany => n.tooMany
  <2>1. Counted(q, a) \in SUBSET Counted(q, b)
    BY <1>1 DEF Counted
  <2>2. IsFiniteSet(Counted(q, b))
    BY CountedFinite
  <2>3. /\ Cardinality(Counted(q, a)) <= Cardinality(Counted(q, b))
        /\ IsFiniteSet(Counted(q, a))
    BY <2>1, <2>2, FS_Subset
  <2>4. Cardinality(Counted(q, a)) \in Nat /\ Cardinality(Counted(q, b)) \in Nat
    BY <2>2, <2>3, FS_CardinalityType
  <2>5. q.policy.maxCount \in Int
    BY GateConstants
  <2>6. /\ e.tooMany = TooMany(q.policy, Cardinality(Counted(q, a)))
        /\ n.tooMany = TooMany(q.policy, Cardinality(Counted(q, b)))
    BY TooManyOf
  <2> HIDE DEF e, n
  <2>7. TooMany(q.policy, Cardinality(Counted(q, a))) => TooMany(q.policy, Cardinality(Counted(q, b)))
    BY <2>3, <2>4, <2>5 DEF TooMany
  <2> QED
    BY <2>6, <2>7
<1>3. e.status = AggregateStatus(StatusesOf(e))
  BY EvaluateShape
<1>4. n.status = AggregateStatus(StatusesOf(n))
  BY EvaluateShape
<1>5. /\ DOMAIN e.sensors = ids /\ \A s \in ids : e.sensors[s] = SensorResult(q, a, s)
      /\ DOMAIN n.sensors = ids /\ \A s \in ids : n.sensors[s] = SensorResult(q, b, s)
  BY EvaluateShape
<1> HIDE DEF e, n, ids
<1>6. "unknown" \in StatusesOf(e) => "unknown" \in StatusesOf(n)
  BY <1>1, <1>5 DEF StatusesOf
<1>7. "fail" \in StatusesOf(e) => "fail" \in StatusesOf(n)
  <2>1. CASE e.tooMany
    BY <1>2, <2>1 DEF StatusesOf
  <2>2. CASE ~e.tooMany
    BY <1>1, <1>5, <2>2 DEF StatusesOf
  <2> QED
    BY <2>1, <2>2
<1>8. /\ e.status = "unknown" => n.status = "unknown"
      /\ e.status = "fail" => n.status \in {"fail", "unknown"}
  BY <1>3, <1>4, <1>6, <1>7 DEF AggregateStatus
<1> QED
  BY <1>8 DEF e, n

LEMMA RankLater ==
    ASSUME NEW code \in {"pass", "repair", "fail", "unknown"},
           NEW before \in {"pass", "fail", "unknown"}, NEW after \in {"pass", "fail", "unknown"},
           before = "unknown" => after = "unknown",
           before = "fail" => after \in {"fail", "unknown"}
    PROVE  SuiteRank[CombineVerdict(code, after)] >= SuiteRank[CombineVerdict(code, before)]
  BY DEF CombineVerdict, SuiteRank

LEMMA MutesLater ==
    ASSUME NEW q \in Requests, NEW a \in Int, NEW b \in Int, a <= b, NEW api, NEW renames
    PROVE  AdvisoryDetail(q.payloads, api, renames, q.mutes, b).muted
               \subseteq AdvisoryDetail(q.payloads, api, renames, q.mutes, a).muted
<1>1. \A x \in q.mutes : x.expires \in Int
  BY GateConstants
<1>2. ActiveMutes(q.mutes, b) \subseteq ActiveMutes(q.mutes, a)
  BY <1>1 DEF ActiveMutes
<1> QED
  BY <1>2 DEF AdvisoryDetail

\* Running the gate again on the same files never makes it more lenient and
\* never hides an advisory finding it showed: in every history of scans and for
\* every policy, suppressions and mutes only expire with the days.
THEOREM GateOnlyTightens == Spec => LaterNeverMoreLenient
<1> DEFINE Tightens ==
        gate.ran /\ gate.exit # 2 /\ gate' # gate =>
            /\ SuiteRank[gate'.final] >= SuiteRank[gate.final]
            /\ gate.request.payloads # <<>> => gate'.advisory.muted \subseteq gate.advisory.muted
<1>1. GateInv /\ ContentInv /\ GateSays /\ [Next]_vars => [Tightens]_vars
  <2> SUFFICES ASSUME GateInv, ContentInv, GateSays, [Next]_vars,
                      gate.ran, gate.exit # 2, gate' # gate
               PROVE  /\ SuiteRank[gate'.final] >= SuiteRank[gate.final]
                      /\ gate.request.payloads # <<>> =>
                            gate'.advisory.muted \subseteq gate.advisory.muted
    OBVIOUS
  <2>1. PICK q \in Requests : Check(q)
    BY OtherSteps
  <2>2. PICK p \in Requests, a \in Int : Says(p, a)
    BY DEF GateSays
  <2>3. p = q /\ gate.request = q /\ today > gate.day
    BY <2>1, <2>2, CheckShape DEF Says
  <2>4. ~UsageError(q) /\ a = IF q.asOf = 0 THEN gate.day ELSE q.asOf
    BY <2>2, <2>3 DEF Says
  <2>5. PICK b : b = AsOf(q)
    OBVIOUS
  <2>6. b = IF q.asOf = 0 THEN today ELSE q.asOf
    BY <2>5 DEF AsOf
  <2>7. b \in Int /\ a <= b
    <3>1. today \in Nat /\ gate.day \in Nat /\ q.asOf \in Int
      BY GateConstants DEF GateInv, TypeOK, GateSays
    <3> QED
      BY <2>3, <2>4, <2>6, <3>1
  <2>8. /\ gate'.final = IF q.flags = "both"
                         THEN CombineVerdict(q.code, EvaluateSecurity(q, b).status) ELSE q.code
        /\ gate'.advisory = IF q.payloads = <<>> THEN NoGate
                            ELSE AdvisoryDetail(q.payloads, world.api, world.renames, q.mutes, b)
    BY <2>1, <2>4, <2>5, CheckShape DEF Verdict
  <2>9. /\ gate.final = IF q.flags = "both"
                        THEN CombineVerdict(q.code, EvaluateSecurity(q, a).status) ELSE q.code
        /\ gate.advisory = IF q.payloads = <<>> THEN NoGate
                           ELSE AdvisoryDetail(q.payloads, world.api, world.renames, q.mutes, a)
    BY <2>2, <2>3 DEF Says
  <2>10. q.code \in {"pass", "repair", "fail", "unknown"}
    BY GateConstants
  <2>11. SuiteRank[gate'.final] >= SuiteRank[gate.final]
    <3>1. CASE q.flags = "both"
      <4>1. SuiteRank[CombineVerdict(q.code, EvaluateSecurity(q, b).status)]
               >= SuiteRank[CombineVerdict(q.code, EvaluateSecurity(q, a).status)]
        BY <2>7, <2>10, StatusOf, StatusLater, RankLater
      <4> QED
        BY <2>8, <2>9, <3>1, <4>1
    <3>2. CASE q.flags # "both"
      <4>1. gate'.final = q.code /\ gate.final = q.code
        BY <2>8, <2>9, <3>2
      <4> QED
        BY <2>10, <4>1 DEF SuiteRank
    <3> QED
      BY <3>1, <3>2
  <2>12. q.payloads # <<>> => gate'.advisory.muted \subseteq gate.advisory.muted
    BY <2>7, <2>8, <2>9, MutesLater
  <2> QED
    BY <2>3, <2>11, <2>12
<1> QED
  BY <1>1, SaysInvariant, PTL DEF Spec, LaterNeverMoreLenient

-----------------------------------------------------------------------------
(* The ordinals of a scout's items                                         *)

\* Among start, start + 1, ... there is a number that is not reserved, not
\* further away than there are reserved ones.
LEMMA NextFree ==
    ASSUME NEW start \in Nat, NEW reserved, IsFiniteSet(reserved)
    PROVE  /\ NextFreeOrdinal(start, reserved) \in Nat
           /\ NextFreeOrdinal(start, reserved) \notin reserved
<1> DEFINE c == Cardinality(reserved)
           T == {n \in start..(start + c) : n \notin reserved}
<1>1. c \in Nat
  BY FS_CardinalityType
<1> HIDE DEF c
<1>2. T # {}
  <2> SUFFICES ASSUME T = {} PROVE FALSE
    OBVIOUS
  <2>1. (start..(start + c)) \in SUBSET reserved
    OBVIOUS
  <2>2. Cardinality(start..(start + c)) = c + 1
    <3>1. Cardinality(start..(start + c))
             = IF start > start + c THEN 0 ELSE start + c - start + 1
      BY <1>1, FS_Interval
    <3> QED
      BY <1>1, <3>1
  <2>3. Cardinality(start..(start + c)) <= c
    BY <2>1, FS_Subset DEF c
  <2> QED
    BY <1>1, <2>2, <2>3
<1>3. T \in SUBSET Nat
  BY <1>1
<1> HIDE DEF T
<1>4. PICK x \in T : \A y \in T : x <= y
  BY <1>2, <1>3, LeastNumber
<1>5. x \in start..(start + c) /\ x \notin reserved
  BY DEF T
<1>6. \A m \in start..(x - 1) : m \in reserved
  <2> SUFFICES ASSUME NEW m \in start..(x - 1), m \notin reserved PROVE FALSE
    OBVIOUS
  <2>1. m \in T
    BY <1>1, <1>5 DEF T
  <2> QED
    BY <1>1, <1>4, <1>5, <2>1
<1>7. \E n \in start..(start + c) : n \notin reserved /\ \A m \in start..(n - 1) : m \in reserved
  BY <1>5, <1>6
<1>8. NextFreeOrdinal(start, reserved) \in start..(start + c)
      /\ NextFreeOrdinal(start, reserved) \notin reserved
  BY <1>7 DEF NextFreeOrdinal, c
<1> QED
  BY <1>1, <1>8

LEMMA LatestOf ==
    ASSUME NEW n \in Int, NEW B \in SUBSET (1..n), B # {}
    PROVE  Max(B) \in B
<1> DEFINE T == {n - b : b \in B}
<1>1. T \in SUBSET Nat /\ T # {}
  <2>1. \A b \in B : n - b \in Nat
    <3> SUFFICES ASSUME NEW b \in B PROVE n - b \in Nat
      OBVIOUS
    <3>1. b \in 1..n
      OBVIOUS
    <3> QED
      BY <3>1
  <2> QED
    BY <2>1
<1> HIDE DEF T
<1>2. PICK x \in T : \A y \in T : x <= y
  BY <1>1, LeastNumber
<1>3. PICK b \in B : x = n - b
  BY DEF T
<1>4. \A d \in B : b >= d
  <2> SUFFICES ASSUME NEW d \in B PROVE b >= d
    OBVIOUS
  <2>1. n - d \in T
    BY DEF T
  <2> QED
    BY <1>2, <1>3, <2>1
<1> QED
  BY <1>4 DEF Max

\* The ordinal of an item depends on those of the items before it.
LEMMA OrdinalLooksBack ==
    ASSUME NEW fs, NEW i \in Int, NEW g, NEW h, \A j \in 1..(i - 1) : g[j] = h[j]
    PROVE  OrdinalOf(fs, g, i) = OrdinalOf(fs, h, i)
<1> DEFINE B == ImplicitBefore(fs, i)
<1>1. B \in SUBSET (1..(i - 1))
  BY DEF ImplicitBefore
<1> HIDE DEF B
<1>2. {g[j] : j \in B} = {h[j] : j \in B}
  BY <1>1
<1>3. B # {} => g[Max(B)] = h[Max(B)]
  BY <1>1, LatestOf, i - 1 \in Int
<1>4. NextOrdinal(fs, g, i) = NextOrdinal(fs, h, i)
  BY <1>3 DEF NextOrdinal, B
<1>5. SeenOrdinals(fs, g, i) = SeenOrdinals(fs, h, i)
  BY <1>2 DEF SeenOrdinals, B
<1> QED
  BY <1>4, <1>5 DEF OrdinalOf

\* The loop gives every item its ordinal.
LEMMA OrdinalsGiven ==
    ASSUME NEW fs, FindingList(fs)
    PROVE  /\ DOMAIN Ordinals(fs) = DOMAIN fs
           /\ \A i \in DOMAIN fs : Ordinals(fs)[i] = OrdinalOf(fs, Ordinals(fs), i)
<1> DEFINE L == Len(fs)
           Given(g, n) == g = [i \in 1..n |-> OrdinalOf(fs, g, i)]
           Bad == {n \in 0..L : ~\E g : Given(g, n)}
<1>1. L \in Nat /\ DOMAIN fs = 1..L
  BY DEF FindingList
<1> HIDE DEF L
<1>2. Bad = {}
  <2> SUFFICES ASSUME Bad # {} PROVE FALSE
    OBVIOUS
  <2>1. Bad \in SUBSET Nat
    BY <1>1
  <2>2. PICK x \in Bad : \A y \in Bad : x <= y
    <3> HIDE DEF Bad
    <3> QED
      BY <2>1, LeastNumber
  <2>3. x \in 0..L /\ ~\E g : Given(g, x)
    OBVIOUS
  <2>4. x # 0
    <3> SUFFICES ASSUME x = 0 PROVE FALSE
      OBVIOUS
    <3> DEFINE e == [i \in 1..0 |-> 0]
    <3>1. e = [i \in 1..0 |-> OrdinalOf(fs, e, i)]
      OBVIOUS
    <3> HIDE DEF e
    <3> QED
      BY <2>3, <3>1
  <2>5. x - 1 \in 0..L /\ x - 1 \notin Bad
    <3> HIDE DEF Bad
    <3> QED
      BY <1>1, <2>1, <2>2, <2>3, <2>4
  <2>6. PICK g : Given(g, x - 1)
    BY <2>5
  <2> DEFINE h == [i \in 1..x |-> IF i < x THEN g[i] ELSE OrdinalOf(fs, g, x)]
  <2>7. ASSUME NEW i \in 1..x PROVE h[i] = OrdinalOf(fs, h, i)
    <3>1. \A j \in 1..(i - 1) : h[j] = g[j]
      BY <1>1, <2>3
    <3> HIDE DEF h
    <3>2. OrdinalOf(fs, h, i) = OrdinalOf(fs, g, i)
      BY <1>1, <2>3, <3>1, OrdinalLooksBack
    <3>3. CASE i < x
      <4>1. i \in 1..(x - 1)
        BY <1>1, <2>3, <3>3
      <4>2. g[i] = OrdinalOf(fs, g, i)
        BY <2>6, <4>1
      <4> QED
        BY <3>2, <3>3, <4>2 DEF h
    <3>4. CASE ~(i < x)
      <4>1. i = x
        BY <1>1, <2>3, <3>4
      <4> QED
        BY <3>2, <4>1, <1>1, <2>3 DEF h
    <3> QED
      BY <3>3, <3>4
  <2>8. h = [i \in 1..x |-> OrdinalOf(fs, h, i)]
    <3> HIDE DEF h
    <3>1. DOMAIN h = 1..x /\ h = [i \in 1..x |-> h[i]]
      BY DEF h
    <3> QED
      BY <2>7, <3>1
  <2> HIDE DEF h
  <2> QED
    BY <2>3, <2>8
<1>3. PICK g : g = [i \in DOMAIN fs |-> OrdinalOf(fs, g, i)]
  BY <1>1, <1>2
<1> DEFINE P(f) == f = [i \in DOMAIN fs |-> OrdinalOf(fs, f, i)]
<1>4. Ordinals(fs) = CHOOSE f : P(f)
  BY DEF Ordinals
<1>5. P(g)
  BY <1>3
<1> HIDE DEF P
<1>6. P(Ordinals(fs))
  BY <1>4, <1>5
<1> QED
  BY <1>6 DEF P

\* Every ordinal is a number, and one not seen before in its group unless the
\* payload gave it.
LEMMA OrdinalsAreNew ==
    ASSUME NEW fs, FindingList(fs)
    PROVE  \A i \in DOMAIN fs :
              /\ Ordinals(fs)[i] \in Nat
              /\ fs[i].ordinal < 0 => Ordinals(fs)[i] \notin SeenOrdinals(fs, Ordinals(fs), i)
<1> DEFINE L == Len(fs)
           o == Ordinals(fs)
           Bad == {i \in 1..L : o[i] \notin Nat}
<1>1. L \in Nat /\ DOMAIN fs = 1..L /\ \A i \in DOMAIN fs : fs[i].ordinal \in Int
  BY DEF FindingList
<1>2. \A i \in 1..L : o[i] = OrdinalOf(fs, o, i)
  BY <1>1, OrdinalsGiven
<1> HIDE DEF o, L
<1>3. \A i \in 1..L : IsFiniteSet(SeenOrdinals(fs, o, i))
  <2> SUFFICES ASSUME NEW i \in 1..L PROVE IsFiniteSet(SeenOrdinals(fs, o, i))
    OBVIOUS
  <2> DEFINE E == {m \in DOMAIN fs : GroupOf(fs[m]) = GroupOf(fs[i]) /\ fs[m].ordinal >= 0}
             B == ImplicitBefore(fs, i)
             e == [j \in E |-> fs[j].ordinal]
             b == [j \in B |-> o[j]]
  <2>1. IsFiniteSet(1..L) /\ IsFiniteSet(1..(i - 1))
    BY <1>1, FS_Interval, 1 \in Int, i - 1 \in Int
  <2>2. E \in SUBSET (1..L) /\ B \in SUBSET (1..(i - 1))
    BY <1>1 DEF ImplicitBefore
  <2> HIDE DEF E, B
  <2>3. IsFiniteSet(E) /\ IsFiniteSet(B)
    BY <2>1, <2>2, FS_Subset
  <2>4. IsFiniteSet({fs[j].ordinal : j \in E})
    <3> DEFINE I == {fs[j].ordinal : j \in E}
    <3>1. e \in [E -> I] /\ \A t \in I : \E j \in E : e[j] = t
      OBVIOUS
    <3> HIDE DEF I, e
    <3> QED
      BY <2>3, <3>1, FiniteImage DEF I
  <2>5. IsFiniteSet({o[j] : j \in B})
    <3> DEFINE I == {o[j] : j \in B}
    <3>1. b \in [B -> I] /\ \A t \in I : \E j \in B : b[j] = t
      OBVIOUS
    <3> HIDE DEF I, b
    <3> QED
      BY <2>3, <3>1, FiniteImage DEF I
  <2> QED
    BY <2>4, <2>5, FS_Union DEF SeenOrdinals, E, B
<1>4. ASSUME NEW i \in 1..L, \A j \in 1..(i - 1) : o[j] \in Nat
      PROVE  o[i] \in Nat /\ (fs[i].ordinal < 0 => o[i] \notin SeenOrdinals(fs, o, i))
  <2>0. fs[i].ordinal \in Int
    BY <1>1
  <2>1. NextOrdinal(fs, o, i) \in Nat
    <3> DEFINE B == ImplicitBefore(fs, i)
    <3>1. B \in SUBSET (1..(i - 1)) /\ i - 1 \in Int
      BY <1>1 DEF ImplicitBefore
    <3> HIDE DEF B
    <3>2. B # {} => o[Max(B)] \in Nat
      BY <1>4, <3>1, LatestOf
    <3> QED
      BY <3>2 DEF NextOrdinal, B
  <2>2. CASE fs[i].ordinal >= 0
    BY <1>2, <2>0, <2>2 DEF OrdinalOf
  <2>3. CASE fs[i].ordinal < 0
    <3>1. o[i] = NextFreeOrdinal(NextOrdinal(fs, o, i), SeenOrdinals(fs, o, i))
      BY <1>2, <2>0, <2>3 DEF OrdinalOf
    <3> QED
      BY <1>3, <2>1, <3>1, NextFree
  <2> QED
    BY <2>0, <2>2, <2>3
<1>5. Bad = {}
  <2> SUFFICES ASSUME Bad # {} PROVE FALSE
    OBVIOUS
  <2>1. Bad \in SUBSET Nat
    BY <1>1
  <2>2. PICK x \in Bad : \A y \in Bad : x <= y
    <3> HIDE DEF Bad
    <3> QED
      BY <2>1, LeastNumber
  <2>3. x \in 1..L /\ o[x] \notin Nat
    OBVIOUS
  <2>4. \A j \in 1..(x - 1) : o[j] \in Nat
    <3> SUFFICES ASSUME NEW j \in 1..(x - 1), o[j] \notin Nat PROVE FALSE
      OBVIOUS
    <3>1. j \in Bad /\ ~(x <= j)
      BY <1>1, <2>3
    <3> HIDE DEF Bad
    <3> QED
      BY <2>2, <3>1
  <2> QED
    BY <1>4, <2>3, <2>4
<1>6. \A i \in 1..L : o[i] \in Nat
  BY <1>5
<1>7. \A i \in 1..L : o[i] \in Nat /\ (fs[i].ordinal < 0 => o[i] \notin SeenOrdinals(fs, o, i))
  <2> SUFFICES ASSUME NEW i \in 1..L
               PROVE  o[i] \in Nat /\ (fs[i].ordinal < 0 => o[i] \notin SeenOrdinals(fs, o, i))
    OBVIOUS
  <2>1. \A j \in 1..(i - 1) : j \in 1..L
    BY <1>1
  <2> QED
    BY <1>4, <1>6, <2>1
<1> QED
  BY <1>1, <1>7 DEF o

\* Two items of one anchor are one item, unless the payload itself gives an
\* ordinal twice.
LEMMA AnchorsApart ==
    ASSUME NEW fs, FindingList(fs), ~DuplicateOrdinals(fs)
    PROVE  /\ RawFindings(fs) = [i \in DOMAIN fs |-> RawFinding(fs[i], Ordinals(fs)[i])]
           /\ ~DuplicateIds(RawFindings(fs))
<1> DEFINE o == Ordinals(fs)
           raw == RawFindings(fs)
<1>0. DOMAIN fs = 1..Len(fs) /\ Len(fs) \in Nat /\ \A i \in DOMAIN fs : fs[i].ordinal \in Int
  BY DEF FindingList
<1>1. raw = [i \in DOMAIN fs |-> RawFinding(fs[i], o[i])]
  BY DEF RawFindings
<1>2. \A i \in DOMAIN fs :
         /\ o[i] \in Nat
         /\ fs[i].ordinal < 0 => o[i] \notin SeenOrdinals(fs, o, i)
         /\ fs[i].ordinal >= 0 => o[i] = fs[i].ordinal
  BY OrdinalsAreNew, OrdinalsGiven DEF OrdinalOf
<1> HIDE DEF o, raw
<1>3. ASSUME NEW i \in DOMAIN fs, NEW j \in DOMAIN fs, i < j,
             GroupOf(fs[i]) = GroupOf(fs[j]), o[i] = o[j]
      PROVE  FALSE
  <2>0. i \in 1..(j - 1) /\ i # j /\ fs[i].ordinal \in Int /\ fs[j].ordinal \in Int
    BY <1>0, <1>3
  <2>1. CASE fs[i].ordinal >= 0 /\ fs[j].ordinal >= 0
    BY <1>2, <1>3, <2>0, <2>1 DEF DuplicateOrdinals
  <2>2. CASE fs[i].ordinal < 0 /\ fs[j].ordinal >= 0
    <3>1. o[j] \in SeenOrdinals(fs, o, i)
      BY <1>2, <1>3, <2>2 DEF SeenOrdinals
    <3> QED
      BY <1>2, <1>3, <2>2, <3>1
  <2>3. CASE fs[i].ordinal >= 0 /\ fs[j].ordinal < 0
    <3>1. o[i] \in SeenOrdinals(fs, o, j)
      BY <1>2, <1>3, <2>3 DEF SeenOrdinals
    <3> QED
      BY <1>2, <1>3, <2>3, <3>1
  <2>4. CASE fs[i].ordinal < 0 /\ fs[j].ordinal < 0
    <3>1. i \in ImplicitBefore(fs, j)
      BY <1>3, <2>0, <2>4 DEF ImplicitBefore
    <3>2. o[i] \in SeenOrdinals(fs, o, j)
      BY <3>1 DEF SeenOrdinals
    <3> QED
      BY <1>2, <1>3, <2>4, <3>2
  <2> QED
    BY <2>0, <2>1, <2>2, <2>3, <2>4
<1>4. ASSUME NEW i \in DOMAIN fs, NEW j \in DOMAIN fs, i # j, Anchor(raw[i]) = Anchor(raw[j])
      PROVE  FALSE
  <2>1. GroupOf(fs[i]) = GroupOf(fs[j]) /\ o[i] = o[j]
    BY <1>1, <1>4 DEF Anchor, GroupOf, RawFinding
  <2> QED
    BY <1>0, <1>3, <1>4, <2>1
<1> QED
  BY <1>1, <1>4 DEF DuplicateIds, raw, o

-----------------------------------------------------------------------------
(* What becomes of a scout's items                                         *)

LEMMA StrongestIsThere ==
    ASSUME NEW F, F # {}, \A f \in F : f.severity \in DOMAIN SeverityRank
    PROVE  /\ Strongest(F) \in F
           /\ \A h \in F : SeverityRank[Strongest(F).severity] >= SeverityRank[h.severity]
<1> DEFINE rank(f) == SeverityRank[f.severity]
           T == {4 - rank(f) : f \in F}
<1>1. \A f \in F : rank(f) \in 0..4
  BY DEF SeverityRank
<1> HIDE DEF rank
<1>2. T \in SUBSET Nat /\ T # {}
  BY <1>1
<1>3. PICK x \in T : \A y \in T : x <= y
  <2> HIDE DEF T
  <2> QED
    BY <1>2, LeastNumber
<1>4. PICK f \in F : x = 4 - rank(f)
  OBVIOUS
<1>5. \A h \in F : rank(f) >= rank(h)
  <2> SUFFICES ASSUME NEW h \in F PROVE rank(f) >= rank(h)
    OBVIOUS
  <2>1. 4 - rank(h) \in T
    OBVIOUS
  <2>2. 4 - rank(f) <= 4 - rank(h)
    BY <1>3, <1>4, <2>1
  <2> QED
    BY <1>1, <2>2
<1>6. \E g \in F : \A h \in F : SeverityRank[g.severity] >= SeverityRank[h.severity]
  BY <1>5 DEF rank
<1> QED
  BY <1>6 DEF Strongest

Completed(payloads) == {k \in DOMAIN payloads : payloads[k].status = "complete"}

\* Everything the scouts that completed found.
Pool(payloads) == UNION {ToSet(RawFindings(payloads[k].findings)) : k \in Completed(payloads)}

\* The findings _build_advisory_detail starts from.
Aired(payloads) ==
    LET r == AdvisoryRuntime(payloads)
    IN  IF r.state.status = "complete" THEN r.state.findings ELSE {}

Accepted(payloads) ==
    /\ payloads \in Seq(ToSet(payloads))
    /\ \A k \in DOMAIN payloads :
          FindingList(payloads[k].findings) /\ ~PayloadRaises(payloads[k])

LEMMA ItemsOf ==
    ASSUME NEW payloads, Accepted(payloads), NEW k \in Completed(payloads)
    PROVE  LET fs == payloads[k].findings
               raw == RawFindings(fs)
           IN  /\ DOMAIN raw = DOMAIN fs /\ IsFiniteSet(DOMAIN fs)
               /\ \A i \in DOMAIN fs :
                     /\ raw[i] \in Pool(payloads)
                     /\ GroupOf(raw[i]) = GroupOf(fs[i])
                     /\ raw[i].severity = fs[i].severity
                     /\ raw[i].severity \in DOMAIN SeverityRank
               /\ \A i, j \in DOMAIN fs : Anchor(raw[i]) = Anchor(raw[j]) => i = j
<1> DEFINE fs == payloads[k].findings
           raw == RawFindings(fs)
<1>1. FindingList(fs) /\ ~DuplicateOrdinals(fs)
  BY DEF Accepted, Completed, PayloadRaises
<1>2. raw = [i \in DOMAIN fs |-> RawFinding(fs[i], Ordinals(fs)[i])] /\ ~DuplicateIds(raw)
  BY <1>1, AnchorsApart
<1>3. IsFiniteSet(DOMAIN fs)
  <2>1. Len(fs) \in Nat /\ DOMAIN fs = 1..Len(fs)
    BY <1>1 DEF FindingList
  <2> QED
    BY <2>1, FS_Interval, 1 \in Int, Len(fs) \in Int
<1>4. \A i \in DOMAIN fs : raw[i] \in Pool(payloads)
  <2> HIDE DEF raw
  <2>1. DOMAIN raw = DOMAIN fs
    BY <1>2
  <2>2. \A i \in DOMAIN fs : raw[i] \in ToSet(raw)
    BY <2>1 DEF ToSet
  <2> QED
    BY <2>2 DEF Pool, raw
<1> HIDE DEF raw
<1>5. \A i \in DOMAIN fs : /\ GroupOf(raw[i]) = GroupOf(fs[i])
                           /\ raw[i].severity = fs[i].severity
                           /\ raw[i].severity \in DOMAIN SeverityRank
  BY <1>1, <1>2 DEF RawFinding, GroupOf, FindingList
<1>6. \A i, j \in DOMAIN fs : Anchor(raw[i]) = Anchor(raw[j]) => i = j
  BY <1>2 DEF DuplicateIds
<1> QED
  BY <1>2, <1>3, <1>4, <1>5, <1>6 DEF raw

LEMMA PoolOf ==
    ASSUME NEW payloads, Accepted(payloads)
    PROVE  /\ IsFiniteSet(Pool(payloads))
           /\ \A f \in Pool(payloads) :
                 /\ f.severity \in DOMAIN SeverityRank
                 /\ \E k \in Completed(payloads) : \E i \in DOMAIN payloads[k].findings :
                       f = RawFindings(payloads[k].findings)[i]
<1> DEFINE M == Completed(payloads)
           raw(k) == RawFindings(payloads[k].findings)
           S == {ToSet(raw(k)) : k \in M}
<1>1. IsFiniteSet(M)
  <2>1. Len(payloads) \in Nat /\ DOMAIN payloads = 1..Len(payloads)
    BY DEF Accepted
  <2>2. IsFiniteSet(DOMAIN payloads)
    BY <2>1, FS_Interval, 1 \in Int, Len(payloads) \in Int
  <2>3. M \in SUBSET DOMAIN payloads
    BY DEF Completed
  <2> QED
    BY <2>2, <2>3, FS_Subset
<1>2. ASSUME NEW k \in M PROVE IsFiniteSet(ToSet(raw(k)))
  <2>1. DOMAIN raw(k) = DOMAIN payloads[k].findings /\ IsFiniteSet(DOMAIN payloads[k].findings)
    BY ItemsOf
  <2> DEFINE g == [i \in DOMAIN raw(k) |-> raw(k)[i]]
  <2> HIDE DEF raw
  <2>2. g \in [DOMAIN raw(k) -> ToSet(raw(k))] /\ \A t \in ToSet(raw(k)) : \E i \in DOMAIN raw(k) : g[i] = t
    BY DEF ToSet
  <2> HIDE DEF g
  <2> QED
    BY <2>1, <2>2, FiniteImage
<1>3. IsFiniteSet(S)
  <2> HIDE DEF raw, M
  <2> DEFINE g == [k \in M |-> ToSet(raw(k))]
  <2>1. g \in [M -> S] /\ \A t \in S : \E k \in M : g[k] = t
    OBVIOUS
  <2> HIDE DEF g, S
  <2> QED
    BY <1>1, <2>1, FiniteImage
<1>4. IsFiniteSet(UNION S)
  <2>1. \A t \in S : IsFiniteSet(t)
    BY <1>2
  <2> HIDE DEF S
  <2> QED
    BY <1>3, <2>1, FS_UNION
<1>5. ASSUME NEW f \in Pool(payloads)
      PROVE  /\ f.severity \in DOMAIN SeverityRank
             /\ \E k \in M : \E i \in DOMAIN payloads[k].findings : f = raw(k)[i]
  <2>1. PICK k \in M : f \in ToSet(raw(k))
    BY DEF Pool
  <2>2. PICK i \in DOMAIN raw(k) : f = raw(k)[i]
    BY <2>1 DEF ToSet
  <2>3. DOMAIN raw(k) = DOMAIN payloads[k].findings
    BY ItemsOf
  <2>4. raw(k)[i].severity \in DOMAIN SeverityRank
    BY <2>3, ItemsOf
  <2> QED
    BY <2>2, <2>3, <2>4
<1> QED
  BY <1>4, <1>5 DEF Pool

\* What is reported was found by a scout that completed; what such a scout
\* found is reported, once per anchor and with the highest severity.
LEMMA ReportOf ==
    ASSUME NEW payloads, Accepted(payloads), payloads # <<>>
    PROVE  /\ Aired(payloads) \subseteq Pool(payloads)
           /\ \A f \in Pool(payloads) : \E h \in Aired(payloads) :
                 /\ Anchor(h) = Anchor(f)
                 /\ SeverityRank[h.severity] >= SeverityRank[f.severity]
           /\ \A f, h \in Aired(payloads) : Anchor(f) = Anchor(h) => f = h
<1> DEFINE M == Completed(payloads)
           raw(k) == RawFindings(payloads[k].findings)
           R == Aired(payloads)
           P == Pool(payloads)
<1>0. /\ Len(payloads) \in Nat /\ DOMAIN payloads = 1..Len(payloads)
      /\ \A f \in P : SeverityRank[f.severity] \in Int
  <2>1. \A f \in P : f.severity \in DOMAIN SeverityRank
    BY PoolOf
  <2> QED
    BY <2>1 DEF Accepted, SeverityRank
<1>1. CASE Len(payloads) = 1
  <2>1. R = IF payloads[1].status = "complete" THEN ToSet(raw(1)) ELSE {}
    BY <1>0, <1>1 DEF Aired, AdvisoryRuntime, ScoutState
  <2>2. DOMAIN payloads = {1}
    BY <1>0, <1>1
  <2>3. CASE payloads[1].status = "complete"
    <3>1. M = {1} /\ 1 \in M
      BY <2>2, <2>3 DEF Completed
    <3>2. R = P
      BY <2>1, <2>3, <3>1 DEF Pool
    <3>3. ASSUME NEW f \in R, NEW h \in R, Anchor(f) = Anchor(h) PROVE f = h
      <4>1. PICK i \in DOMAIN raw(1), j \in DOMAIN raw(1) : f = raw(1)[i] /\ h = raw(1)[j]
        BY <2>1, <2>3, <3>3 DEF ToSet
      <4>2. DOMAIN raw(1) = DOMAIN payloads[1].findings
        BY <3>1, ItemsOf
      <4>3. i = j
        BY <3>1, <3>3, <4>1, <4>2, ItemsOf
      <4> QED
        BY <4>1, <4>3
    <3> HIDE DEF R, P
    <3>4. \A f \in P : SeverityRank[f.severity] >= SeverityRank[f.severity]
      BY <1>0
    <3> QED
      BY <3>2, <3>3, <3>4 DEF R, P
  <2>4. CASE payloads[1].status # "complete"
    <3>1. M = {}
      BY <2>2, <2>4 DEF Completed
    <3>2. R = {} /\ P = {}
      BY <2>1, <2>4, <3>1 DEF Pool
    <3> QED
      BY <3>2
  <2> QED
    BY <2>3, <2>4
<1>2. CASE Len(payloads) # 1
  <2> DEFINE same(f) == {h \in P : Anchor(h) = Anchor(f)}
  <2>1. R = {Strongest(same(f)) : f \in P}
    <3> DEFINE states == [k \in DOMAIN payloads |-> ScoutState(payloads[k])]
               c == {k \in DOMAIN states : states[k].status = "complete"}
    <3>1. \A k \in DOMAIN payloads : states[k].status = payloads[k].status
      BY DEF ScoutState
    <3>2. c = M
      BY <3>1 DEF Completed
    <3>3. \A k \in M : states[k].findings = ToSet(raw(k))
      BY DEF ScoutState, Completed
    <3>4. UNION {states[k].findings : k \in c} = P
      <4>1. P = UNION {ToSet(raw(k)) : k \in M}
        BY DEF Pool
      <4> HIDE DEF c, M, P, raw, states
      <4>2. {states[k].findings : k \in c} = {ToSet(raw(k)) : k \in M}
        BY <3>2, <3>3
      <4> QED
        BY <4>1, <4>2
    <3>5. AdvisoryRuntime(payloads).state = AggregateStates(states)
      BY <1>2 DEF AdvisoryRuntime
    <3> HIDE DEF states
    <3>6. AggregateStates(states)
             = [status |-> IF c # {} THEN "complete" ELSE "error",
                findings |-> {Strongest(same(f)) : f \in P}]
      BY <3>4 DEF AggregateStates
    <3>7. c = {} => P = {}
      BY <3>2 DEF Pool
    <3> HIDE DEF c, P
    <3> QED
      BY <3>5, <3>6, <3>7 DEF Aired
  <2>2. \A f \in P : /\ Strongest(same(f)) \in same(f)
                     /\ \A h \in same(f) :
                           SeverityRank[Strongest(same(f)).severity] >= SeverityRank[h.severity]
    <3> SUFFICES ASSUME NEW f \in P
                 PROVE  /\ Strongest(same(f)) \in same(f)
                        /\ \A h \in same(f) :
                             SeverityRank[Strongest(same(f)).severity] >= SeverityRank[h.severity]
      OBVIOUS
    <3>1. same(f) # {} /\ \A h \in same(f) : h.severity \in DOMAIN SeverityRank
      BY PoolOf
    <3> HIDE DEF same
    <3> QED
      BY <3>1, StrongestIsThere
  <2> HIDE DEF R, P
  <2>3. ASSUME NEW f \in P PROVE Strongest(same(f)) \in P /\ Anchor(Strongest(same(f))) = Anchor(f)
    BY <2>2
  <2>4. \A f \in P : f \in same(f) /\ Strongest(same(f)) \in R
    BY <2>1
  <2>5. ASSUME NEW f \in R, NEW h \in R, Anchor(f) = Anchor(h) PROVE f = h
    <3>1. PICK x \in P, y \in P : f = Strongest(same(x)) /\ h = Strongest(same(y))
      BY <2>1
    <3>2. Anchor(x) = Anchor(y)
      BY <2>3, <2>5, <3>1
    <3>3. same(x) = same(y)
      BY <3>2
    <3> QED
      BY <3>1, <3>3
  <2>6. R \subseteq P
    BY <2>1, <2>3
  <2>7. ASSUME NEW f \in P
        PROVE  \E h \in R : Anchor(h) = Anchor(f) /\ SeverityRank[h.severity] >= SeverityRank[f.severity]
    <3> HIDE DEF same
    <3> QED
      BY <2>2, <2>3, <2>4
  <2> QED
    BY <2>5, <2>6, <2>7 DEF R, P
<1> QED
  BY <1>1, <1>2

\* The three lists of the report are what is reported, each finding in one.
LEMMA DetailOf ==
    ASSUME NEW payloads, NEW api, NEW renames, NEW mutes, NEW asOf, IsFiniteSet(Aired(payloads))
    PROVE  LET d == AdvisoryDetail(payloads, api, renames, mutes, asOf)
           IN  /\ d.surfaced \cup d.pre_existing \cup d.muted = Aired(payloads)
               /\ Cardinality(Aired(payloads))
                     = Cardinality(d.surfaced) + Cardinality(d.pre_existing) + Cardinality(d.muted)
<1> DEFINE R == Aired(payloads)
           d == AdvisoryDetail(payloads, api, renames, mutes, asOf)
           old == PreExisting(R, api, renames)
           Quiet(f) == \E m \in ActiveMutes(mutes, asOf) :
                          m.sensor = AdvisoryRuntime(payloads).sensor /\ m.anchor = Anchor(f)
<1>1. /\ d.surfaced = {f \in R \ old : ~Quiet(f)}
      /\ d.pre_existing = {f \in old : ~Quiet(f)}
      /\ d.muted = {f \in R : Quiet(f)}
  BY DEF AdvisoryDetail, Aired
<1>2. old \subseteq R
  BY DEF PreExisting
<1> DEFINE A == d.surfaced
           B == d.pre_existing
           C == d.muted
<1> HIDE DEF d, old, R, Quiet
<1>3. A \cup B \cup C = R /\ A \cap B = {} /\ (A \cup B) \cap C = {}
  BY <1>1, <1>2
<1>4. A \in SUBSET R /\ B \in SUBSET R /\ C \in SUBSET R
  BY <1>1, <1>2
<1> HIDE DEF A, B, C
<1>5. IsFiniteSet(A) /\ IsFiniteSet(B) /\ IsFiniteSet(C)
  BY <1>4, FS_Subset DEF R
<1>6. /\ IsFiniteSet(A \cup B)
      /\ Cardinality(A \cup B) = Cardinality(A) + Cardinality(B) - Cardinality(A \cap B)
  BY <1>5, FS_Union
<1>7. Cardinality((A \cup B) \cup C)
         = Cardinality(A \cup B) + Cardinality(C) - Cardinality((A \cup B) \cap C)
  BY <1>5, <1>6, FS_Union
<1>8. Cardinality(A) \in Nat /\ Cardinality(B) \in Nat /\ Cardinality(C) \in Nat
  BY <1>5, FS_CardinalityType
<1>9. Cardinality({}) = 0
  BY FS_EmptySet
<1>10. Cardinality(R) = Cardinality(A) + Cardinality(B) + Cardinality(C)
  <2>0. Cardinality(A \cap B) = 0
    BY <1>3, <1>9
  <2>1. Cardinality(A \cup B) = Cardinality(A) + Cardinality(B)
    BY <1>6, <1>8, <2>0
  <2>2. Cardinality(R) = Cardinality(A \cup B) + Cardinality(C) - Cardinality({})
    BY <1>3, <1>7
  <2> QED
    BY <1>8, <1>9, <2>1, <2>2
<1> QED
  BY <1>3, <1>10 DEF A, B, C, d, R

\* No group of a scout that completed loses an item.
LEMMA GroupsKept ==
    ASSUME NEW payloads, Accepted(payloads), payloads # <<>>, NEW k \in Completed(payloads),
           NEW i \in DOMAIN payloads[k].findings
    PROVE  LET fs == payloads[k].findings
               R == Aired(payloads)
           IN  /\ \E f \in R : /\ GroupOf(f) = GroupOf(fs[i])
                               /\ SeverityRank[f.severity] >= SeverityRank[fs[i].severity]
               /\ Cardinality({f \in R : GroupOf(f) = GroupOf(fs[i])})
                     >= Cardinality({j \in DOMAIN fs : GroupOf(fs[j]) = GroupOf(fs[i])})
<1> DEFINE fs == payloads[k].findings
           raw == RawFindings(fs)
           R == Aired(payloads)
           J == {j \in DOMAIN fs : GroupOf(fs[j]) = GroupOf(fs[i])}
           F == {f \in R : GroupOf(f) = GroupOf(fs[i])}
<1>1. /\ IsFiniteSet(DOMAIN fs)
      /\ \A j \in DOMAIN fs : /\ raw[j] \in Pool(payloads)
                              /\ GroupOf(raw[j]) = GroupOf(fs[j])
                              /\ raw[j].severity = fs[j].severity
      /\ \A j, l \in DOMAIN fs : Anchor(raw[j]) = Anchor(raw[l]) => j = l
  BY ItemsOf
<1>2. \A f \in Pool(payloads) : \E h \in R :
         Anchor(h) = Anchor(f) /\ SeverityRank[h.severity] >= SeverityRank[f.severity]
  BY ReportOf
<1>3. IsFiniteSet(R)
  BY PoolOf, ReportOf, FS_Subset
<1> HIDE DEF raw, R, fs
<1>4. \A f, h : Anchor(f) = Anchor(h) => GroupOf(f) = GroupOf(h)
  BY DEF Anchor, GroupOf
<1>5. \A j \in DOMAIN fs : \E h \in R :
         /\ Anchor(h) = Anchor(raw[j]) /\ GroupOf(h) = GroupOf(fs[j])
         /\ SeverityRank[h.severity] >= SeverityRank[fs[j].severity]
  BY <1>1, <1>2, <1>4
<1> DEFINE w == [j \in J |-> CHOOSE h \in F : Anchor(h) = Anchor(raw[j])]
<1>6. \A j \in J : w[j] \in F /\ Anchor(w[j]) = Anchor(raw[j])
  <2> SUFFICES ASSUME NEW j \in J PROVE w[j] \in F /\ Anchor(w[j]) = Anchor(raw[j])
    OBVIOUS
  <2>1. \E h \in F : Anchor(h) = Anchor(raw[j])
    BY <1>5
  <2> QED
    BY <2>1
<1>7. DOMAIN w = J /\ w = [j \in J |-> w[j]]
  OBVIOUS
<1> HIDE DEF w
<1>8. w \in Injection(J, F)
  <2>1. \A j, l \in J : w[j] = w[l] => j = l
    BY <1>1, <1>6
  <2>2. w \in [J -> F]
    BY <1>6, <1>7
  <2> HIDE DEF J, F
  <2> QED
    BY <2>1, <2>2, <1>7 DEF Injection, IsInjective
<1>9. IsFiniteSet(F)
  BY <1>3, FS_Subset
<1>10. Cardinality(J) <= Cardinality(F) /\ IsFiniteSet(J)
  <2> HIDE DEF J, F
  <2> QED
    BY <1>8, <1>9, FS_Injection
<1>11. Cardinality(F) >= Cardinality(J)
  <2>1. Cardinality(J) \in Nat /\ Cardinality(F) \in Nat
    BY <1>9, <1>10, FS_CardinalityType
  <2> QED
    BY <1>10, <2>1
<1>12. i \in DOMAIN fs
  BY DEF fs
<1>13. \E f \in R : /\ GroupOf(f) = GroupOf(fs[i])
                    /\ SeverityRank[f.severity] >= SeverityRank[fs[i].severity]
  BY <1>5, <1>12
<1> QED
  BY <1>11, <1>13 DEF R, fs

\* The report accounts for the items of accepted payloads.
LEMMA ReportAccounts ==
    ASSUME NEW ps, Accepted(ps), ps # <<>>, NEW d, NEW api, NEW renames, NEW mutes, NEW asOf,
           d = AdvisoryDetail(ps, api, renames, mutes, asOf)
    PROVE  AccountsFor(ps, d)
<1> DEFINE members == {k \in DOMAIN ps : ps[k].status = "complete"}
           all == d.surfaced \cup d.pre_existing \cup d.muted
           fs(k) == ps[k].findings
<1>1. members = Completed(ps)
  BY DEF Completed
<1>2. IsFiniteSet(Aired(ps))
  BY PoolOf, ReportOf, FS_Subset
<1>3. /\ all = Aired(ps)
      /\ Cardinality(all) = Cardinality(d.surfaced) + Cardinality(d.pre_existing)
                               + Cardinality(d.muted)
  BY <1>2, DetailOf
<1> HIDE DEF all
<1>4. ASSUME NEW k \in members, NEW i \in DOMAIN fs(k)
      PROVE  /\ \E f \in all : /\ GroupOf(f) = GroupOf(fs(k)[i])
                               /\ SeverityRank[f.severity] >= SeverityRank[fs(k)[i].severity]
             /\ Cardinality({f \in all : GroupOf(f) = GroupOf(fs(k)[i])})
                   >= Cardinality({j \in DOMAIN fs(k) : GroupOf(fs(k)[j]) = GroupOf(fs(k)[i])})
  <2>1. k \in Completed(ps)
    BY <1>1
  <2>2. /\ \E f \in Aired(ps) :
              /\ GroupOf(f) = GroupOf(fs(k)[i])
              /\ SeverityRank[f.severity] >= SeverityRank[fs(k)[i].severity]
        /\ Cardinality({f \in Aired(ps) : GroupOf(f) = GroupOf(fs(k)[i])})
              >= Cardinality({j \in DOMAIN fs(k) : GroupOf(fs(k)[j]) = GroupOf(fs(k)[i])})
    BY <2>1, GroupsKept
  <2>3. {f \in all : GroupOf(f) = GroupOf(fs(k)[i])}
           = {f \in Aired(ps) : GroupOf(f) = GroupOf(fs(k)[i])}
    BY <1>3
  <2> QED
    BY <1>3, <2>2, <2>3
<1>5. ASSUME NEW f \in all
      PROVE  \E k \in members : \E i \in DOMAIN fs(k) : GroupOf(fs(k)[i]) = GroupOf(f)
  <2>1. f \in Pool(ps)
    BY <1>3, ReportOf
  <2>2. PICK k \in Completed(ps) : \E i \in DOMAIN fs(k) : f = RawFindings(fs(k))[i]
    BY <2>1, PoolOf
  <2>3. PICK i \in DOMAIN fs(k) : f = RawFindings(fs(k))[i]
    BY <2>2
  <2>4. GroupOf(f) = GroupOf(fs(k)[i])
    BY <2>3, ItemsOf
  <2> QED
    BY <1>1, <2>4
<1>6. Cardinality({Anchor(f) : f \in all}) = Cardinality(all)
  <2> DEFINE T == {Anchor(f) : f \in all}
             g == [f \in all |-> Anchor(f)]
  <2>1. \A f, h \in all : Anchor(f) = Anchor(h) => f = h
    BY <1>3, ReportOf
  <2>2. /\ g \in [all -> T] /\ \A t \in T : \E f \in all : g[f] = t
        /\ \A f, h \in all : g[f] = g[h] => f = h
    BY <2>1
  <2>3. IsFiniteSet(all)
    BY <1>2, <1>3
  <2> HIDE DEF g, T
  <2>4. Cardinality(T) = Cardinality(all)
    BY <2>2, <2>3, SameSize
  <2> QED
    BY <2>4 DEF T
<1> QED
  BY <1>3, <1>4, <1>5, <1>6 DEF all, AccountsFor

\* No payload is refused for ordinals that the scout adapter itself gave, and
\* whatever the payloads, renames and mutes, every item of a scout that
\* completed is accounted for once and at no lower severity.
THEOREM ItemsAreAccounted == Spec => []AdvisoryAccounted
<1>1. ASSUME GateInv, GateSays PROVE AdvisoryAccounted
  <2>1. gate.ran => gate.request \in Requests
    BY <1>1 DEF GateInv, TypeOK
  <2>2. \A q \in Requests : /\ q.payloads \in Seq(ToSet(q.payloads))
                            /\ \A k \in DOMAIN q.payloads : FindingList(q.payloads[k].findings)
    BY GateConstants
  <2>3. ASSUME gate.ran, NEW k \in DOMAIN gate.request.payloads,
               PayloadRaises(gate.request.payloads[k])
        PROVE  \/ ~gate.request.payloads[k].valid
               \/ DuplicateOrdinals(gate.request.payloads[k].findings)
    <3>1. FindingList(gate.request.payloads[k].findings)
      BY <2>1, <2>2, <2>3
    <3> QED
      BY <2>3, <3>1, AnchorsApart DEF PayloadRaises
  <2>4. ASSUME gate.ran, gate.exit # 2, gate.request.payloads # <<>>
        PROVE  /\ Accepted(gate.request.payloads)
               /\ \E mutes, a : gate.advisory = AdvisoryDetail(gate.request.payloads, world.api,
                                                               world.renames, mutes, a)
    <3>1. PICK q \in Requests, a \in Int : Says(q, a)
      BY <1>1, <2>4 DEF GateSays
    <3>2. /\ gate.request = q /\ ~UsageError(q)
          /\ gate.advisory = AdvisoryDetail(q.payloads, world.api, world.renames, q.mutes, a)
      BY <2>4, <3>1 DEF Says
    <3>3. Accepted(q.payloads)
      BY <2>2, <3>2 DEF Accepted, UsageError
    <3> QED
      BY <3>2, <3>3
  <2>5. ASSUME gate.ran, gate.exit # 2, gate.request.payloads # <<>>
        PROVE  AccountsFor(gate.request.payloads, gate.advisory)
    BY <2>4, <2>5, ReportAccounts
  <2> QED
    BY <2>3, <2>5 DEF AdvisoryAccounted
<1> QED
  BY <1>1, SaysInvariant, PTL

=============================================================================
