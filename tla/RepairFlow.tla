----------------------------- MODULE RepairFlow -----------------------------
(***************************************************************************)
(* What a verdict turns into: the repair plan of repair/emitter.py, the    *)
(* payload and the formats of cli/output*, the exit code of `check` and    *)
(* `compare`, the `compile-repair` command that reads a written payload    *)
(* back, and the risk summary of `validate-plan`, which evaluates the      *)
(* baseline against itself.  Wording, evidence and layout are left out; an *)
(* instruction keeps the number of its constraint.                         *)
(***************************************************************************)
EXTENDS ConstraintEvaluator

CONSTANTS
    Requests    \* the command lines considered

Commands == {"check", "compare", "validate-plan"}
Formats == {"json", "sarif", "gh-actions", "human"}

ASSUME RequestTypes ==
    Requests \subseteq [command : Commands, format : Formats, strict : BOOLEAN, toFile : BOOLEAN]

VARIABLES
    request,    \* the command line
    payload,    \* build_payload's document, or NoPayload
    shown,      \* what the output tells its reader: a set of [id, mark]
    risk,       \* the risk summary of validate-plan, or NoRisk
    exit        \* the exit code, or -1 while the command runs

reportVars == <<request, payload, shown, risk, exit>>
allVars == <<vars, reportVars>>

NoPayload == [written |-> FALSE]
NoRisk == [computed |-> FALSE]

-----------------------------------------------------------------------------
(* repair/emitter.py and repair/codes.py                                   *)

\* A result appended by _short_circuit_skipped_result.
ShortSkipped(m) == \E k \in 1..(m - 1) : ShouldShortCircuit(plan[k], results[k])

\* ConstraintResult.error_code
ErrorCode(m) ==
    LET c == plan[m]
        r == results[m]
    IN  IF r.status = "satisfied" THEN "none"
        ELSE IF r.status = "violated" THEN "E_VIOLATION"
        ELSE IF r.status = "skipped"
        THEN IF ShortSkipped(m) THEN "E_HARD_LOCK_SHORT_CIRCUIT"
             ELSE IF c.kind = "repair" THEN "E_REPAIR_KIND_UNSUPPORTED_P1"
             ELSE IF c.op = "changed_only_in" THEN "E_OPERATOR_UNSUPPORTED_P1"
             ELSE "E_DIMENSION_SKIPPED"
        ELSE IF TimedOutDimension(c, world) THEN "E_DIMENSION_TIMED_OUT"
        ELSE IF ~ValidPath(c) THEN "E_PATH_UNRESOLVED"
        ELSE IF ~OperatorFits(c) THEN "E_OPERATOR_TARGET_MISMATCH"
        ELSE IF r.cause = "extraction" THEN "E_PATH_UNRESOLVED"
        ELSE "E_TYPE_MISMATCH"

\* Mutant: the cause of an unknown result is not consulted.
CategoryOrNonePolicyOnly(m) ==
    LET c == plan[m]
        r == results[m]
    IN  CASE r.status = "violated" ->
                [hard |-> "fix_required", soft |-> "suggested", info |-> "info"][c.severity]
          [] r.status = "unknown" ->
                [fail |-> "fix_required", repair |-> "suggested",
                 warn |-> "unresolved", ignore |-> "none"][c.policy]
          [] r.status = "skipped" /\ ErrorCode(m) # "E_HARD_LOCK_SHORT_CIRCUIT" ->
                "unresolved"
          [] OTHER -> "none"

\* _category_or_none
CategoryOrNone(m) ==
    LET c == plan[m]
        r == results[m]
    IN  CASE r.status = "violated" ->
                [hard |-> "fix_required", soft |-> "suggested", info |-> "info"][c.severity]
          [] r.status = "unknown" /\ r.cause = "authoring" -> "fix_required"
          [] r.status = "unknown" /\ r.cause # "authoring" ->
                [fail |-> "fix_required", repair |-> "suggested",
                 warn |-> "unresolved", ignore |-> "none"][c.policy]
          [] r.status = "skipped" /\ ErrorCode(m) # "E_HARD_LOCK_SHORT_CIRCUIT" ->
                "unresolved"
          [] OTHER -> "none"

\* _TEMPLATE_REPAIR_CODE, the same for every kind of change that has the
\* template, and _ERROR_CODE_REPAIR_CODE
TemplateCode ==
    [no_removed_api |-> "R_API_REMOVED", api_surface_unchanged |-> "R_API_CHANGED",
     type_relations_unchanged |-> "R_TYPE_RELATIONS_CHANGED",
     effects_unchanged |-> "R_EFFECTS_CHANGED", no_new_effects |-> "R_NEW_EFFECT",
     test_surface_unchanged |-> "R_TEST_SURFACE_CHANGED",
     imports_unchanged |-> "R_IMPORTS_CHANGED"]

CodeOfError ==
    [E_PATH_UNRESOLVED |-> "R_PATH_UNRESOLVED", E_TYPE_MISMATCH |-> "R_TYPE_MISMATCH",
     E_OPERATOR_TARGET_MISMATCH |-> "R_OPERATOR_TARGET_MISMATCH",
     E_OPERATOR_UNSUPPORTED_P1 |-> "R_UNSUPPORTED_OPERATOR",
     E_REPAIR_KIND_UNSUPPORTED_P1 |-> "R_UNSUPPORTED_REPAIR_KIND",
     E_DIMENSION_TIMED_OUT |-> "R_EXTRACTION_TIMEOUT"]

ResolveRepairCode(m) ==
    LET e == ErrorCode(m)
    IN  IF e = "E_VIOLATION"
        THEN IF plan[m].id \in DOMAIN TemplateCode THEN TemplateCode[plan[m].id]
             ELSE "R_USER_VIOLATION"
        ELSE IF e \in DOMAIN CodeOfError THEN CodeOfError[e] ELSE "R_UNKNOWN"

\* _instruction_or_none, for a result with a category.
Instruction(m) ==
    [id |-> plan[m].id, status |-> results[m].status, category |-> CategoryOrNone(m),
     code |-> ResolveRepairCode(m)]

\* emit_repair_plan: a constraint without a category has no instruction.
EmitRepairPlan ==
    [result |-> verdict,
     instructions |-> [m \in {k \in 1..Len(plan) : CategoryOrNone(k) # "none"} |->
                          Instruction(m)]]

-----------------------------------------------------------------------------
(* build_payload and the formats                                           *)

Having(s, Test(_)) == Cardinality({k \in DOMAIN s : Test(s[k])})

\* Mutant: a skipped instruction is counted as unresolved as well.
SummaryDouble(p) ==
    [fix_required |-> Having(p.instructions, LAMBDA i : i.category = "fix_required"),
     suggested |-> Having(p.instructions, LAMBDA i : i.category = "suggested"),
     info |-> Having(p.instructions, LAMBDA i : i.category = "info"),
     unresolved |-> Having(p.instructions, LAMBDA i : i.category = "unresolved"),
     satisfied |-> Having(results, LAMBDA r : r.status = "satisfied"),
     skipped |-> Having(results, LAMBDA r : r.status = "skipped")]

\* _summary
Summary(p) ==
    [fix_required |-> Having(p.instructions, LAMBDA i : i.category = "fix_required"),
     suggested |-> Having(p.instructions, LAMBDA i : i.category = "suggested"),
     info |-> Having(p.instructions, LAMBDA i : i.category = "info"),
     unresolved |-> Having(p.instructions, LAMBDA i :
                              i.category = "unresolved" /\ i.status # "skipped"),
     satisfied |-> Having(results, LAMBDA r : r.status = "satisfied"),
     skipped |-> Having(results, LAMBDA r : r.status = "skipped")]

\* _serialize_constraint_result
SerializeConstraintResult(m) == [id |-> plan[m].id, status |-> results[m].status]

\* _serialize_repair_plan: the keys every instruction is written with.
InstructionKeys == {"id", "status", "category", "code"}
SerializeRepairPlan(p) ==
    [result |-> p.result,
     instructions |-> [k \in DOMAIN p.instructions |->
                          [f \in InstructionKeys |-> p.instructions[k][f]]]]

\* build_payload
BuildPayload ==
    LET p == EmitRepairPlan
    IN  [written |-> TRUE, subcommand |-> request.command, verdict |-> verdict,
         summary |-> Summary(p),
         results |-> [m \in 1..Len(plan) |-> SerializeConstraintResult(m)],
         repair_plan |-> SerializeRepairPlan(p)]

\* _CATEGORY_ORDER of the human format, _CATEGORY_SECTIONS of the adapters.
Sections == {"fix_required", "suggested", "unresolved", "info"}
CompiledSections == {"fix_required", "suggested", "info", "unresolved"}

\* The instructions of each section.
InSections(instructions, sections) ==
    {[id |-> instructions[k].id, mark |-> instructions[k].category] :
        k \in {j \in DOMAIN instructions : instructions[j].category \in sections}}

\* _instructions_by_id: the category of the last instruction of an id, if any.
CategoryById(p, id) ==
    LET s == p.repair_plan.instructions
        found == {k \in DOMAIN s : s[k].id = id}
    IN  IF found = {} THEN "none"
        ELSE s[CHOOSE k \in found : \A j \in found : j <= k].category

\* Mutant: the level is read off the status of the result alone.
LevelByStatus(p, r) ==
    CASE r.status = "satisfied" -> "none"
      [] r.status = "violated" -> "error"
      [] OTHER -> "note"

\* _level of output_sarif.py
Level(p, r) ==
    LET category == CategoryById(p, r.id)
    IN  CASE r.status = "satisfied" -> "none"
          [] r.status = "skipped" -> "note"
          [] OTHER -> CASE category = "fix_required" -> "error"
                        [] category = "suggested" -> "warning"
                        [] OTHER -> "note"

\* _sarif_result
SarifResult(p, r) == [id |-> r.id, mark |-> Level(p, r)]

\* format_sarif, the code results: one per constraint, satisfied ones too.
FormatSarif(p) == {SarifResult(p, p.results[m]) : m \in DOMAIN p.results}

\* format_gh_actions with _command_name
FormatGhActions(p) ==
    LET s == p.repair_plan.instructions
    IN  {[id |-> s[k].id,
          mark |-> CASE s[k].category = "fix_required" -> "error"
                     [] s[k].category = "suggested" -> "warning"
                     [] OTHER -> "notice"] : k \in DOMAIN s}

\* format_human with _instruction_lines: a skipped one is labelled as such.
FormatHuman(p) ==
    LET s == p.repair_plan.instructions
    IN  {[id |-> s[k].id,
          mark |-> IF s[k].status = "skipped" THEN "skipped" ELSE s[k].category] :
            k \in {j \in DOMAIN s : s[j].category \in Sections}}

\* _render_payload; the JSON itself shows its reader the plan as it stands.
Rendered(p, format) ==
    CASE format = "sarif" -> FormatSarif(p)
      [] format = "gh-actions" -> FormatGhActions(p)
      [] format = "human" -> FormatHuman(p)
      [] OTHER -> LET s == p.repair_plan.instructions
                  IN  {[id |-> s[k].id, mark |-> s[k].category] : k \in DOMAIN s}

\* _write_output can only fail on a file.
WriteMayFail == request.toFile

\* _exit_code_for
ExitCodeFor(v, strict) == IF v = "fail" \/ (v = "repair" /\ strict) THEN 1 ELSE 0

-----------------------------------------------------------------------------
(* The commands                                                            *)

UniqueIds == \A k, m \in 1..Len(plan) : plan[k].id = plan[m].id => k = m

Accepted == UniqueIds /\ \A m \in 1..Len(plan) : plan[m].source = "user" => Compiles(plan[m])

\* compare never passes extracted or timed-out dimensions; validate-plan
\* evaluates the baseline against itself.
Fits(q, w) ==
    /\ q.command # "check" => ~w.smoke /\ w.baseOut = {} /\ w.candOut = {}
    /\ q.command = "validate-plan" => w.base = w.cand

InitFlow ==
    /\ Init
    /\ request \in Requests
    /\ Fits(request, world)
    /\ payload = NoPayload
    /\ shown = {}
    /\ risk = NoRisk
    /\ exit = -1

\* compile_target_svp raises CompileError, before anything is evaluated.
\* validate-plan reports a usage error, the others an engine error.
RejectTarget ==
    /\ exit = -1
    /\ ~Accepted
    /\ exit' = IF request.command = "validate-plan" THEN 2 ELSE 3
    /\ UNCHANGED <<vars, request, payload, shown, risk>>

Judge ==
    /\ exit = -1
    /\ Accepted
    /\ EvaluateNext \/ SkipNext \/ AggregateNext \/ AggregateEnd
    /\ UNCHANGED reportVars

\* The end of run_check and run_compare: the plan, the payload, the rendered
\* output, the exit code.  gh-actions refuses --output; a failed write is a
\* usage error.
Report ==
    /\ exit = -1
    /\ verdict # "none"
    /\ request.command # "validate-plan"
    /\ payload' = BuildPayload
    /\ \/ /\ ~(request.format = "gh-actions" /\ request.toFile)
          /\ shown' = Rendered(payload', request.format)
          /\ exit' = ExitCodeFor(verdict, request.strict)
       \/ /\ WriteMayFail
          /\ shown' = {}
          /\ exit' = 2
    /\ UNCHANGED <<vars, request, risk>>

\* compute_risk_summary, normalize_risk_summary
RiskSummary ==
    LET Ids(Test(_)) == {plan[m].id : m \in {k \in 1..Len(plan) : Test(k)}}
    IN  [computed |-> TRUE,
         authoring_errors |-> Ids(LAMBDA m : plan[m].source = "user"
                                    /\ results[m] = Unknown("authoring")),
         would_violate |-> Ids(LAMBDA m : plan[m].source = "user"
                                    /\ results[m].status = "violated"),
         forbidden_zones |-> Ids(LAMBDA m : plan[m].op \in LockOperators),
         required_additions |-> Ids(LAMBDA m : \/ plan[m].op = "includes_any"
                                               \/ /\ plan[m].op = "includes_all"
                                                  /\ plan[m].expected.items # {}),
         template_implications |-> Ids(LAMBDA m : plan[m].source = "template")]

RiskSummaryKeys == {"authoring_errors", "would_violate", "forbidden_zones",
                    "required_additions", "template_implications"}

\* render_pre_gen of every adapter: a section per key.
RenderPreGen(r) == UNION {{[id |-> i, mark |-> k] : i \in r[k]} : k \in RiskSummaryKeys}

\* The end of run_validate_plan
ValidatePlan ==
    /\ exit = -1
    /\ verdict # "none"
    /\ request.command = "validate-plan"
    /\ risk' = RiskSummary
    /\ \/ shown' = RenderPreGen(risk') /\ exit' = 0
       \/ WriteMayFail /\ shown' = {} /\ exit' = 2
    /\ UNCHANGED <<vars, request, payload>>

\* What a compile-repair run may be given once a JSON report exists: that
\* report, its repair_plan on its own, a report of another schema version
\* whose instructions lack a key, the payload of another command (with a null
\* plan or with none), and input that is not a JSON object.
Inputs == {"report", "raw_plan", "old_report", "observe", "compile", "garbage"}

\* _extract_repair_plan: the instructions of the plan in the input.
ExtractRepairPlan(input) ==
    LET s == payload.repair_plan.instructions
    IN  IF input = "old_report"
        THEN [k \in DOMAIN s |-> [f \in InstructionKeys \ {"code"} |-> s[k][f]]]
        ELSE s

\* deserialize_repair_plan requires every key of every instruction.
Deserializes(instructions) ==
    \A k \in DOMAIN instructions : InstructionKeys \subseteq DOMAIN instructions[k]

\* render_repair of every adapter: the same four sections.
RenderRepair(instructions) == InSections(instructions, CompiledSections)

\* run_compile_repair: the input is refused, or the output cannot be written,
\* with a usage error; any other exception is an internal bug.
CompileRepair(input) ==
    /\ exit \in {0, 1}
    /\ payload.written
    /\ request.format = "json"
    /\ request' = [request EXCEPT !.command = "compile-repair"]
    /\ request.command # "compile-repair"
    /\ \/ /\ input \in {"report", "raw_plan", "old_report"}
          /\ Deserializes(ExtractRepairPlan(input))
          /\ shown' = RenderRepair(ExtractRepairPlan(input))
          /\ exit' = 0
       \/ shown' = {} /\ exit' \in {2, 4}
    /\ UNCHANGED <<vars, payload, risk>>

Done == exit # -1 /\ UNCHANGED allVars

NextFlow ==
    \/ RejectTarget \/ Judge \/ Report \/ ValidatePlan
    \/ \E input \in Inputs : CompileRepair(input)
    \/ Done

SpecFlow == InitFlow /\ [][NextFlow]_allVars

-----------------------------------------------------------------------------
(* Properties                                                              *)

\* The plan and the verdict are two readings of the same results, by
\* _category_or_none and by _aggregate: the verdict is fail exactly when the
\* plan names something to fix, and repair exactly when it only suggests,
\* although the plan drops what a violated lock left unjudged.
PlanExplainsVerdict ==
    payload.written =>
        /\ payload.verdict = "fail" <=> payload.summary.fix_required > 0
        /\ payload.verdict = "repair" <=>
              payload.summary.fix_required = 0 /\ payload.summary.suggested > 0

\* The constraints whose outcome fails the run.
Blockers == {plan[m].id : m \in {k \in 1..Len(results) : Fails(plan[k], results[k])}}

\* Every output names the blockers as such and nothing else: the SARIF levels,
\* the workflow commands, the human report, the JSON plan, and what
\* compile-repair hands to a generator from the JSON written before.
ReportsNameBlockers ==
    exit \in {0, 1} /\ request.command # "validate-plan" =>
        {s.id : s \in {x \in shown : x.mark \in {"error", "fix_required"}}} = Blockers

\* Each result is counted once in the summary line, unless it is an unknown
\* that its policy ignores.
SummaryCountsEachResult ==
    payload.written =>
        LET s == payload.summary
            ignored == {m \in 1..Len(plan) : results[m].status = "unknown"
                            /\ results[m].cause # "authoring" /\ plan[m].policy = "ignore"}
        IN  s.fix_required + s.suggested + s.info + s.unresolved + s.satisfied + s.skipped
                + Cardinality(ignored) = Len(plan)

\* Evaluating the baseline against itself hides nothing from the author of a
\* target: unless there are authoring errors, to be fixed first, every user
\* constraint the baseline already violates is listed, for no lock is violated
\* and none cuts the loop; and no lock is ever listed.
RiskSummaryComplete ==
    risk.computed /\ exit = 0 =>
        LET Listed(key) == {s.id : s \in {x \in shown : x.mark = key}}
        IN  /\ Listed("authoring_errors") = {} =>
                  Listed("would_violate") =
                     {plan[m].id : m \in {k \in 1..Len(plan) : plan[k].source = "user"
                                               /\ FullResult(k).status = "violated"}}
            /\ Listed("would_violate") \cap Listed("forbidden_zones") = {}

=============================================================================
