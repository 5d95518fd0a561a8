-------------------------- MODULE RepairFlowProofs --------------------------
(***************************************************************************)
(* What is made of a verdict says what the verdict says: the repair plan,  *)
(* every output format, the summary line and the risk summary, for every   *)
(* target, comparison and command line.                                    *)
(***************************************************************************)
EXTENDS RepairFlow, ConstraintEvaluatorProofs

-----------------------------------------------------------------------------
(* The inductive invariant                                                 *)

\* The payload is built from the results as they stand.
PayloadSays ==
    payload.written =>
        /\ verdict # "none"
        /\ request.command # "validate-plan"
        /\ payload.verdict = verdict
        /\ payload.summary = Summary(EmitRepairPlan)
        /\ payload.results = [m \in 1..Len(plan) |-> SerializeConstraintResult(m)]
        /\ payload.repair_plan = SerializeRepairPlan(EmitRepairPlan)

\* What a successful command showed is a rendering of that payload.
ShownSays ==
    exit \in {0, 1} /\ request.command # "validate-plan" =>
        /\ payload.written
        /\ \/ shown = Rendered(payload, request.format)
           \/ \E input \in Inputs : shown = RenderRepair(ExtractRepairPlan(input))

RiskSays ==
    risk.computed =>
        /\ verdict # "none"
        /\ request.command = "validate-plan"
        /\ risk = RiskSummary
        /\ exit = 0 => shown = RenderPreGen(risk)

FlowInv ==
    /\ EvalInv
    /\ request \in [command : Commands \cup {"compile-repair"}, format : Formats,
                    strict : BOOLEAN, toFile : BOOLEAN]
    /\ verdict # "none" => Accepted
    /\ request.command = "validate-plan" => Fits(request, world)
    /\ PayloadSays
    /\ ShownSays
    /\ RiskSays

-----------------------------------------------------------------------------
(* The commands contain the loops of the evaluator                         *)

LEMMA FlowSteps == NextFlow => [Next]_vars
  BY DEF NextFlow, RejectTarget, Judge, Report, ValidatePlan, CompileRepair, Done,
         allVars, Next, vars

\* Once there is a verdict nothing is judged any more.
LEMMA VerdictIsLast ==
    ASSUME EvalInv, verdict # "none"
    PROVE  ~Judge
<1>1. Len(results) = Len(plan) /\ Len(plan) \in Nat
  BY PlanIsSequence DEF EvalInv, Aggregation
<1> QED
  BY <1>1 DEF Judge, EvaluateNext, SkipNext, AggregateNext, AggregateEnd

\* What is read off the results depends on nothing else.
LEMMA ReadingsUnchanged ==
    ASSUME UNCHANGED <<plan, world, results, verdict>>
    PROVE  /\ Summary(EmitRepairPlan)' = Summary(EmitRepairPlan)
           /\ SerializeRepairPlan(EmitRepairPlan)' = SerializeRepairPlan(EmitRepairPlan)
           /\ \A m : SerializeConstraintResult(m)' = SerializeConstraintResult(m)
           /\ RiskSummary' = RiskSummary
           /\ Accepted' = Accepted
<1>1. \A m : ErrorCode(m)' = ErrorCode(m)
  BY DEF ErrorCode, ShortSkipped
<1>2. \A m : CategoryOrNone(m)' = CategoryOrNone(m)
  BY <1>1 DEF CategoryOrNone
<1>3. \A m : Instruction(m)' = Instruction(m)
  BY <1>1, <1>2 DEF Instruction, ResolveRepairCode
<1>4. EmitRepairPlan' = EmitRepairPlan
  BY <1>2, <1>3 DEF EmitRepairPlan
<1>5. Summary(EmitRepairPlan)' = Summary(EmitRepairPlan)
  BY <1>4 DEF Summary, Having
<1>6. SerializeRepairPlan(EmitRepairPlan)' = SerializeRepairPlan(EmitRepairPlan)
  BY <1>4 DEF SerializeRepairPlan
<1>7. \A m : SerializeConstraintResult(m)' = SerializeConstraintResult(m)
  BY DEF SerializeConstraintResult
<1>8. RiskSummary' = RiskSummary
  BY DEF RiskSummary
<1>9. Accepted' = Accepted
  BY DEF Accepted, UniqueIds
<1> QED
  BY <1>5, <1>6, <1>7, <1>8, <1>9

LEMMA FlowInit == InitFlow => FlowInv
<1> SUFFICES ASSUME InitFlow PROVE FlowInv
  OBVIOUS
<1>1. Init /\ verdict = "none" /\ Fits(request, world) /\ exit = -1
      /\ ~payload.written /\ ~risk.computed
  BY DEF InitFlow, Init, NoPayload, NoRisk
<1>2. request \in [command : Commands \cup {"compile-repair"}, format : Formats,
                   strict : BOOLEAN, toFile : BOOLEAN]
  BY RequestTypes DEF InitFlow
<1> QED
  BY <1>1, <1>2, EvalInit DEF FlowInv, PayloadSays, ShownSays, RiskSays

LEMMA RejectStep == FlowInv /\ RejectTarget => FlowInv'
<1> SUFFICES ASSUME FlowInv, RejectTarget PROVE FlowInv'
  OBVIOUS
<1>1. UNCHANGED <<vars, request, payload, shown, risk>> /\ exit' \in {2, 3}
  BY DEF RejectTarget
<1>2. UNCHANGED <<plan, world, results, verdict>> /\ UNCHANGED vars
  BY <1>1 DEF vars
<1>3. EvalInv'
  BY <1>2, EvalNext DEF FlowInv
<1>4. PayloadSays' /\ RiskSays'
  BY <1>1, <1>2, ReadingsUnchanged DEF FlowInv, PayloadSays, RiskSays
<1>5. ShownSays'
  BY <1>1 DEF ShownSays
<1> QED
  BY <1>1, <1>2, <1>3, <1>4, <1>5, ReadingsUnchanged DEF FlowInv, Fits

LEMMA JudgeStep == FlowInv /\ Judge => FlowInv'
<1> SUFFICES ASSUME FlowInv, Judge PROVE FlowInv'
  OBVIOUS
<1>1. UNCHANGED <<request, payload, shown, risk, exit>> /\ exit = -1 /\ Accepted
  BY DEF Judge, reportVars
<1>2. UNCHANGED <<plan, world>>
  BY DEF Judge, EvaluateNext, SkipNext, AggregateNext, AggregateEnd
<1>3. EvalInv'
  BY EvalNext DEF FlowInv, Judge, Next
<1>4. verdict = "none"
  BY VerdictIsLast DEF FlowInv
<1>5. ~payload.written /\ ~risk.computed
  BY <1>4 DEF FlowInv, PayloadSays, RiskSays
<1>6. PayloadSays' /\ RiskSays' /\ ShownSays'
  BY <1>1, <1>5 DEF PayloadSays, RiskSays, ShownSays
<1>7. Accepted'
  BY <1>1, <1>2 DEF Accepted, UniqueIds
<1> QED
  BY <1>1, <1>2, <1>3, <1>6, <1>7 DEF FlowInv, Fits

LEMMA ReportStep == FlowInv /\ Report => FlowInv'
<1> SUFFICES ASSUME FlowInv, Report PROVE FlowInv'
  OBVIOUS
<1>1. /\ UNCHANGED <<vars, request, risk>> /\ verdict # "none"
      /\ request.command # "validate-plan" /\ payload' = BuildPayload
      /\ \/ shown' = Rendered(payload', request.format)
         \/ exit' = 2
  BY DEF Report
<1>2. UNCHANGED <<plan, world, results, verdict>> /\ UNCHANGED vars
  BY <1>1 DEF vars
<1>3. EvalInv'
  BY <1>2, EvalNext DEF FlowInv
<1>4. /\ payload'.written /\ payload'.verdict = verdict
      /\ payload'.summary = Summary(EmitRepairPlan)
      /\ payload'.results = [m \in 1..Len(plan) |-> SerializeConstraintResult(m)]
      /\ payload'.repair_plan = SerializeRepairPlan(EmitRepairPlan)
  BY <1>1 DEF BuildPayload
<1>5. PayloadSays'
  BY <1>1, <1>2, <1>4, ReadingsUnchanged DEF PayloadSays
<1>6. ShownSays'
  BY <1>1, <1>4 DEF ShownSays
<1>7. RiskSays'
  BY <1>1 DEF FlowInv, RiskSays
<1> QED
  BY <1>1, <1>2, <1>3, <1>5, <1>6, <1>7, ReadingsUnchanged DEF FlowInv, Fits

LEMMA ValidateStep == FlowInv /\ ValidatePlan => FlowInv'
<1> SUFFICES ASSUME FlowInv, ValidatePlan PROVE FlowInv'
  OBVIOUS
<1>1. /\ UNCHANGED <<vars, request, payload>> /\ verdict # "none"
      /\ request.command = "validate-plan" /\ risk' = RiskSummary
      /\ \/ shown' = RenderPreGen(risk')
         \/ exit' = 2
  BY DEF ValidatePlan
<1>2. UNCHANGED <<plan, world, results, verdict>> /\ UNCHANGED vars
  BY <1>1 DEF vars
<1>3. EvalInv'
  BY <1>2, EvalNext DEF FlowInv
<1>4. PayloadSays' /\ ShownSays'
  BY <1>1 DEF FlowInv, PayloadSays, ShownSays
<1>5. RiskSays'
  BY <1>1, <1>2, ReadingsUnchanged DEF RiskSays, RenderPreGen
<1> QED
  BY <1>1, <1>2, <1>3, <1>4, <1>5, ReadingsUnchanged DEF FlowInv, Fits

LEMMA CompileRepairStep ==
    ASSUME FlowInv, NEW input \in Inputs, CompileRepair(input)
    PROVE  FlowInv'
<1>1. /\ UNCHANGED <<vars, payload, risk>> /\ payload.written
      /\ request' = [request EXCEPT !.command = "compile-repair"]
      /\ \/ shown' = RenderRepair(ExtractRepairPlan(input))
         \/ exit' \in {2, 4}
  BY DEF CompileRepair
<1>2. UNCHANGED <<plan, world, results, verdict>> /\ UNCHANGED vars
  BY <1>1 DEF vars
<1>3. EvalInv'
  BY <1>2, EvalNext DEF FlowInv
<1>4. request'.command # "validate-plan"
  BY <1>1 DEF FlowInv
<1>5. PayloadSays'
  BY <1>1, <1>2, <1>4, ReadingsUnchanged DEF FlowInv, PayloadSays
<1>6. RiskSays'
  BY <1>1 DEF FlowInv, PayloadSays, RiskSays
<1>7. ShownSays'
  BY <1>1 DEF ShownSays, RenderRepair, ExtractRepairPlan
<1> QED
  BY <1>1, <1>2, <1>3, <1>4, <1>5, <1>6, <1>7, ReadingsUnchanged DEF FlowInv

LEMMA FlowNext == FlowInv /\ [NextFlow]_allVars => FlowInv'
<1> SUFFICES ASSUME FlowInv, [NextFlow]_allVars PROVE FlowInv'
  OBVIOUS
<1>1. CASE UNCHANGED allVars
  <2>1. UNCHANGED vars /\ UNCHANGED reportVars
    BY <1>1 DEF allVars
  <2>2. UNCHANGED <<plan, world, results, verdict>>
        /\ UNCHANGED <<request, payload, shown, risk, exit>>
    BY <2>1 DEF vars, reportVars
  <2>3. EvalInv'
    BY <2>1, EvalNext DEF FlowInv
  <2>4. PayloadSays' /\ RiskSays'
    BY <2>2, ReadingsUnchanged DEF FlowInv, PayloadSays, RiskSays, RenderPreGen
  <2>5. ShownSays'
    BY <2>2 DEF FlowInv, ShownSays, RenderRepair, ExtractRepairPlan
  <2> QED
    BY <2>2, <2>3, <2>4, <2>5, ReadingsUnchanged DEF FlowInv, Fits
<1> QED
  BY <1>1, RejectStep, JudgeStep, ReportStep, ValidateStep, CompileRepairStep DEF NextFlow, Done

LEMMA FlowInvariant == SpecFlow => []FlowInv
  BY FlowInit, FlowNext, PTL DEF SpecFlow

-----------------------------------------------------------------------------
(* _category_or_none and _aggregate read the results alike                 *)

\* The results when there is a verdict: one outcome for each constraint.
LEMMA AllJudged ==
    ASSUME EvalInv, verdict # "none"
    PROVE  /\ Len(results) = Len(plan) /\ Len(plan) \in Nat
           /\ \A m \in 1..Len(plan) : plan[m] \in CompiledConstraint /\ results[m] \in Outcomes
<1>1. Len(results) = Len(plan) /\ plan \in Seq(CompiledConstraint) /\ Len(plan) \in Nat
  BY PlanIsSequence DEF EvalInv, Aggregation
<1>2. results \in Seq(Outcomes)
  BY DEF EvalInv, TypeOK
<1> QED
  BY <1>1, <1>2

LEMMA Categories ==
    ASSUME EvalInv, verdict # "none", NEW m \in 1..Len(plan)
    PROVE  LET c == plan[m]
               r == results[m]
               x == CategoryOrNone(m)
           IN  /\ x \in Sections \cup {"none"}
               /\ x = "fix_required" <=> Fails(c, r)
               /\ x = "suggested" <=> Repairs(c, r)
               /\ r.status \in {"satisfied", "violated", "unknown", "skipped"}
               /\ r.status = "satisfied" => x = "none"
               /\ r.status = "skipped" => x \in {"none", "unresolved"}
               /\ r.status \in {"violated", "unknown"} =>
                     (x = "none" <=> /\ r.status = "unknown" /\ r.cause # "authoring"
                                     /\ c.policy = "ignore")
<1> DEFINE c == plan[m]
           r == results[m]
           x == CategoryOrNone(m)
<1>1. c.severity \in {"hard", "soft", "info"} /\ c.policy \in {"fail", "repair", "warn", "ignore"}
  BY AllJudged DEF CompiledConstraint
<1>2. r.status \in {"satisfied", "violated", "unknown", "skipped"}
  BY AllJudged DEF Outcomes, Statuses
<1>3. CASE r.status = "violated"
  <2>1. x = [hard |-> "fix_required", soft |-> "suggested", info |-> "info"][c.severity]
    BY <1>3 DEF CategoryOrNone
  <2> QED
    BY <1>1, <1>3, <2>1 DEF Fails, Repairs, Sections
<1>4. CASE r.status = "unknown" /\ r.cause = "authoring"
  <2>1. x = "fix_required"
    BY <1>4 DEF CategoryOrNone
  <2> QED
    BY <1>4, <2>1 DEF Fails, Repairs, Sections
<1>5. CASE r.status = "unknown" /\ r.cause # "authoring"
  <2>1. x = [fail |-> "fix_required", repair |-> "suggested",
             warn |-> "unresolved", ignore |-> "none"][c.policy]
    BY <1>5 DEF CategoryOrNone
  <2> QED
    BY <1>1, <1>5, <2>1 DEF Fails, Repairs, Sections
<1>6. CASE r.status \in {"satisfied", "skipped"}
  <2>1. x = "none" \/ (r.status = "skipped" /\ x = "unresolved")
    BY <1>6 DEF CategoryOrNone
  <2> QED
    BY <1>6, <2>1 DEF Fails, Repairs, Sections
<1> QED
  BY <1>2, <1>3, <1>4, <1>5, <1>6

\* The verdict over all constraints is the verdict over the results: what was
\* skipped was skipped after a failure that is among them.
LEMMA VerdictOfResults ==
    ASSUME EvalInv, verdict # "none"
    PROVE  LET fails == \E m \in 1..Len(plan) : Fails(plan[m], results[m])
               repairs == \E m \in 1..Len(plan) : Repairs(plan[m], results[m])
           IN  verdict = IF fails THEN "fail" ELSE IF repairs THEN "repair" ELSE "pass"
<1>1. Len(results) = Len(plan) /\ Len(plan) \in Nat
  BY AllJudged
<1>2. verdict = FullVerdict
  BY DEF EvalInv, VerdictIsFull
<1>3. \A m \in 1..Len(plan) :
          results[m] = FullResult(m) \/ (results[m] = Skipped /\ FailureSeen(m))
  BY <1>1 DEF EvalInv, ResultsFaithful
<1>4. CASE \E m \in 1..Len(plan) : Fails(plan[m], results[m])
  <2>1. \E m \in 1..Len(plan) : Fails(plan[m], FullResult(m))
    BY <1>3, <1>4, SkippedIsNeutral
  <2> QED
    BY <1>2, <1>4, <2>1 DEF FullVerdict
<1>5. CASE ~\E m \in 1..Len(plan) : Fails(plan[m], results[m])
  <2>1. \A m \in 1..Len(plan) : ~FailureSeen(m)
    BY <1>1, <1>5 DEF FailureSeen
  <2>2. \A m \in 1..Len(plan) : results[m] = FullResult(m)
    BY <1>3, <2>1
  <2> QED
    BY <1>2, <1>5, <2>2 DEF FullVerdict
<1> QED
  BY <1>4, <1>5

-----------------------------------------------------------------------------
(* The plan and the summary line                                           *)

\* The instructions of the payload: those of the constraints with a category.
LEMMA PlanOf ==
    ASSUME FlowInv, payload.written
    PROVE  LET s == payload.repair_plan.instructions
           IN  /\ DOMAIN s = {m \in 1..Len(plan) : CategoryOrNone(m) # "none"}
               /\ \A m \in DOMAIN s : /\ s[m].id = plan[m].id
                                      /\ s[m].status = results[m].status
                                      /\ s[m].category = CategoryOrNone(m)
<1> DEFINE D == {m \in 1..Len(plan) : CategoryOrNone(m) # "none"}
           s == payload.repair_plan.instructions
<1>1. EmitRepairPlan.instructions = [m \in D |-> Instruction(m)]
  BY DEF EmitRepairPlan
<1>2. payload.repair_plan = SerializeRepairPlan(EmitRepairPlan)
  BY DEF FlowInv, PayloadSays
<1> HIDE DEF D
<1>3. s = [m \in D |-> [f \in InstructionKeys |-> Instruction(m)[f]]]
  BY <1>1, <1>2 DEF SerializeRepairPlan
<1>4. \A m \in D : /\ s[m].id = Instruction(m).id
                   /\ s[m].status = Instruction(m).status
                   /\ s[m].category = Instruction(m).category
  BY <1>3 DEF InstructionKeys
<1> QED
  BY <1>3, <1>4 DEF Instruction, D

\* The constraints the summary line counts under a category.
InCategory(x) == {m \in 1..Len(plan) : CategoryOrNone(m) = x}
WithStatus(x) == {m \in 1..Len(plan) : results[m].status = x}

LEMMA SummaryOf ==
    ASSUME FlowInv, payload.written
    PROVE  LET s == payload.summary
           IN  /\ s.fix_required = Cardinality(InCategory("fix_required"))
               /\ s.suggested = Cardinality(InCategory("suggested"))
               /\ s.info = Cardinality(InCategory("info"))
               /\ s.unresolved = Cardinality(InCategory("unresolved") \ WithStatus("skipped"))
               /\ s.satisfied = Cardinality(WithStatus("satisfied"))
               /\ s.skipped = Cardinality(WithStatus("skipped"))
<1> DEFINE D == {m \in 1..Len(plan) : CategoryOrNone(m) # "none"}
           i == EmitRepairPlan.instructions
<1>1. i = [m \in D |-> Instruction(m)]
  BY DEF EmitRepairPlan
<1>2. payload.summary = Summary(EmitRepairPlan) /\ verdict # "none" /\ EvalInv
  BY DEF FlowInv, PayloadSays
<1>3. DOMAIN results = 1..Len(plan)
  BY <1>2, AllJudged DEF EvalInv, TypeOK
<1>4. /\ DOMAIN i = D
      /\ \A m \in D : i[m].category = CategoryOrNone(m) /\ i[m].status = results[m].status
  BY <1>1 DEF Instruction
<1> HIDE DEF i
<1>5. \A x : x # "none" => {k \in DOMAIN i : i[k].category = x} = InCategory(x)
  BY <1>4 DEF InCategory
<1>6. {k \in DOMAIN i : i[k].category = "unresolved" /\ i[k].status # "skipped"}
          = InCategory("unresolved") \ WithStatus("skipped")
  BY <1>4 DEF InCategory, WithStatus
<1>7. \A x : {k \in DOMAIN results : results[k].status = x} = WithStatus(x)
  BY <1>3 DEF WithStatus
<1>8. /\ payload.summary.fix_required = Cardinality({k \in DOMAIN i : i[k].category = "fix_required"})
      /\ payload.summary.suggested = Cardinality({k \in DOMAIN i : i[k].category = "suggested"})
      /\ payload.summary.info = Cardinality({k \in DOMAIN i : i[k].category = "info"})
      /\ payload.summary.unresolved
            = Cardinality({k \in DOMAIN i : i[k].category = "unresolved" /\ i[k].status # "skipped"})
      /\ payload.summary.satisfied = Cardinality({k \in DOMAIN results : results[k].status = "satisfied"})
      /\ payload.summary.skipped = Cardinality({k \in DOMAIN results : results[k].status = "skipped"})
  BY <1>2 DEF Summary, Having, i
<1> QED
  BY <1>5, <1>6, <1>7, <1>8

LEMMA CategoryFinite ==
    ASSUME Len(plan) \in Nat
    PROVE  /\ \A S \in SUBSET (1..Len(plan)) : IsFiniteSet(S) /\ Cardinality(S) \in Nat
           /\ Cardinality(1..Len(plan)) = Len(plan)
<1>1. IsFiniteSet(1..Len(plan)) /\ Cardinality(1..Len(plan)) = Len(plan)
  BY FS_Interval
<1>2. \A S \in SUBSET (1..Len(plan)) : IsFiniteSet(S)
  BY <1>1, FS_Subset
<1> QED
  BY <1>1, <1>2, FS_CardinalityType

\* For every target, comparison and command line the verdict is fail exactly
\* when the repair plan names something to fix, and repair exactly when it
\* only suggests.
THEOREM PlanAndVerdictAgree == SpecFlow => []PlanExplainsVerdict
<1>1. FlowInv => PlanExplainsVerdict
  <2> SUFFICES ASSUME FlowInv, payload.written
               PROVE  /\ payload.verdict = "fail" <=> payload.summary.fix_required > 0
                      /\ payload.verdict = "repair" <=>
                            payload.summary.fix_required = 0 /\ payload.summary.suggested > 0
    BY DEF PlanExplainsVerdict
  <2>1. EvalInv /\ verdict # "none" /\ payload.verdict = verdict
    BY DEF FlowInv, PayloadSays
  <2> DEFINE F == InCategory("fix_required")
             G == InCategory("suggested")
  <2>2. F # {} <=> \E m \in 1..Len(plan) : Fails(plan[m], results[m])
    BY <2>1, Categories DEF InCategory
  <2>3. G # {} <=> \E m \in 1..Len(plan) : Repairs(plan[m], results[m])
    BY <2>1, Categories DEF InCategory
  <2>4. F \in SUBSET (1..Len(plan)) /\ G \in SUBSET (1..Len(plan))
    BY DEF InCategory
  <2> HIDE DEF F, G
  <2>5. /\ Cardinality(F) \in Nat /\ (Cardinality(F) = 0 <=> F = {})
        /\ Cardinality(G) \in Nat /\ (Cardinality(G) = 0 <=> G = {})
    BY <2>1, <2>4, AllJudged, CategoryFinite, FS_EmptySet
  <2>6. payload.summary.fix_required = Cardinality(F) /\ payload.summary.suggested = Cardinality(G)
    BY SummaryOf DEF F, G
  <2>7. verdict = IF F # {} THEN "fail" ELSE IF G # {} THEN "repair" ELSE "pass"
    BY <2>1, <2>2, <2>3, VerdictOfResults
  <2> QED
    BY <2>1, <2>5, <2>6, <2>7
<1> QED
  BY <1>1, FlowInvariant, PTL

\* Disjoint sets of constraints are counted one after the other.
LEMMA CountBoth ==
    ASSUME Len(plan) \in Nat, NEW S \in SUBSET (1..Len(plan)), NEW T \in SUBSET (1..Len(plan)),
           S \cap T = {}
    PROVE  /\ Cardinality(S \cup T) = Cardinality(S) + Cardinality(T)
           /\ S \cup T \in SUBSET (1..Len(plan))
<1>1. IsFiniteSet(S) /\ IsFiniteSet(T) /\ Cardinality(S) \in Nat /\ Cardinality(T) \in Nat
  BY CategoryFinite
<1>2. Cardinality(S \cup T) = Cardinality(S) + Cardinality(T) - Cardinality(S \cap T)
  BY <1>1, FS_Union
<1>3. Cardinality(S \cap T) = 0
  BY FS_EmptySet
<1> QED
  BY <1>1, <1>2, <1>3

\* Each result of a report is counted once in its summary line, for every
\* target and comparison, unless it is an unknown that its policy ignores.
THEOREM SummaryAddsUp == SpecFlow => []SummaryCountsEachResult
<1>1. FlowInv => SummaryCountsEachResult
  <2> DEFINE N == 1..Len(plan)
             ignored == {m \in N : results[m].status = "unknown"
                            /\ results[m].cause # "authoring" /\ plan[m].policy = "ignore"}
             s == payload.summary
  <2> SUFFICES ASSUME FlowInv, payload.written
               PROVE  s.fix_required + s.suggested + s.info + s.unresolved + s.satisfied
                         + s.skipped + Cardinality(ignored) = Len(plan)
    BY DEF SummaryCountsEachResult
  <2>1. EvalInv /\ verdict # "none" /\ Len(plan) \in Nat
    BY AllJudged DEF FlowInv, PayloadSays
  <2> DEFINE A == InCategory("fix_required")
             B == InCategory("suggested")
             C == InCategory("info")
             D == InCategory("unresolved") \ WithStatus("skipped")
             E == WithStatus("satisfied")
             F == WithStatus("skipped")
  <2>2. /\ A \subseteq N /\ B \subseteq N /\ C \subseteq N /\ D \subseteq N
        /\ E \subseteq N /\ F \subseteq N /\ ignored \subseteq N
    BY DEF InCategory, WithStatus
  <2>3. A \cap B = {} /\ (A \cup B) \cap C = {} /\ (A \cup B \cup C) \cap D = {}
    BY DEF InCategory
  <2>4. \A m \in A \cup B \cup C \cup D : results[m].status \in {"violated", "unknown"}
    BY <2>1, Categories DEF InCategory, WithStatus
  <2>5. (A \cup B \cup C \cup D) \cap E = {} /\ (A \cup B \cup C \cup D \cup E) \cap F = {}
    BY <2>4 DEF WithStatus
  <2>6. \A m \in ignored : CategoryOrNone(m) = "none"
    BY <2>1, Categories
  <2>7. (A \cup B \cup C \cup D \cup E \cup F) \cap ignored = {}
    BY <2>6 DEF InCategory, WithStatus
  <2>8. A \cup B \cup C \cup D \cup E \cup F \cup ignored = N
    <3> SUFFICES ASSUME NEW m \in N PROVE m \in A \cup B \cup C \cup D \cup E \cup F \cup ignored
      BY <2>2
    <3>1. /\ results[m].status \in {"satisfied", "violated", "unknown", "skipped"}
          /\ CategoryOrNone(m) \in Sections \cup {"none"}
          /\ results[m].status \in {"violated", "unknown"} =>
                (CategoryOrNone(m) = "none" <=> m \in ignored)
      BY <2>1, Categories
    <3> QED
      BY <3>1 DEF InCategory, WithStatus, Sections
  <2>9. /\ s.fix_required = Cardinality(A) /\ s.suggested = Cardinality(B)
        /\ s.info = Cardinality(C) /\ s.unresolved = Cardinality(D)
        /\ s.satisfied = Cardinality(E) /\ s.skipped = Cardinality(F)
    BY SummaryOf
  <2> HIDE DEF A, B, C, D, E, F, ignored, s
  <2>10. Cardinality(A \cup B) = Cardinality(A) + Cardinality(B) /\ A \cup B \in SUBSET N
    BY <2>1, <2>2, <2>3, CountBoth
  <2>11. /\ Cardinality(A \cup B \cup C) = Cardinality(A \cup B) + Cardinality(C)
         /\ A \cup B \cup C \in SUBSET N
    BY <2>1, <2>2, <2>3, <2>10, CountBoth
  <2>12. /\ Cardinality(A \cup B \cup C \cup D) = Cardinality(A \cup B \cup C) + Cardinality(D)
         /\ A \cup B \cup C \cup D \in SUBSET N
    BY <2>1, <2>2, <2>3, <2>11, CountBoth
  <2>13. /\ Cardinality(A \cup B \cup C \cup D \cup E)
               = Cardinality(A \cup B \cup C \cup D) + Cardinality(E)
         /\ A \cup B \cup C \cup D \cup E \in SUBSET N
    BY <2>1, <2>2, <2>5, <2>12, CountBoth
  <2>14. /\ Cardinality(A \cup B \cup C \cup D \cup E \cup F)
               = Cardinality(A \cup B \cup C \cup D \cup E) + Cardinality(F)
         /\ A \cup B \cup C \cup D \cup E \cup F \in SUBSET N
    BY <2>1, <2>2, <2>5, <2>13, CountBoth
  <2>15. Cardinality(A \cup B \cup C \cup D \cup E \cup F \cup ignored)
             = Cardinality(A \cup B \cup C \cup D \cup E \cup F) + Cardinality(ignored)
    BY <2>1, <2>2, <2>7, <2>14, CountBoth
  <2>16. Cardinality(N) = Len(plan)
    BY <2>1, CategoryFinite
  <2>17. /\ Cardinality(A) \in Nat /\ Cardinality(B) \in Nat /\ Cardinality(C) \in Nat
         /\ Cardinality(D) \in Nat /\ Cardinality(E) \in Nat /\ Cardinality(F) \in Nat
         /\ Cardinality(ignored) \in Nat
    BY <2>1, <2>2, CategoryFinite
  <2>18. Cardinality(A) + Cardinality(B) + Cardinality(C) + Cardinality(D) + Cardinality(E)
             + Cardinality(F) + Cardinality(ignored) = Len(plan)
    BY <2>8, <2>10, <2>11, <2>12, <2>13, <2>14, <2>15, <2>16
  <2> QED
    BY <2>9, <2>18
<1> QED
  BY <1>1, FlowInvariant, PTL

-----------------------------------------------------------------------------
(* The formats                                                             *)

Severe == {"error", "fix_required"}
MarkedIds(S) == {x.id : x \in {y \in S : y.mark \in Severe}}
Marked(D, mark) == {[id |-> plan[m].id, mark |-> mark[m]] : m \in D}

\* An output that marks the constraints of D with `mark`, and severely those
\* that fail, names the blockers.
LEMMA NamesBlockers ==
    ASSUME NEW D \in SUBSET (1..Len(plan)), NEW mark, Len(results) = Len(plan),
           \A m \in 1..Len(plan) :
               Fails(plan[m], results[m]) <=> m \in D /\ mark[m] \in Severe
    PROVE  MarkedIds(Marked(D, mark)) = Blockers
<1> DEFINE S == Marked(D, mark)
<1>1. ASSUME NEW i \in MarkedIds(S) PROVE i \in Blockers
  <2>1. PICK x \in S : x.mark \in Severe /\ x.id = i
    BY <1>1 DEF MarkedIds
  <2>2. PICK m \in D : x = [id |-> plan[m].id, mark |-> mark[m]]
    BY <2>1 DEF Marked
  <2>3. mark[m] \in Severe /\ plan[m].id = i
    BY <2>1, <2>2
  <2> QED
    BY <2>3 DEF Blockers
<1>2. ASSUME NEW i \in Blockers PROVE i \in MarkedIds(S)
  <2>1. PICK m \in 1..Len(plan) : Fails(plan[m], results[m]) /\ plan[m].id = i
    BY <1>2 DEF Blockers
  <2> DEFINE x == [id |-> plan[m].id, mark |-> mark[m]]
  <2>2. x \in S /\ x.mark \in Severe /\ x.id = i
    BY <2>1 DEF Marked
  <2> HIDE DEF S, x
  <2> QED
    BY <2>2 DEF MarkedIds
<1> QED
  BY <1>1, <1>2

\* What is shared by the formats: the plan of the payload and its constraints.
LEMMA PayloadFacts ==
    ASSUME FlowInv, payload.written
    PROVE  /\ EvalInv /\ verdict # "none" /\ Accepted
           /\ Len(results) = Len(plan)
           /\ DOMAIN payload.repair_plan.instructions
                 = {m \in 1..Len(plan) : CategoryOrNone(m) # "none"}
           /\ \A m \in 1..Len(plan) :
                 /\ CategoryOrNone(m) \in Sections \cup {"none"}
                 /\ CategoryOrNone(m) = "fix_required" <=> Fails(plan[m], results[m])
                 /\ results[m].status \in {"skipped", "satisfied"} =>
                       CategoryOrNone(m) \in {"none", "unresolved"}
  BY AllJudged, PlanOf, Categories DEF FlowInv, PayloadSays

\* The JSON plan, and what compile-repair renders of it.
LEMMA PlanNamesBlockers ==
    ASSUME FlowInv, payload.written, NEW s, DOMAIN s = DOMAIN payload.repair_plan.instructions,
           \A m \in DOMAIN s : s[m].id = plan[m].id /\ s[m].category = CategoryOrNone(m)
    PROVE  /\ MarkedIds({[id |-> s[k].id, mark |-> s[k].category] : k \in DOMAIN s}) = Blockers
           /\ MarkedIds(InSections(s, CompiledSections)) = Blockers
<1> DEFINE D == DOMAIN s
           mark == [m \in 1..Len(plan) |-> CategoryOrNone(m)]
           S == {[id |-> s[k].id, mark |-> s[k].category] : k \in DOMAIN s}
<1>1. D \in SUBSET (1..Len(plan)) /\ \A m \in 1..Len(plan) : m \in D <=> CategoryOrNone(m) # "none"
  BY PayloadFacts
<1>2. \A m \in 1..Len(plan) : Fails(plan[m], results[m]) <=> m \in D /\ mark[m] \in Severe
  BY <1>1, PayloadFacts DEF Severe, Sections
<1>3. S = Marked(D, mark)
  BY <1>1 DEF Marked
<1>4. InSections(s, CompiledSections) = S
  <2>1. \A m \in D : s[m].category \in CompiledSections
    BY <1>1, PayloadFacts DEF Sections, CompiledSections
  <2>2. {j \in DOMAIN s : s[j].category \in CompiledSections} = DOMAIN s
    BY <2>1
  <2> QED
    BY <2>2 DEF InSections
<1> HIDE DEF D, mark, S
<1>5. MarkedIds(Marked(D, mark)) = Blockers
  BY <1>1, <1>2, NamesBlockers, PayloadFacts
<1> QED
  BY <1>3, <1>4, <1>5 DEF S

LEMMA GhActionsNameBlockers ==
    ASSUME FlowInv, payload.written
    PROVE  MarkedIds(FormatGhActions(payload)) = Blockers
<1> DEFINE s == payload.repair_plan.instructions
           D == DOMAIN s
           mark == [m \in 1..Len(plan) |-> IF CategoryOrNone(m) = "fix_required" THEN "error"
                                           ELSE IF CategoryOrNone(m) = "suggested" THEN "warning"
                                           ELSE "notice"]
<1>1. D \in SUBSET (1..Len(plan)) /\ \A m \in 1..Len(plan) : m \in D <=> CategoryOrNone(m) # "none"
  BY PayloadFacts
<1>2. \A m \in 1..Len(plan) : Fails(plan[m], results[m]) <=> m \in D /\ mark[m] \in Severe
  BY <1>1, PayloadFacts DEF Severe
<1>3. \A m \in D : s[m].id = plan[m].id /\ s[m].category = CategoryOrNone(m)
  BY PlanOf
<1>4. \A m \in D : mark[m] = CASE s[m].category = "fix_required" -> "error"
                               [] s[m].category = "suggested" -> "warning"
                               [] OTHER -> "notice"
  BY <1>1, <1>3
<1>5. FormatGhActions(payload)
         = {[id |-> s[k].id,
             mark |-> CASE s[k].category = "fix_required" -> "error"
                        [] s[k].category = "suggested" -> "warning"
                        [] OTHER -> "notice"] : k \in D}
  BY DEF FormatGhActions
<1> HIDE DEF s, D, mark
<1>6. FormatGhActions(payload) = Marked(D, mark)
  BY <1>3, <1>4, <1>5 DEF Marked
<1> QED
  BY <1>1, <1>2, <1>6, NamesBlockers, PayloadFacts

LEMMA HumanNamesBlockers ==
    ASSUME FlowInv, payload.written
    PROVE  MarkedIds(FormatHuman(payload)) = Blockers
<1> DEFINE s == payload.repair_plan.instructions
           D == DOMAIN s
           mark == [m \in 1..Len(plan) |-> IF results[m].status = "skipped" THEN "skipped"
                                           ELSE CategoryOrNone(m)]
<1>1. D \in SUBSET (1..Len(plan)) /\ \A m \in 1..Len(plan) : m \in D <=> CategoryOrNone(m) # "none"
  BY PayloadFacts
<1>2. \A m \in 1..Len(plan) : Fails(plan[m], results[m]) <=> m \in D /\ mark[m] \in Severe
  BY <1>1, PayloadFacts DEF Severe, Sections
<1>3. \A m \in D : /\ s[m].id = plan[m].id /\ s[m].category = CategoryOrNone(m)
                   /\ s[m].status = results[m].status /\ s[m].category \in Sections
  BY <1>1, PlanOf, PayloadFacts
<1>4. \A m \in D : mark[m] = IF s[m].status = "skipped" THEN "skipped" ELSE s[m].category
  BY <1>1, <1>3
<1>5. FormatHuman(payload)
         = {[id |-> s[k].id,
             mark |-> IF s[k].status = "skipped" THEN "skipped" ELSE s[k].category] :
               k \in {j \in D : s[j].category \in Sections}}
  BY DEF FormatHuman
<1>6. {j \in D : s[j].category \in Sections} = D
  BY <1>3
<1> HIDE DEF s, D, mark
<1>7. FormatHuman(payload) = Marked(D, mark)
  BY <1>3, <1>4, <1>5, <1>6 DEF Marked
<1> QED
  BY <1>1, <1>2, <1>7, NamesBlockers, PayloadFacts

\* Ids are unique, so the instruction a SARIF result looks up is its own.
LEMMA OwnCategory ==
    ASSUME FlowInv, payload.written, NEW m \in 1..Len(plan)
    PROVE  CategoryById(payload, plan[m].id) = CategoryOrNone(m)
<1> DEFINE s == payload.repair_plan.instructions
           found == {k \in DOMAIN s : s[k].id = plan[m].id}
           last == CHOOSE k \in found : \A j \in found : j <= k
<1>1. \A k \in 1..Len(plan) : plan[k].id = plan[m].id => k = m
  BY PayloadFacts DEF Accepted, UniqueIds
<1>2. DOMAIN s = {k \in 1..Len(plan) : CategoryOrNone(k) # "none"}
      /\ \A k \in DOMAIN s : s[k].id = plan[k].id /\ s[k].category = CategoryOrNone(k)
  BY PlanOf
<1>3. found = IF CategoryOrNone(m) # "none" THEN {m} ELSE {}
  BY <1>1, <1>2
<1>4. CategoryById(payload, plan[m].id) = IF found = {} THEN "none" ELSE s[last].category
  BY DEF CategoryById
<1>5. CASE CategoryOrNone(m) = "none"
  BY <1>3, <1>4, <1>5
<1>6. CASE CategoryOrNone(m) # "none"
  <2>1. found = {m} /\ m <= m
    BY <1>3, <1>6
  <2>2. last = m
    BY <2>1
  <2>3. m \in DOMAIN s
    BY <1>2, <1>6
  <2> HIDE DEF found, last, s
  <2> QED
    BY <1>2, <1>4, <2>1, <2>2, <2>3
<1> QED
  BY <1>5, <1>6

LEMMA SarifNamesBlockers ==
    ASSUME FlowInv, payload.written
    PROVE  MarkedIds(FormatSarif(payload)) = Blockers
<1> DEFINE N == 1..Len(plan)
           Of(m) == [id |-> plan[m].id, status |-> results[m].status]
           mark == [m \in N |-> Level(payload, Of(m))]
<1>1. payload.results = [m \in N |-> Of(m)]
  BY DEF FlowInv, PayloadSays, SerializeConstraintResult
<1>2. FormatSarif(payload) = {SarifResult(payload, Of(m)) : m \in N}
  BY <1>1 DEF FormatSarif
<1>3. \A m \in N : SarifResult(payload, Of(m)) = [id |-> plan[m].id, mark |-> mark[m]]
  BY DEF SarifResult
<1>4. ASSUME NEW m \in N
      PROVE  Fails(plan[m], results[m]) <=> mark[m] \in Severe
  <2> DEFINE x == CategoryOrNone(m)
             st == results[m].status
  <2>1. CategoryById(payload, Of(m).id) = x
    BY OwnCategory
  <2>2. mark[m] = CASE st = "satisfied" -> "none"
                    [] st = "skipped" -> "note"
                    [] OTHER -> CASE x = "fix_required" -> "error"
                                  [] x = "suggested" -> "warning"
                                  [] OTHER -> "note"
    BY <2>1 DEF Level
  <2>3. /\ x = "fix_required" <=> Fails(plan[m], results[m])
        /\ st \in {"skipped", "satisfied"} => x \in {"none", "unresolved"}
    BY PayloadFacts
  <2> HIDE DEF x, st, mark
  <2>4. mark[m] \in Severe <=> x = "fix_required" /\ st \notin {"skipped", "satisfied"}
    BY <2>2 DEF Severe
  <2> QED
    BY <2>3, <2>4
<1> HIDE DEF mark, Of
<1>5. FormatSarif(payload) = Marked(N, mark)
  BY <1>2, <1>3 DEF Marked
<1>6. N \in SUBSET (1..Len(plan)) /\ Len(results) = Len(plan)
  BY PayloadFacts
<1> QED
  BY <1>4, <1>5, <1>6, NamesBlockers

\* Every output names the constraints that fail the run as such and nothing
\* else, for every target, comparison and command line: SARIF, workflow
\* commands, human report, JSON plan, and compile-repair on the written JSON.
THEOREM EveryOutputNamesBlockers == SpecFlow => []ReportsNameBlockers
<1>1. FlowInv => ReportsNameBlockers
  <2> SUFFICES ASSUME FlowInv, exit \in {0, 1}, request.command # "validate-plan"
               PROVE  MarkedIds(shown) = Blockers
    BY DEF ReportsNameBlockers, MarkedIds, Severe
  <2> DEFINE s == payload.repair_plan.instructions
  <2>1. /\ payload.written
        /\ \/ shown = Rendered(payload, request.format)
           \/ \E input \in Inputs : shown = RenderRepair(ExtractRepairPlan(input))
    BY DEF FlowInv, ShownSays
  <2>2. \A m \in DOMAIN s : s[m].id = plan[m].id /\ s[m].category = CategoryOrNone(m)
    BY <2>1, PlanOf
  <2>3. CASE shown = Rendered(payload, request.format)
    <3> DEFINE json == {[id |-> s[k].id, mark |-> s[k].category] : k \in DOMAIN s}
    <3>1. shown \in {FormatSarif(payload), FormatGhActions(payload), FormatHuman(payload), json}
      BY <2>3 DEF Rendered, FlowInv, Formats
    <3>2. MarkedIds(json) = Blockers
      <4> HIDE DEF s
      <4> QED
        BY <2>1, <2>2, PlanNamesBlockers DEF s
    <3>3. /\ MarkedIds(FormatSarif(payload)) = Blockers
          /\ MarkedIds(FormatGhActions(payload)) = Blockers
          /\ MarkedIds(FormatHuman(payload)) = Blockers
      BY <2>1, SarifNamesBlockers, GhActionsNameBlockers, HumanNamesBlockers
    <3> HIDE DEF json
    <3> QED
      BY <3>1, <3>2, <3>3
  <2>4. CASE \E input \in Inputs : shown = RenderRepair(ExtractRepairPlan(input))
    <3>1. PICK input \in Inputs : shown = RenderRepair(ExtractRepairPlan(input))
      BY <2>4
    <3> DEFINE x == ExtractRepairPlan(input)
    <3>2. DOMAIN x = DOMAIN s /\ \A m \in DOMAIN s : x[m].id = s[m].id /\ x[m].category = s[m].category
      BY DEF ExtractRepairPlan, InstructionKeys
    <3> HIDE DEF x
    <3>3. MarkedIds(InSections(x, CompiledSections)) = Blockers
      BY <2>1, <2>2, <3>2, PlanNamesBlockers
    <3> QED
      BY <3>1, <3>3 DEF RenderRepair, x
  <2> QED
    BY <2>1, <2>3, <2>4
<1> QED
  BY <1>1, FlowInvariant, PTL

-----------------------------------------------------------------------------
(* validate-plan                                                           *)

\* A lock is never violated by code that did not change.
LEMMA LocksHoldOnUnchanged ==
    ASSUME NEW c, NEW w \in Comparison, w.base = w.cand,
           ~w.smoke, w.baseOut = {}, w.candOut = {},
           c.op \in LockOperators \/ DeltaLock(c)
    PROVE  EvaluateConstraint(c, w).status # "violated"
<1> DEFINE base == Extracted(w.base, w.baseOut, w.smoke)
           cand == Extracted(w.cand, w.candOut, w.smoke)
<1>1. base = w.base /\ cand = base /\ w.base \in States
  <2>1. w.base \in States
    BY DEF Comparison
  <2> QED
    BY <2>1 DEF Extracted, States
<1>2. \A x : Unknown(x).status = "unknown" /\ Skipped.status = "skipped"
             /\ TypeMismatch.status = "unknown" /\ Judged(TRUE).status = "satisfied"
  BY DEF Unknown, Skipped, TypeMismatch, Judged
<1>3. \A t, o : o.status # "violated" => Retagged(t, o).status # "violated"
  BY <1>2 DEF Retagged
<1>4. ASSUME c.op \in LockOperators PROVE EvaluateConstraint(c, w).status # "violated"
  <2>1. c.op \in BaselineOperators
    BY <1>4 DEF LockOperators, BaselineOperators
  <2>2. \A v : BaselineOutcome(c.op, v, v).status # "violated"
    BY <1>2, <1>4 DEF BaselineOutcome, LockOperators
  <2>3. EvaluateState(c, base).status # "violated"
    BY <1>2, <2>1 DEF EvaluateState
  <2>4. EvaluateDelta(c, w, base, base).status # "violated"
    BY <1>2, <1>3, <2>1, <2>2 DEF EvaluateDelta
  <2> HIDE DEF base, cand
  <2> QED
    BY <1>1, <1>2, <2>3, <2>4 DEF EvaluateConstraint, base, cand
<1>5. ASSUME DeltaLock(c) PROVE EvaluateConstraint(c, w).status # "violated"
  <2>1. /\ c.kind = "delta" /\ c.target \in DeltaTargets \ {"coverage_delta.line"}
        /\ Category(c.target) # "number"
        /\ \/ c.op = "equals" /\ c.expected = ItemList({})
           \/ c.op \in {"excludes_all", "subset_of"}
    BY <1>5 DEF DeltaLock, LockTargets, DeltaTargets, Category, OpenTargets
  <2>2. DeltaValue(c.target, base, base) = ItemList({})
    BY <1>1, <2>1, EmptyDelta
  <2>3. \A A : Without(ItemList({}), A) = ItemList({})
    <3>1. \A A : {} \ A = {}
      OBVIOUS
    <3> QED
      BY <3>1, WithoutShape
  <2>4. PureOutcome(c.op, ItemList({}), c.expected).status # "violated"
    <3>1. CollectionHolds(c.op, {}, c.expected.items) = TRUE \/ c.op = "equals"
      BY <2>1 DEF CollectionHolds
    <3> QED
      BY <1>2, <2>1, <3>1, ShapeOf DEF PureOutcome, CollectionExpected
  <2>5. EvaluateDelta(c, w, base, base).status # "violated"
    <3>1. /\ c.op \notin BaselineOperators
          /\ c.target \in DeltaTargets \cup OpenTargets
      BY <2>1 DEF BaselineOperators
    <3> QED
      BY <1>2, <1>3, <2>2, <2>3, <2>4, <3>1 DEF EvaluateDelta
  <2> HIDE DEF base, cand
  <2> QED
    BY <1>1, <1>2, <2>1, <2>5 DEF EvaluateConstraint, base, cand
<1> QED
  BY <1>4, <1>5

\* The ids of the constraints with a number in S.
Ids(S) == {plan[m].id : m \in S}

LEMMA RiskOf ==
    /\ RiskSummary.authoring_errors
          = Ids({m \in 1..Len(plan) : plan[m].source = "user" /\ results[m] = Unknown("authoring")})
    /\ RiskSummary.would_violate
          = Ids({m \in 1..Len(plan) : plan[m].source = "user" /\ results[m].status = "violated"})
    /\ RiskSummary.forbidden_zones = Ids({m \in 1..Len(plan) : plan[m].op \in LockOperators})
  BY DEF RiskSummary, Ids

\* A section of the rendered summary lists its key.
LEMMA SectionLists ==
    ASSUME NEW r, NEW key \in RiskSummaryKeys
    PROVE  {s.id : s \in {x \in RenderPreGen(r) : x.mark = key}} = r[key]
<1> DEFINE L == {s.id : s \in {x \in RenderPreGen(r) : x.mark = key}}
<1>1. ASSUME NEW i \in L PROVE i \in r[key]
  <2>1. PICK x \in RenderPreGen(r) : x.mark = key /\ x.id = i
    BY <1>1
  <2>2. PICK k \in RiskSummaryKeys : x \in {[id |-> j, mark |-> k] : j \in r[k]}
    BY <2>1 DEF RenderPreGen
  <2>3. PICK j \in r[k] : x = [id |-> j, mark |-> k]
    BY <2>2
  <2> QED
    BY <2>1, <2>3
<1>2. ASSUME NEW i \in r[key] PROVE i \in L
  <2> DEFINE x == [id |-> i, mark |-> key]
  <2>1. x \in RenderPreGen(r)
    BY <1>2 DEF RenderPreGen
  <2>2. x.mark = key /\ x.id = i
    OBVIOUS
  <2> HIDE DEF x
  <2> QED
    BY <2>1, <2>2
<1> QED
  BY <1>1, <1>2

\* Evaluating the baseline against itself hides nothing from the author of any
\* target: without authoring errors every user constraint the baseline already
\* violates is listed, and no lock is.
THEOREM RiskSummaryHidesNothing == SpecFlow => []RiskSummaryComplete
<1>1. FlowInv => RiskSummaryComplete
  <2> DEFINE Listed(key) == {s.id : s \in {x \in shown : x.mark = key}}
             N == 1..Len(plan)
             U == {k \in N : plan[k].source = "user" /\ FullResult(k).status = "violated"}
  <2> SUFFICES ASSUME FlowInv, risk.computed, exit = 0
               PROVE  /\ Listed("authoring_errors") = {} => Listed("would_violate") = Ids(U)
                      /\ Listed("would_violate") \cap Listed("forbidden_zones") = {}
    BY DEF RiskSummaryComplete, Ids
  <2>1. /\ EvalInv /\ verdict # "none" /\ Accepted
        /\ Fits(request, world) /\ request.command = "validate-plan"
        /\ shown = RenderPreGen(RiskSummary)
    BY DEF FlowInv, RiskSays
  <2> DEFINE A == {m \in N : plan[m].source = "user" /\ results[m] = Unknown("authoring")}
             V == {m \in N : plan[m].source = "user" /\ results[m].status = "violated"}
             Z == {m \in N : plan[m].op \in LockOperators}
  <2>2. /\ Listed("authoring_errors") = Ids(A)
        /\ Listed("would_violate") = Ids(V)
        /\ Listed("forbidden_zones") = Ids(Z)
    <3>1. \A key \in RiskSummaryKeys : Listed(key) = RiskSummary[key]
      BY <2>1, SectionLists
    <3> QED
      BY <3>1, RiskOf DEF RiskSummaryKeys
  <2>3. /\ Len(results) = Len(plan)
        /\ \A m \in N : results[m] = FullResult(m) \/ (results[m] = Skipped /\ FailureSeen(m))
    BY <2>1, AllJudged DEF EvalInv, ResultsFaithful
  <2>4. \A m \in N : plan[m].op \in LockOperators \/ DeltaLock(plan[m])
                         => FullResult(m).status # "violated"
    <3>1. /\ world \in Comparison /\ world.base = world.cand /\ ~world.smoke
          /\ world.baseOut = {} /\ world.candOut = {}
      BY <2>1, WorldTypes DEF EvalInv, Fits
    <3> QED
      BY <3>1, LocksHoldOnUnchanged DEF FullResult
  <2>5. ASSUME Ids(A) = {} PROVE Ids(V) = Ids(U)
    <3>1. A = {}
      BY <2>5 DEF Ids
    <3>2. \A m \in N : ~FailureSeen(m)
      <4> SUFFICES ASSUME NEW m \in N, FailureSeen(m) PROVE FALSE
        OBVIOUS
      <4>1. PICK j \in 1..m : results[j] = FullResult(j) /\ ShouldShortCircuit(plan[j], results[j])
        BY DEF FailureSeen
      <4>2. j \in N /\ results[j] \in Outcomes
        BY <2>1, AllJudged
      <4>3. plan[j].source = "user" /\ (plan[j].op \in LockOperators \/ DeltaLock(plan[j]))
        BY <4>1 DEF ShouldShortCircuit, UserLock
      <4>4. results[j].status # "violated"
        BY <2>4, <4>1, <4>2, <4>3
      <4>5. results[j].status = "unknown" /\ results[j].cause = "authoring"
        BY <4>1, <4>4 DEF ShouldShortCircuit
      <4>6. results[j] = Unknown("authoring")
        BY <4>2, <4>5 DEF Outcomes, Unknown
      <4> QED
        BY <3>1, <4>2, <4>3, <4>6
    <3>3. \A m \in N : results[m] = FullResult(m)
      BY <2>3, <3>2
    <3>4. V = U
      BY <3>3
    <3> QED
      BY <3>4
  <2>6. Ids(V) \cap Ids(Z) = {}
    <3> SUFFICES ASSUME NEW m \in V, NEW k \in Z, plan[m].id = plan[k].id PROVE FALSE
      BY DEF Ids
    <3>1. m = k
      BY <2>1 DEF Accepted, UniqueIds
    <3>2. results[m] = FullResult(m) \/ results[m] = Skipped
      BY <2>3
    <3>3. results[m].status = "violated" /\ Skipped.status # "violated"
      BY DEF Skipped
    <3> QED
      BY <2>4, <3>1, <3>2, <3>3
  <2> QED
    BY <2>2, <2>5, <2>6
<1> QED
  BY <1>1, FlowInvariant, PTL

=============================================================================
