---------------------- MODULE ConstraintEvaluatorProofs ----------------------
(***************************************************************************)
(* The verdict of evaluate_constraints is the verdict over all constraints *)
(* for every sequence of constraints and every comparison; what compiles,  *)
(* defaults and allow rules do to a single outcome; and what target-doctor *)
(* foretells is what the evaluator does.                                   *)
(***************************************************************************)
EXTENDS AuthoringHazards, FiniteSetTheorems, TLAPS

-----------------------------------------------------------------------------
(* What one constraint is judged to be                                     *)

\* Whatever the operator compares, it returns a status with a known cause.
LEMMA PureOutcomeType ==
    ASSUME NEW op, NEW v, NEW e
    PROVE  PureOutcome(op, v, e) \in Outcomes
  BY DEF Outcomes, Statuses, Causes, Judged, TypeMismatch, Unknown, PureOutcome

LEMMA BaselineOutcomeType ==
    ASSUME NEW op, NEW v, NEW e
    PROVE  BaselineOutcome(op, v, e) \in Outcomes
  BY DEF Outcomes, Statuses, Causes, Judged, TypeMismatch, Unknown,
         BaselineOutcome

\* Every branch of _evaluate_constraint returns such an outcome.
LEMMA EvaluateConstraintType ==
    ASSUME NEW c, NEW w
    PROVE  EvaluateConstraint(c, w) \in Outcomes
<1>1. \A x \in Causes : Unknown(x) \in Outcomes
  BY DEF Unknown, Outcomes, Statuses, Causes
<1>2. Skipped \in Outcomes
  BY DEF Skipped, Outcomes, Statuses, Causes
<1>3. ASSUME NEW t, NEW o \in Outcomes PROVE Retagged(t, o) \in Outcomes
  BY <1>1 DEF Retagged, Causes
<1>4. \A t : Unknown(ResolvedUnknownCause(t)) \in Outcomes
  BY <1>1 DEF ResolvedUnknownCause, Causes
<1>5. Unknown("authoring") \in Outcomes /\ Unknown("extraction") \in Outcomes
  BY <1>1 DEF Causes
<1>6. ASSUME NEW s PROVE EvaluateState(c, s) \in Outcomes
  BY <1>3, <1>4, <1>5, PureOutcomeType DEF EvaluateState
<1>7. ASSUME NEW s, NEW t PROVE EvaluateDelta(c, w, s, t) \in Outcomes
  <2>1. \A op, v : Retagged(c.target, PureOutcome(op, v, c.expected)) \in Outcomes
    BY <1>3, PureOutcomeType
  <2>2. \A op, x, y : Retagged(c.target, BaselineOutcome(op, x, y)) \in Outcomes
    BY <1>3, BaselineOutcomeType
  <2> QED
    BY <2>1, <2>2, <1>4, <1>5 DEF EvaluateDelta
<1> QED
  BY <1>2, <1>5, <1>6, <1>7 DEF EvaluateConstraint

-----------------------------------------------------------------------------
(* The inductive invariant                                                 *)

\* Among the first n results is a judged lock on which the run fails.
FailureSeen(n) ==
    \E j \in 1..n : /\ results[j] = FullResult(j)
                    /\ ShouldShortCircuit(plan[j], results[j])
                    /\ Fails(plan[j], results[j])

\* Each result is the full outcome, or was skipped after a failure.
ResultsFaithful ==
    \A m \in 1..Len(results) :
        results[m] = FullResult(m) \/ (results[m] = Skipped /\ FailureSeen(m))

\* The short circuit is only ever entered by a result that fails the run.
ShortMeansFailure == short => FailureSeen(Len(results))

\* _aggregate starts when every result is there, goes on while nothing
\* fails, and remembers exactly the repairs it has passed.
Aggregation ==
    /\ agg > 0 \/ verdict # "none" => Len(results) = Len(plan)
    /\ verdict = "none" => \A m \in 1..agg : ~Fails(plan[m], results[m])
    /\ hasRepair <=> \E m \in 1..agg : Repairs(plan[m], results[m])

EvalInv ==
    /\ plan \in Plans
    /\ world \in Worlds
    /\ TypeOK
    /\ ResultsFaithful
    /\ ShortMeansFailure
    /\ Aggregation
    /\ VerdictIsFull

\* Plans are finite sequences.
LEMMA PlanIsSequence ==
    ASSUME plan \in Plans
    PROVE  plan \in Seq(CompiledConstraint) /\ Len(plan) \in Nat
  BY PlanTypes

\* A skipped result counts neither as a failure nor as a repair.
LEMMA SkippedIsNeutral ==
    ASSUME NEW c
    PROVE  ~Fails(c, Skipped) /\ ~Repairs(c, Skipped)
  BY DEF Fails, Repairs, Skipped

\* _should_short_circuit implies that _aggregate fails on that result.
LEMMA LockFails ==
    ASSUME NEW c, NEW r, ShouldShortCircuit(c, r)
    PROVE  Fails(c, r)
  BY DEF ShouldShortCircuit, UserLock, Fails

LEMMA EvalInit == Init => EvalInv
<1> SUFFICES ASSUME Init PROVE EvalInv
  OBVIOUS
<1>1. Len(plan) \in Nat
  BY PlanIsSequence DEF Init
<1>2. results = <<>> /\ Len(results) = 0 /\ agg = 0 /\ verdict = "none"
      /\ short = FALSE /\ hasRepair = FALSE /\ plan \in Plans
      /\ world \in Worlds
  BY DEF Init
<1>3. TypeOK
  <2>1. results \in Seq(Outcomes)
    BY <1>2
  <2>2. Len(results) <= Len(plan) /\ agg \in 0..Len(plan)
    BY <1>1, <1>2
  <2> QED
    BY <1>2, <2>1, <2>2 DEF TypeOK
<1>4. ResultsFaithful /\ ShortMeansFailure /\ VerdictIsFull
  BY <1>2 DEF ResultsFaithful, ShortMeansFailure, VerdictIsFull
<1>5. Aggregation
  BY <1>2 DEF Aggregation
<1> QED
  BY <1>2, <1>3, <1>4, <1>5 DEF EvalInv

\* One more result: r, which becomes number n + 1.
LEMMA Appended ==
    ASSUME NEW r \in Outcomes, TypeOK, results' = Append(results, r)
    PROVE  /\ results' \in Seq(Outcomes)
           /\ Len(results') = Len(results) + 1
           /\ \A m \in 1..Len(results) : results'[m] = results[m]
           /\ results'[Len(results) + 1] = r
           /\ Len(results) \in Nat
  BY DEF TypeOK

LEMMA EvaluateNextInv == EvalInv /\ EvaluateNext => EvalInv'
<1> SUFFICES ASSUME EvalInv, EvaluateNext PROVE EvalInv'
  OBVIOUS
<1> DEFINE n == Len(results)
           c == plan[n + 1]
           r == EvaluateConstraint(c, world)
<1>1. r \in Outcomes
  BY EvaluateConstraintType
<1>2. plan' = plan /\ world' = world /\ agg' = agg /\ hasRepair' = hasRepair
      /\ verdict' = verdict /\ results' = Append(results, r)
      /\ short' = ShouldShortCircuit(c, r) /\ ~short /\ n < Len(plan)
  BY DEF EvaluateNext
<1>3. /\ results' \in Seq(Outcomes)
      /\ Len(results') = n + 1
      /\ \A m \in 1..n : results'[m] = results[m]
      /\ results'[n + 1] = r
      /\ n \in Nat
  BY <1>1, <1>2, Appended DEF EvalInv
<1>4. plan \in Seq(CompiledConstraint) /\ Len(plan) \in Nat
  BY PlanIsSequence DEF EvalInv
<1>5. \A m : FullResult(m)' = FullResult(m)
  BY <1>2 DEF FullResult
<1>6. r = FullResult(n + 1)
  BY DEF FullResult
<1>7. agg = 0 /\ verdict = "none"
  BY <1>2, <1>4 DEF EvalInv, Aggregation, TypeOK
<1>8. TypeOK'
  BY <1>2, <1>3, <1>4 DEF EvalInv, TypeOK, ShouldShortCircuit, UserLock, DeltaLock
<1>9. \A m \in 1..n : FailureSeen(m) => FailureSeen(m)'
  BY <1>2, <1>3, <1>5 DEF FailureSeen
<1>10. ResultsFaithful'
  BY <1>3, <1>5, <1>6, <1>9 DEF EvalInv, ResultsFaithful
<1>11. ShortMeansFailure'
  BY <1>2, <1>3, <1>5, <1>6, LockFails DEF ShortMeansFailure, FailureSeen
<1>12. Aggregation'
  BY <1>2, <1>7 DEF EvalInv, Aggregation
<1>13. VerdictIsFull'
  BY <1>2, <1>7 DEF VerdictIsFull
<1> QED
  BY <1>2, <1>8, <1>10, <1>11, <1>12, <1>13 DEF EvalInv

LEMMA SkipNextInv == EvalInv /\ SkipNext => EvalInv'
<1> SUFFICES ASSUME EvalInv, SkipNext PROVE EvalInv'
  OBVIOUS
<1> DEFINE n == Len(results)
<1>1. Skipped \in Outcomes
  BY DEF Skipped, Outcomes, Statuses, Causes
<1>2. plan' = plan /\ world' = world /\ agg' = agg /\ hasRepair' = hasRepair
      /\ verdict' = verdict /\ results' = Append(results, Skipped)
      /\ short' = short /\ short /\ n < Len(plan)
  BY DEF SkipNext
<1>3. /\ results' \in Seq(Outcomes)
      /\ Len(results') = n + 1
      /\ \A m \in 1..n : results'[m] = results[m]
      /\ results'[n + 1] = Skipped
      /\ n \in Nat
  BY <1>1, <1>2, Appended DEF EvalInv
<1>4. plan \in Seq(CompiledConstraint) /\ Len(plan) \in Nat
  BY PlanIsSequence DEF EvalInv
<1>5. \A m : FullResult(m)' = FullResult(m)
  BY <1>2 DEF FullResult
<1>6. agg = 0 /\ verdict = "none"
  BY <1>2, <1>4 DEF EvalInv, Aggregation, TypeOK
<1>7. TypeOK'
  BY <1>2, <1>3, <1>4 DEF EvalInv, TypeOK
<1>8. \A m \in 1..n : FailureSeen(m) => FailureSeen(m)'
  BY <1>2, <1>3, <1>5 DEF FailureSeen
<1>9. \A m : m = n + 1 => FailureSeen(m)'
  <2>1. PICK j \in 1..n : /\ results[j] = FullResult(j)
                          /\ ShouldShortCircuit(plan[j], results[j])
                          /\ Fails(plan[j], results[j])
    BY <1>2 DEF EvalInv, ShortMeansFailure, FailureSeen
  <2> QED
    BY <2>1, <1>2, <1>3, <1>5 DEF FailureSeen
<1>10. ResultsFaithful'
  BY <1>3, <1>5, <1>8, <1>9 DEF EvalInv, ResultsFaithful
<1>11. ShortMeansFailure'
  <2>1. \A m : m = Len(results') => FailureSeen(m)'
    BY <1>3, <1>9
  <2> QED
    BY <2>1 DEF ShortMeansFailure, FailureSeen
<1>12. Aggregation'
  BY <1>2, <1>6 DEF EvalInv, Aggregation
<1>13. VerdictIsFull'
  BY <1>2, <1>6 DEF VerdictIsFull
<1> QED
  BY <1>2, <1>7, <1>10, <1>11, <1>12, <1>13 DEF EvalInv

LEMMA AggregateNextInv == EvalInv /\ AggregateNext => EvalInv'
<1> SUFFICES ASSUME EvalInv, AggregateNext PROVE EvalInv'
  OBVIOUS
<1> DEFINE c == plan[agg + 1]
           r == results[agg + 1]
<1>1. plan' = plan /\ world' = world /\ results' = results /\ short' = short
      /\ agg' = agg + 1 /\ agg < Len(plan) /\ Len(results) = Len(plan)
      /\ verdict' = (IF Fails(c, r) THEN "fail" ELSE verdict) /\ verdict = "none"
      /\ hasRepair' = (hasRepair \/ Repairs(c, r))
  BY DEF AggregateNext
<1>2. plan \in Seq(CompiledConstraint) /\ Len(plan) \in Nat
  BY PlanIsSequence DEF EvalInv
<1>3. agg \in Nat /\ agg + 1 \in 1..Len(results)
  BY <1>1, <1>2 DEF EvalInv, TypeOK
<1>4. \A m : FullResult(m)' = FullResult(m) /\ (FailureSeen(m)' <=> FailureSeen(m))
  BY <1>1 DEF FullResult, FailureSeen
<1>5. TypeOK'
  BY <1>1, <1>2, <1>3 DEF EvalInv, TypeOK, Verdicts, Repairs
<1>6. ResultsFaithful' /\ ShortMeansFailure'
  BY <1>1, <1>4 DEF EvalInv, ResultsFaithful, ShortMeansFailure
<1>7. Aggregation'
  <2>1. 1..(agg + 1) = 1..agg \cup {agg + 1}
    BY <1>3
  <2>2. verdict' = "none" => \A m \in 1..agg' : ~Fails(plan[m], results[m])
    BY <1>1, <2>1 DEF EvalInv, Aggregation
  <2>3. hasRepair' <=> \E m \in 1..agg' : Repairs(plan[m], results[m])
    BY <1>1, <2>1 DEF EvalInv, Aggregation
  <2> QED
    BY <1>1, <2>2, <2>3 DEF Aggregation
<1>8. VerdictIsFull'
  <2>1. CASE ~Fails(c, r)
    BY <1>1, <2>1 DEF VerdictIsFull
  <2>2. CASE Fails(c, r)
    <3>1. r = FullResult(agg + 1)
      BY <1>3, <2>2, SkippedIsNeutral DEF EvalInv, ResultsFaithful
    <3>2. FullVerdict' = "fail"
      BY <1>1, <1>3, <1>4, <2>2, <3>1 DEF FullVerdict
    <3> QED
      BY <1>1, <2>2, <3>2 DEF VerdictIsFull
  <2> QED
    BY <2>1, <2>2
<1> QED
  BY <1>1, <1>5, <1>6, <1>7, <1>8 DEF EvalInv

LEMMA AggregateEndInv == EvalInv /\ AggregateEnd => EvalInv'
<1> SUFFICES ASSUME EvalInv, AggregateEnd PROVE EvalInv'
  OBVIOUS
<1>1. plan' = plan /\ world' = world /\ results' = results /\ short' = short
      /\ agg' = agg /\ hasRepair' = hasRepair /\ verdict = "none"
      /\ agg = Len(plan) /\ Len(results) = Len(plan)
      /\ verdict' = IF hasRepair THEN "repair" ELSE "pass"
  BY DEF AggregateEnd
<1>2. Len(plan) \in Nat
  BY PlanIsSequence DEF EvalInv
<1>3. \A m : FullResult(m)' = FullResult(m) /\ (FailureSeen(m)' <=> FailureSeen(m))
  BY <1>1 DEF FullResult, FailureSeen
<1>4. \A m \in 1..Len(plan) : ~Fails(plan[m], results[m])
  BY <1>1 DEF EvalInv, Aggregation
<1>5. \A m \in 1..Len(plan) : results[m] = FullResult(m)
  BY <1>1, <1>2, <1>4 DEF EvalInv, ResultsFaithful, FailureSeen
<1>6. VerdictIsFull'
  <2>1. FullVerdict' = IF hasRepair THEN "repair" ELSE "pass"
    BY <1>1, <1>3, <1>4, <1>5 DEF FullVerdict, EvalInv, Aggregation
  <2> QED
    BY <2>1, <1>1 DEF VerdictIsFull
<1>7. TypeOK'
  BY <1>1 DEF EvalInv, TypeOK, Verdicts
<1>8. ResultsFaithful' /\ ShortMeansFailure'
  BY <1>1, <1>3 DEF EvalInv, ResultsFaithful, ShortMeansFailure
<1>9. Aggregation'
  BY <1>1 DEF EvalInv, Aggregation
<1> QED
  BY <1>1, <1>6, <1>7, <1>8, <1>9 DEF EvalInv

LEMMA EvalNext == EvalInv /\ [Next]_vars => EvalInv'
<1>1. EvalInv /\ UNCHANGED vars => EvalInv'
  BY DEF vars, EvalInv, TypeOK, ResultsFaithful, ShortMeansFailure, Aggregation,
         VerdictIsFull, FailureSeen, FullResult, FullVerdict
<1> QED
  BY <1>1, EvaluateNextInv, SkipNextInv, AggregateNextInv, AggregateEndInv
     DEF Next, Returned

LEMMA EvalSafe == Spec => []EvalInv
  BY EvalInit, EvalNext, PTL DEF Spec

\* The loops of evaluate_constraints and _aggregate keep their types.
THEOREM EvaluatorTypes == Spec => []TypeOK
<1>1. EvalInv => TypeOK
  BY DEF EvalInv
<1> QED
  BY <1>1, EvalSafe, PTL

\* The short circuit of evaluate_constraints and the early return of
\* _aggregate are optimisations: for any constraints and any comparison the
\* verdict is the one that judging every constraint gives.
THEOREM ShortCircuitSound == Spec => []VerdictIsFull
<1>1. EvalInv => VerdictIsFull
  BY DEF EvalInv
<1> QED
  BY <1>1, EvalSafe, PTL

-----------------------------------------------------------------------------
(* What each result is, and what plans and comparisons are made of         *)

\* Every result is the outcome of its own constraint, or was skipped.
LEMMA EachResult ==
    ASSUME EvalInv, NEW m \in 1..Len(results)
    PROVE  /\ plan \in Plans
           /\ plan[m] \in CompiledConstraint
           /\ m \in 1..Len(plan)
           /\ world \in Comparison
           /\ results[m] \in {EvaluateConstraint(plan[m], world), Skipped}
<1>1. plan \in Seq(CompiledConstraint) /\ Len(plan) \in Nat
  BY PlanIsSequence DEF EvalInv
<1>2. m \in 1..Len(plan)
  BY <1>1 DEF EvalInv, TypeOK
<1>3. results[m] \in {EvaluateConstraint(plan[m], world), Skipped}
  BY DEF EvalInv, ResultsFaithful, FullResult
<1> QED
  BY <1>1, <1>2, <1>3, WorldTypes DEF EvalInv

-----------------------------------------------------------------------------
(* Compiled constraints are never unknown for an authoring cause           *)

\* Every state target but coverage is a collection, to the type check and in
\* the states alike.
LEMMA StateShapes ==
    ASSUME NEW t \in StateTargets \ {"coverage"}, NEW s
    PROVE  (\E S : StateValue(t, s) = ItemList(S)) /\ Category(t) = "collection"
  BY DEF StateTargets, StateValue, Category, OpenTargets

\* A delta target is unresolved, or has the shape of its category.
LEMMA DeltaShapes ==
    ASSUME NEW t \in DeltaTargets, NEW b, NEW c
    PROVE  \/ DeltaValue(t, b, c) = Unresolved
           \/ (\E S : DeltaValue(t, b, c) = ItemList(S)) /\ Category(t) = "collection"
           \/ (\E n : DeltaValue(t, b, c) = Number(n)) /\ Category(t) = "number"
  BY DEF DeltaTargets, DeltaValue, Category, OpenTargets

\* An allow rule takes entries out of a collection and changes nothing else.
LEMMA WithoutShape ==
    ASSUME NEW A
    PROVE  /\ \A S : Without(ItemList(S), A) = ItemList(S \ A)
           /\ \A n : Without(Number(n), A) = Number(n)
           /\ Without(Unresolved, A) = Unresolved
<1>1. \A s, S, n : Without(Value(s, S, n), A) = Value(s, S \ A, n)
  BY DEF Without, Value
<1>2. {} \ A = {}
  OBVIOUS
<1> QED
  BY <1>1, <1>2 DEF ItemList, Number, Unresolved

LEMMA ShapeOf ==
    /\ \A S : ItemList(S).shape = "items" /\ ItemList(S).items = S
    /\ \A n : Number(n).shape = "number" /\ Number(n).num = n
    /\ \A S, T : ItemList(S) = ItemList(T) => S = T
<1>1. \A S : ItemList(S).shape = "items" /\ ItemList(S).items = S
  BY DEF ItemList, Value
<1>2. \A n : Number(n).shape = "number" /\ Number(n).num = n
  BY DEF Number, Value
<1> QED
  BY <1>1, <1>2

\* What the type check leaves to the operators, they judge.
LEMMA PureJudges ==
    ASSUME NEW c \in CompiledConstraint, NEW v, TypesFit(c),
           c.op \notin BaselineOperators, c.op # "changed_only_in",
           \/ v.shape = "items" /\ Category(c.target) = "collection"
           \/ v.shape = "number" /\ Category(c.target) = "number"
    PROVE  PureOutcome(c.op, v, c.expected).cause = "none"
<1>1. c.op \in CollectionExpected \cup NumericOperators
                  \cup {"equals", "not_equals", "within_range"}
  BY DEF CompiledConstraint, Operators, PureOperators
<1>2. Category(c.target) # "open"
  OBVIOUS
<1>3. CASE c.op \in CollectionExpected
  BY <1>2, <1>3 DEF TypesFit, PureOutcome, Judged, CollectionOperators, CollectionExpected, Collection
<1>4. CASE c.op \in NumericOperators
  BY <1>2, <1>4 DEF TypesFit, PureOutcome, Judged, CollectionExpected, NumericOperators
<1>5. CASE c.op \in {"equals", "not_equals", "within_range"}
  BY <1>2, <1>5 DEF TypesFit, PureOutcome, Judged, CollectionExpected
<1> QED
  BY <1>1, <1>3, <1>4, <1>5

\* The same for the operators that compare a collection with its baseline.
LEMMA BaselineJudges ==
    ASSUME NEW op, NEW b, NEW c, b.shape = "items", c.shape = "items"
    PROVE  BaselineOutcome(op, b, c).cause = "none"
  BY DEF BaselineOutcome, Judged, Collection

\* What _from_operator_outcome retags is no authoring error.
LEMMA RetaggedCause ==
    ASSUME NEW t, NEW o, t \in OpenTargets \/ o.cause = "none"
    PROVE  Retagged(t, o).cause # "authoring"
  BY DEF Retagged, Unknown

LEMMA AcceptedOutcome ==
    ASSUME NEW c \in CompiledConstraint, NEW w, Compiles(c), c.target # "coverage"
    PROVE  EvaluateConstraint(c, w).cause # "authoring"
<1> DEFINE base == Extracted(w.base, w.baseOut, w.smoke)
           cand == Extracted(w.cand, w.candOut, w.smoke)
<1> HIDE DEF base, cand
<1>1. CASE c.kind = "repair" \/ c.op = "changed_only_in"
  BY <1>1 DEF EvaluateConstraint, Skipped
<1>2. CASE ~(c.kind = "repair" \/ c.op = "changed_only_in")
  <2>1. ValidPath(c) /\ OperatorFits(c) /\ TypesFit(c)
    BY <1>2 DEF Compiles
  <2>2. WellFormed(c.target)
    BY <2>1 DEF ValidPath, WellFormed, StateTargets, OpenTargets, DeltaTargets
  <2>3. \A t \in StateTargets \cup DeltaTargets \cup OpenTargets :
            Unknown(ResolvedUnknownCause(t)).cause # "authoring"
    BY DEF ResolvedUnknownCause, Unknown
  <2>4. c.kind = "state" \/ c.kind = "delta"
    BY <1>2 DEF CompiledConstraint
  <2>5. CASE c.kind = "state"
    <3>1. c.target \in StateTargets \cup OpenTargets /\ c.op \notin BaselineOperators
      BY <1>2, <2>1, <2>5 DEF ValidPath, OperatorFits
    <3>2. c.target \in OpenTargets
            \/ PureOutcome(c.op, StateValue(c.target, cand), c.expected).cause = "none"
      BY <3>1, <1>2, <2>1, StateShapes, ShapeOf, PureJudges
    <3>3. EvaluateState(c, cand).cause # "authoring"
      BY <2>3, <3>1, <3>2, RetaggedCause DEF EvaluateState
    <3> QED
      BY <1>2, <2>2, <2>5, <3>3 DEF EvaluateConstraint, Skipped, Unknown, cand
  <2>6. CASE c.kind = "delta"
    <3> DEFINE A == Allowed(c, w)
               v == Without(DeltaValue(c.target, base, cand), A)
               bv == Without(StateValue(c.target, base), A)
               cv == Without(StateValue(c.target, cand), A)
    <3>1. c.target \in StateTargets \cup DeltaTargets \cup OpenTargets
      BY <2>1 DEF ValidPath
    <3>2. c.op \in BaselineOperators <=> c.target \in StateTargets
      BY <1>2, <2>1, <2>6 DEF OperatorFits
    <3>3. ASSUME c.target \in DeltaTargets \cup OpenTargets
          PROVE  EvaluateDelta(c, w, base, cand).cause # "authoring"
      <4>1. c.op \notin BaselineOperators
        BY <3>2, <3>3 DEF StateTargets, DeltaTargets, OpenTargets
      <4>2. \/ v = Unresolved
            \/ c.target \in OpenTargets
            \/ v.shape = "items" /\ Category(c.target) = "collection"
            \/ v.shape = "number" /\ Category(c.target) = "number"
        <5>1. CASE c.target \notin OpenTargets
          <6>1. c.target \in DeltaTargets
            BY <3>3, <5>1
          <6>2. CASE DeltaValue(c.target, base, cand) = Unresolved
            BY <6>2, WithoutShape
          <6>3. ASSUME NEW S, DeltaValue(c.target, base, cand) = ItemList(S),
                       Category(c.target) = "collection"
                PROVE  v.shape = "items" /\ Category(c.target) = "collection"
            <7>1. v = ItemList(S \ A)
              BY <6>3, WithoutShape
            <7> QED
              BY <6>3, <7>1, ShapeOf
          <6>4. ASSUME NEW n, DeltaValue(c.target, base, cand) = Number(n),
                       Category(c.target) = "number"
                PROVE  v.shape = "number" /\ Category(c.target) = "number"
            <7>1. v = Number(n)
              BY <6>4, WithoutShape
            <7> QED
              BY <6>4, <7>1, ShapeOf
          <6> QED
            BY <6>1, <6>2, <6>3, <6>4, DeltaShapes
        <5> QED
          BY <5>1
      <4>3. \/ v = Unresolved
            \/ c.target \in OpenTargets
            \/ PureOutcome(c.op, v, c.expected).cause = "none"
        BY <1>2, <2>1, <3>3, <4>1, <4>2, PureJudges
      <4> HIDE DEF v
      <4> QED
        BY <2>3, <3>3, <4>1, <4>3, RetaggedCause DEF EvaluateDelta, v
    <3>4. ASSUME c.target \notin DeltaTargets \cup OpenTargets
          PROVE  EvaluateDelta(c, w, base, cand).cause # "authoring"
      <4>1. c.target \in StateTargets \ {"coverage"} /\ c.op \in BaselineOperators
        BY <3>1, <3>2, <3>4
      <4>2. bv.shape = "items" /\ cv.shape = "items"
        <5>1. PICK S : StateValue(c.target, base) = ItemList(S)
          BY <4>1, StateShapes
        <5>2. PICK T : StateValue(c.target, cand) = ItemList(T)
          BY <4>1, StateShapes
        <5>3. bv = ItemList(S \ A) /\ cv = ItemList(T \ A)
          BY <5>1, <5>2, WithoutShape
        <5> QED
          BY <5>3, ShapeOf
      <4>3. BaselineOutcome(c.op, bv, cv).cause = "none"
        BY <4>2, BaselineJudges
      <4> QED
        BY <2>3, <3>4, <4>1, <4>3, RetaggedCause DEF EvaluateDelta
    <3> QED
      BY <1>2, <2>2, <2>6, <3>3, <3>4
         DEF EvaluateConstraint, Skipped, Unknown, base, cand
  <2> QED
    BY <2>4, <2>5, <2>6
<1> QED
  BY <1>1, <1>2

\* The compiler's path, operator and type checks leave the evaluator no
\* authoring branch to take, for any states, timeouts and allow rules.
THEOREM CompilerChecksSuffice ==
    ASSUME PlansCompile, CoverageUnused
    PROVE  Spec => []CompiledNeverAuthoring
<1>1. EvalInv => CompiledNeverAuthoring
  <2> SUFFICES ASSUME EvalInv, NEW m \in 1..Len(results)
               PROVE  results[m].cause # "authoring"
    BY DEF CompiledNeverAuthoring
  <2>1. plan[m] \in CompiledConstraint /\ Compiles(plan[m]) /\ plan[m].target # "coverage"
    BY EachResult DEF PlansCompile, CoverageUnused
  <2>2. EvaluateConstraint(plan[m], world).cause # "authoring"
    BY <2>1, AcceptedOutcome
  <2> QED
    BY <2>2, EachResult DEF Skipped
<1> QED
  BY <1>1, EvalSafe, PTL

-----------------------------------------------------------------------------
(* Empty defaults decide nothing                                           *)

\* Two states that agree where the evaluator looks for a skipped or timed-out
\* dimension give a target the same value.
Agree(t, s, u) == DimensionForTarget(t) \in Dimensions
                     => s[DimensionForTarget(t)] = u[DimensionForTarget(t)]

LEMMA StateReads ==
    ASSUME NEW t, NEW s, NEW u, Agree(t, s, u)
    PROVE  StateValue(t, s) = StateValue(t, u)
  BY DEF Agree, StateValue, DimensionForTarget, Dimensions

LEMMA DeltaReads ==
    ASSUME NEW t, t \notin {"decorators_delta.removed", "python_specific"},
           NEW b, NEW c, NEW x, NEW y, Agree(t, b, x), Agree(t, c, y)
    PROVE  DeltaValue(t, b, c) = DeltaValue(t, x, y)
  BY DEF Agree, DeltaValue, DimensionForTarget, Dimensions

LEMMA CompleteFields ==
    ASSUME NEW w \in Comparison
    PROVE  /\ Complete(w).base = w.base /\ Complete(w).cand = w.cand
           /\ Complete(w).smoke = FALSE
           /\ Complete(w).baseOut = {} /\ Complete(w).candOut = {}
           /\ Complete(w).allowApi = w.allowApi
           /\ Complete(w).allowEffects = w.allowEffects
  BY DEF Comparison, Complete

\* A judged outcome is the outcome on complete data.
LEMMA JudgedOnData ==
    ASSUME NEW c \in CompiledConstraint, NEW w \in Comparison,
           c.target \notin {"decorators_delta.removed", "python_specific"},
           EvaluateConstraint(c, w).status \in {"satisfied", "violated"}
    PROVE  EvaluateConstraint(c, w) = EvaluateConstraint(c, Complete(w))
<1> DEFINE d == DimensionForTarget(c.target)
           base == Extracted(w.base, w.baseOut, w.smoke)
           cand == Extracted(w.cand, w.candOut, w.smoke)
           fbase == Extracted(w.base, {}, FALSE)
           fcand == Extracted(w.cand, {}, FALSE)
<1>1. /\ c.kind # "repair" /\ c.op # "changed_only_in" /\ WellFormed(c.target)
      /\ ~SkippedDimension(c, w) /\ ~TimedOutDimension(c, w)
  BY DEF EvaluateConstraint, Skipped, Unknown
<1>2. ~SkippedDimension(c, Complete(w)) /\ ~TimedOutDimension(c, Complete(w))
  BY CompleteFields DEF SkippedDimension, TimedOutDimension
<1>3. Allowed(c, Complete(w)) = Allowed(c, w)
  BY CompleteFields DEF Allowed
<1>4. d \in Dimensions => ~w.smoke \/ d \in SmokeDimensions
  BY <1>1 DEF SkippedDimension, Dimensions
<1>5. Agree(c.target, cand, fcand)
  BY <1>1, <1>4 DEF TimedOutDimension, Agree, Extracted
<1>6. c.kind # "state" => Agree(c.target, base, fbase)
  BY <1>1, <1>4 DEF TimedOutDimension, Agree, Extracted
<1> HIDE DEF d, base, cand, fbase, fcand
<1>7. EvaluateState(c, cand) = EvaluateState(c, fcand)
  BY <1>5, StateReads DEF EvaluateState
<1>8. c.kind # "state"
        => EvaluateDelta(c, w, base, cand) = EvaluateDelta(c, Complete(w), fbase, fcand)
  BY <1>3, <1>5, <1>6, StateReads, DeltaReads DEF EvaluateDelta
<1> QED
  BY <1>1, <1>2, <1>7, <1>8, CompleteFields
     DEF EvaluateConstraint, base, cand, fbase, fcand

\* For every constraint the skip and timeout guards of _evaluate_constraint
\* stand before each value that an empty default could have reached.
THEOREM DefaultsDecideNothing ==
    ASSUME DimensionsKnown
    PROVE  Spec => []NoJudgementFromDefaults
<1>1. EvalInv => NoJudgementFromDefaults
  <2> SUFFICES ASSUME EvalInv, NEW m \in 1..Len(results),
                      results[m].status \in {"satisfied", "violated"}
               PROVE  results[m] = EvaluateConstraint(plan[m], Complete(world))
    BY DEF NoJudgementFromDefaults
  <2>1. results[m] = EvaluateConstraint(plan[m], world)
    BY EachResult DEF Skipped
  <2>2. plan[m] \in CompiledConstraint /\ world \in Comparison
        /\ plan[m].target \notin {"decorators_delta.removed", "python_specific"}
    BY EachResult DEF DimensionsKnown
  <2> QED
    BY <2>1, <2>2, JudgedOnData
<1> QED
  BY <1>1, EvalSafe, PTL

-----------------------------------------------------------------------------
(* Allow rules only relax                                                  *)

LEMMA NoAllowanceFields ==
    ASSUME NEW w \in Comparison
    PROVE  /\ NoAllowance(w).base = w.base /\ NoAllowance(w).cand = w.cand
           /\ NoAllowance(w).smoke = w.smoke
           /\ NoAllowance(w).baseOut = w.baseOut /\ NoAllowance(w).candOut = w.candOut
           /\ NoAllowance(w).allowApi = {} /\ NoAllowance(w).allowEffects = {}
  BY DEF Comparison, NoAllowance

LEMMA NothingAllowed ==
    ASSUME NEW c, NEW w \in Comparison
    PROVE  Allowed(c, NoAllowance(w)) = {}
  BY NoAllowanceFields DEF Allowed

\* An outcome that is not reached through the delta is no affair of the rules.
LEMMA SameUnlessDelta ==
    ASSUME NEW c, NEW w \in Comparison, NEW v \in Comparison,
           v.base = w.base, v.cand = w.cand, v.smoke = w.smoke,
           v.baseOut = w.baseOut, v.candOut = w.candOut
    PROVE  LET base == Extracted(w.base, w.baseOut, w.smoke)
               cand == Extracted(w.cand, w.candOut, w.smoke)
           IN  \/ EvaluateConstraint(c, w) = EvaluateConstraint(c, v)
               \/ /\ ~SkippedDimension(c, w) /\ ~TimedOutDimension(c, w)
                  /\ c.kind # "state"
                  /\ EvaluateConstraint(c, w) = EvaluateDelta(c, w, base, cand)
                  /\ EvaluateConstraint(c, v) = EvaluateDelta(c, v, base, cand)
<1>1. SkippedDimension(c, w) <=> SkippedDimension(c, v)
  BY DEF SkippedDimension
<1>2. TimedOutDimension(c, w) <=> TimedOutDimension(c, v)
  BY DEF TimedOutDimension
<1> QED
  BY <1>1, <1>2 DEF EvaluateConstraint

\* Where both sides were extracted, nothing was lost of a smoke dimension.
LEMMA ExtractedWhole ==
    ASSUME NEW c, NEW w \in Comparison, NEW d \in SmokeDimensions, c.kind # "state",
           DimensionForTarget(c.target) = d, ~TimedOutDimension(c, w)
    PROVE  /\ Extracted(w.base, w.baseOut, w.smoke)[d] = w.base[d]
           /\ Extracted(w.cand, w.candOut, w.smoke)[d] = w.cand[d]
  BY DEF TimedOutDimension, Extracted, SmokeDimensions, Dimensions

\* A template that demands an empty collection S, with A allowed.
LEMMA EmptyRelaxed ==
    ASSUME NEW S, NEW A,
           PureOutcome("equals", ItemList(S \ A), ItemList({}))
               # PureOutcome("equals", ItemList(S), ItemList({}))
    PROVE  /\ PureOutcome("equals", ItemList(S), ItemList({})).status = "violated"
           /\ PureOutcome("equals", ItemList(S \ A), ItemList({})).status = "satisfied"
           /\ S \subseteq A
<1>1. ItemList(S \ A) = ItemList({}) => S \subseteq A
  <2>1. S \ A = {} => S \subseteq A
    OBVIOUS
  <2> QED
    BY <2>1, ShapeOf
<1>2. S = {} => S \ A = S
  OBVIOUS
<1>3. ItemList(S) = ItemList({}) => S = {}
  BY ShapeOf
<1> QED
  BY <1>1, <1>2, <1>3 DEF PureOutcome, Judged

\* A template that demands equal collections, with A allowed.
LEMMA EqualRelaxed ==
    ASSUME NEW S, NEW T, NEW A,
           BaselineOutcome("equals_baseline", ItemList(S \ A), ItemList(T \ A))
               # BaselineOutcome("equals_baseline", ItemList(S), ItemList(T))
    PROVE  /\ BaselineOutcome("equals_baseline", ItemList(S), ItemList(T)).status = "violated"
           /\ BaselineOutcome("equals_baseline", ItemList(S \ A), ItemList(T \ A)).status
                 = "satisfied"
           /\ Changes(S, T) \subseteq A
<1>1. ItemList(S \ A) = ItemList(T \ A) => Changes(S, T) \subseteq A
  <2>1. S \ A = T \ A => Changes(S, T) \subseteq A
    BY DEF Changes, Added, Removed
  <2> QED
    BY <2>1, ShapeOf
<1>2. ItemList(S) = ItemList(T) => S = T
  BY ShapeOf
<1> QED
  BY <1>1, <1>2 DEF BaselineOutcome, Judged

LEMMA RelaxedOutcome ==
    ASSUME NEW c \in CompiledConstraint, NEW w \in Comparison,
           c.source = "template" /\ c.id \in {"no_removed_api", "no_new_effects"}
               => c.expected = ItemList({}),
           EvaluateConstraint(c, w) # EvaluateConstraint(c, NoAllowance(w))
    PROVE  /\ c.source = "template"
           /\ EvaluateConstraint(c, NoAllowance(w)).status = "violated"
           /\ EvaluateConstraint(c, w).status = "satisfied"
           /\ Offending(c.id, w) \subseteq IF c.id = "no_new_effects" THEN w.allowEffects
                                           ELSE w.allowApi
<1> DEFINE n == NoAllowance(w)
           base == Extracted(w.base, w.baseOut, w.smoke)
           cand == Extracted(w.cand, w.candOut, w.smoke)
           A == Allowed(c, w)
<1>1. n \in Comparison
  BY DEF NoAllowance, Comparison
<1>2. /\ ~SkippedDimension(c, w) /\ ~TimedOutDimension(c, w) /\ c.kind # "state"
      /\ EvaluateConstraint(c, w) = EvaluateDelta(c, w, base, cand)
      /\ EvaluateConstraint(c, n) = EvaluateDelta(c, n, base, cand)
  BY <1>1, NoAllowanceFields, SameUnlessDelta
<1>3. Allowed(c, n) = {}
  BY NothingAllowed
<1>4. A # {}
  BY <1>2, <1>3 DEF EvaluateDelta
<1>5. /\ c.source = "template"
      /\ \/ /\ c.id = "no_removed_api" /\ c.target = "api_surface_delta.removed_public"
            /\ c.op = "equals" /\ A = w.allowApi
         \/ /\ c.id = "api_surface_unchanged" /\ c.target = "api_surface_public"
            /\ c.op = "equals_baseline" /\ A = w.allowApi
         \/ /\ c.id = "no_new_effects" /\ c.target = "effect_changes.added"
            /\ c.op = "equals" /\ A = w.allowEffects
  <2>1. c.source = "template"
    BY <1>4 DEF Allowed
  <2> QED
    BY <1>4, <2>1 DEF Allowed
<1> HIDE DEF n, base, cand, A
<1>6. ASSUME NEW S, c.op = "equals", c.expected = ItemList({}),
             c.target \in {"api_surface_delta.removed_public", "effect_changes.added"},
             DeltaValue(c.target, base, cand) = ItemList(S)
      PROVE  /\ EvaluateConstraint(c, n).status = "violated"
             /\ EvaluateConstraint(c, w).status = "satisfied"
             /\ S \subseteq A
  <2>1. Without(ItemList(S), A) = ItemList(S \ A) /\ Without(ItemList(S), {}) = ItemList(S)
    BY WithoutShape DEF Without
  <2>2. \A T : ItemList(T) # Unresolved
    BY DEF ItemList, Unresolved, Value
  <2>3. \A o : Retagged(c.target, o) = o
    BY <1>6 DEF Retagged, OpenTargets
  <2>4. c.target \in DeltaTargets /\ c.op \notin BaselineOperators
    BY <1>6 DEF DeltaTargets, BaselineOperators
  <2>5. EvaluateDelta(c, w, base, cand) = PureOutcome("equals", ItemList(S \ A), ItemList({}))
    BY <1>6, <2>1, <2>2, <2>3, <2>4 DEF EvaluateDelta, A
  <2>6. EvaluateDelta(c, n, base, cand) = PureOutcome("equals", ItemList(S), ItemList({}))
    BY <1>3, <1>6, <2>1, <2>2, <2>3, <2>4 DEF EvaluateDelta
  <2> QED
    BY <1>2, <2>5, <2>6, EmptyRelaxed DEF n
<1>7. CASE c.id = "no_removed_api"
  <2>1. DimensionForTarget(c.target) = "api_surface" /\ "api_surface" \in SmokeDimensions
    BY <1>5, <1>7 DEF DimensionForTarget, SmokeDimensions
  <2>2. base["api_surface"] = w.base["api_surface"] /\ cand["api_surface"] = w.cand["api_surface"]
    BY <1>2, <2>1, ExtractedWhole DEF base, cand
  <2>3. DeltaValue(c.target, base, cand) = ItemList(Offending(c.id, w))
    BY <1>5, <1>7, <2>2 DEF DeltaValue, Offending
  <2> QED
    BY <1>5, <1>6, <1>7, <2>3 DEF n
<1>8. CASE c.id = "no_new_effects"
  <2>1. DimensionForTarget(c.target) = "effects" /\ "effects" \in SmokeDimensions
    BY <1>5, <1>8 DEF DimensionForTarget, SmokeDimensions
  <2>2. base["effects"] = w.base["effects"] /\ cand["effects"] = w.cand["effects"]
    BY <1>2, <2>1, ExtractedWhole DEF base, cand
  <2>3. DeltaValue(c.target, base, cand) = ItemList(Offending(c.id, w))
    BY <1>5, <1>8, <2>2 DEF DeltaValue, Offending
  <2> QED
    BY <1>5, <1>6, <1>8, <2>3 DEF n
<1>9. CASE c.id = "api_surface_unchanged"
  <2> DEFINE S == w.base["api_surface"] \ Hidden
             T == w.cand["api_surface"] \ Hidden
  <2>1. DimensionForTarget(c.target) = "api_surface" /\ "api_surface" \in SmokeDimensions
    BY <1>5, <1>9 DEF DimensionForTarget, SmokeDimensions
  <2>2. base["api_surface"] = w.base["api_surface"] /\ cand["api_surface"] = w.cand["api_surface"]
    BY <1>2, <2>1, ExtractedWhole DEF base, cand
  <2>3. StateValue(c.target, base) = ItemList(S) /\ StateValue(c.target, cand) = ItemList(T)
    BY <1>5, <1>9, <2>2 DEF StateValue
  <2> HIDE DEF S, T
  <2>4. /\ Without(ItemList(S), A) = ItemList(S \ A) /\ Without(ItemList(S), {}) = ItemList(S)
        /\ Without(ItemList(T), A) = ItemList(T \ A) /\ Without(ItemList(T), {}) = ItemList(T)
    BY WithoutShape DEF Without
  <2>5. \A X : ItemList(X) # Unresolved
    BY DEF ItemList, Unresolved, Value
  <2>6. \A o : Retagged(c.target, o) = o
    BY <1>5, <1>9 DEF Retagged, OpenTargets
  <2>7. /\ c.target \notin DeltaTargets \cup OpenTargets
        /\ c.target \in StateTargets /\ c.op \in BaselineOperators
    BY <1>5, <1>9 DEF DeltaTargets, OpenTargets, StateTargets, BaselineOperators
  <2>8. EvaluateDelta(c, w, base, cand)
            = BaselineOutcome("equals_baseline", ItemList(S \ A), ItemList(T \ A))
    BY <1>5, <1>9, <2>3, <2>4, <2>5, <2>6, <2>7 DEF EvaluateDelta, A
  <2>9. EvaluateDelta(c, n, base, cand)
            = BaselineOutcome("equals_baseline", ItemList(S), ItemList(T))
    BY <1>3, <1>5, <1>9, <2>3, <2>4, <2>5, <2>6, <2>7 DEF EvaluateDelta
  <2>10. Changes(S, T) = Offending(c.id, w)
    BY <1>9 DEF Changes, Added, Removed, Offending, S, T
  <2>11. /\ EvaluateConstraint(c, n).status = "violated"
         /\ EvaluateConstraint(c, w).status = "satisfied"
         /\ Changes(S, T) \subseteq A
    BY <1>2, <2>8, <2>9, EqualRelaxed DEF n
  <2> QED
    BY <1>5, <1>9, <2>10, <2>11 DEF n
<1> QED
  BY <1>5, <1>7, <1>8, <1>9 DEF n

\* Whatever the rules match, an allow rule changes nothing but a violated
\* template into a satisfied one, and only when it matches every offender.
THEOREM AllowRulesAreNarrow ==
    ASSUME TemplatesAsShipped
    PROVE  Spec => []AllowRulesOnlyRelax
<1>1. EvalInv => AllowRulesOnlyRelax
  <2> SUFFICES ASSUME EvalInv, NEW m \in 1..Len(results),
                      results[m] \notin {EvaluateConstraint(plan[m], NoAllowance(world)), Skipped}
               PROVE  /\ plan[m].source = "template"
                      /\ EvaluateConstraint(plan[m], NoAllowance(world)).status = "violated"
                      /\ results[m].status = "satisfied"
                      /\ Offending(plan[m].id, world)
                           \subseteq IF plan[m].id = "no_new_effects" THEN world.allowEffects
                                     ELSE world.allowApi
    BY DEF AllowRulesOnlyRelax
  <2>1. results[m] = EvaluateConstraint(plan[m], world)
    BY EachResult
  <2>2. /\ plan[m] \in CompiledConstraint /\ world \in Comparison
        /\ plan[m].source = "template" /\ plan[m].id \in {"no_removed_api", "no_new_effects"}
              => plan[m].expected = ItemList({})
    BY EachResult DEF TemplatesAsShipped
  <2> QED
    BY <2>1, <2>2, RelaxedOutcome
<1> QED
  BY <1>1, EvalSafe, PTL

-----------------------------------------------------------------------------
(* D3: a duplicate of a template decides nothing                           *)

\* Without allow rules an outcome is a matter of kind, target, operator and
\* literal alone.
LEMMA SameConstraint ==
    ASSUME NEW c, NEW k, NEW w \in Comparison, w = NoAllowance(w), ConstraintsCollide(c, k)
    PROVE  EvaluateConstraint(c, w) = EvaluateConstraint(k, w)
<1>1. c.kind = k.kind /\ c.target = k.target /\ c.op = k.op /\ c.expected = k.expected
  BY DEF ConstraintsCollide
<1>2. Allowed(c, w) = {} /\ Allowed(k, w) = {}
  BY NothingAllowed
<1>3. \A s : EvaluateState(c, s) = EvaluateState(k, s)
  BY <1>1 DEF EvaluateState
<1>4. \A s, t : EvaluateDelta(c, w, s, t) = EvaluateDelta(k, w, s, t)
  BY <1>1, <1>2 DEF EvaluateDelta
<1>5. /\ SkippedDimension(c, w) <=> SkippedDimension(k, w)
      /\ TimedOutDimension(c, w) <=> TimedOutDimension(k, w)
  BY <1>1 DEF SkippedDimension, TimedOutDimension
<1> QED
  BY <1>1, <1>3, <1>4, <1>5 DEF EvaluateConstraint

\* Whatever weight the duplicate has, the template fails where it counts.
LEMMA TemplateOutweighs ==
    ASSUME NEW c, NEW k, NEW r, k.severity = "hard", k.policy = "fail",
           Fails(c, r) \/ Repairs(c, r)
    PROVE  Fails(k, r)
  BY DEF Fails, Repairs

\* A duplicate that D3 names can be removed from the target: no verdict, of
\* whatever run, depends on it.
THEOREM DuplicatesCanGo ==
    ASSUME TemplatesAsShipped
    PROVE  Spec => []DuplicateIsRedundant
<1>1. EvalInv => DuplicateIsRedundant
  <2> SUFFICES ASSUME EvalInv, verdict # "none", world = NoAllowance(world),
                      NEW d \in DetectD3
               PROVE  LET rest == (1..Len(plan)) \ {d}
                      IN  /\ verdict = "fail" <=>
                                \E m \in rest : Fails(plan[m], FullResult(m))
                          /\ verdict = "pass" <=>
                                \A m \in rest : ~Fails(plan[m], FullResult(m))
                                                  /\ ~Repairs(plan[m], FullResult(m))
    BY DEF DuplicateIsRedundant
  <2>1. d \in 1..Len(plan) /\ plan[d].source = "user"
    BY DEF DetectD3, Naming
  <2>2. PICK k \in 1..Len(plan) :
            plan[k].source = "template" /\ ConstraintsCollide(plan[d], plan[k])
    BY DEF DetectD3, Naming
  <2>3. k # d
    BY <2>1, <2>2
  <2>4. plan[k].severity = "hard" /\ plan[k].policy = "fail"
    BY <2>2 DEF EvalInv, TemplatesAsShipped
  <2>5. FullResult(d) = FullResult(k)
    BY <2>2, SameConstraint, WorldTypes DEF EvalInv, FullResult
  <2>6. Fails(plan[d], FullResult(d)) \/ Repairs(plan[d], FullResult(d))
            => Fails(plan[k], FullResult(k))
    BY <2>4, <2>5, TemplateOutweighs
  <2>7. verdict = FullVerdict
    BY DEF EvalInv, VerdictIsFull
  <2> QED
    BY <2>1, <2>2, <2>3, <2>6, <2>7 DEF FullVerdict
<1> QED
  BY <1>1, EvalSafe, PTL

-----------------------------------------------------------------------------
(* Complete comparisons                                                    *)

\* Nothing is skipped or timed out, so a delta constraint is judged on what
\* the two trees hold.
LEMMA CompleteOutcome ==
    ASSUME NEW c, NEW w \in Comparison, w = Complete(w), c.kind = "delta",
           c.op # "changed_only_in", WellFormed(c.target)
    PROVE  EvaluateConstraint(c, w) = EvaluateDelta(c, w, w.base, w.cand)
<1>1. w.smoke = FALSE /\ w.baseOut = {} /\ w.candOut = {}
  BY CompleteFields
<1>2. ~SkippedDimension(c, w) /\ ~TimedOutDimension(c, w)
  BY <1>1 DEF SkippedDimension, TimedOutDimension
<1>3. ASSUME NEW s \in States PROVE Extracted(s, {}, FALSE) = s
  BY DEF Extracted, States
<1>4. w.base \in States /\ w.cand \in States
  BY DEF Comparison
<1> QED
  BY <1>1, <1>2, <1>3, <1>4 DEF EvaluateConstraint

\* What functions count for from the k-th point on is finite.
LEMMA PointsFinite ==
    ASSUME NEW S \in SUBSET Items, IsFiniteSet(S), NEW k \in Nat
    PROVE  IsFiniteSet(UNION {{f} \X (k..Cyclomatic[f]) : f \in S})
<1> DEFINE row == [f \in S |-> {f} \X (k..Cyclomatic[f])]
           rows == {{f} \X (k..Cyclomatic[f]) : f \in S}
<1>1. row \in Surjection(S, rows)
  BY DEF Surjection
<1>2. IsFiniteSet(rows)
  BY <1>1, FS_Surjection
<1>3. ASSUME NEW f \in S PROVE IsFiniteSet({f} \X (k..Cyclomatic[f]))
  <2>1. Cyclomatic[f] \in Int /\ k \in Int
    BY CyclomaticTypes
  <2>2. IsFiniteSet(k..Cyclomatic[f])
    BY <2>1, FS_Interval
  <2>3. IsFiniteSet({f})
    BY FS_Singleton
  <2> QED
    BY <2>2, <2>3, FS_Product
<1>4. \A T \in rows : IsFiniteSet(T)
  BY <1>3
<1> QED
  BY <1>2, <1>4, FS_UNION

\* The summed complexity is one for each function and one for each branch.
LEMMA SumSplits ==
    ASSUME NEW s \in States
    PROVE  /\ Cardinality(s["complexity"]) \in Nat
           /\ Cardinality(Branches(s["complexity"])) \in Nat
           /\ SumComplexity(s["complexity"])
                 = Cardinality(s["complexity"]) + Cardinality(Branches(s["complexity"]))
<1> DEFINE S == s["complexity"]
           ones == S \X {1}
<1>1. IsFiniteSet(S) /\ S \in SUBSET Items
  BY DEF States, Dimensions
<1> HIDE DEF S
<1>2. IsFiniteSet(Branches(S))
  BY <1>1, PointsFinite DEF Branches
<1>3. IsFiniteSet(ones) /\ Cardinality(ones) = Cardinality(S) * 1
  <2>1. IsFiniteSet({1}) /\ Cardinality({1}) = 1
    BY FS_Singleton
  <2> QED
    BY <1>1, <2>1, FS_Product
<1>4. Points(S) = ones \cup Branches(S)
  <2>1. \A f \in S : Cyclomatic[f] \in Nat \ {0}
    BY <1>1, CyclomaticTypes
  <2>2. \A f \in S : 1..Cyclomatic[f] = {1} \cup (2..Cyclomatic[f])
    BY <2>1
  <2> QED
    BY <2>2 DEF Points, Branches
<1>5. ones \cap Branches(S) = {}
  BY DEF Branches
<1>6. Cardinality(S) \in Nat /\ Cardinality(Branches(S)) \in Nat
  BY <1>1, <1>2, FS_CardinalityType
<1>7. Cardinality(Points(S))
        = Cardinality(ones) + Cardinality(Branches(S)) - Cardinality(ones \cap Branches(S))
  BY <1>2, <1>3, <1>4, FS_Union
<1>8. Cardinality(ones \cap Branches(S)) = 0
  BY <1>5, FS_EmptySet
<1>9. Cardinality(Points(S)) = Cardinality(S) + Cardinality(Branches(S))
  BY <1>3, <1>6, <1>7, <1>8
<1> QED
  BY <1>6, <1>9 DEF SumComplexity, S

\* The sums that a complexity delta subtracts are numbers.
LEMMA Sizes ==
    ASSUME NEW s \in States
    PROVE  SumComplexity(s["complexity"]) \in Nat
<1>1. \A m, n \in Nat : m + n \in Nat
  OBVIOUS
<1> QED
  BY <1>1, SumSplits

\* Unchanged code has an empty delta.
LEMMA EmptyDelta ==
    ASSUME NEW t \in DeltaTargets \ {"coverage_delta.line"}, NEW s \in States
    PROVE  DeltaValue(t, s, s) = IF Category(t) = "number" THEN Number(0) ELSE ItemList({})
<1>1. \A S : Added(S, S) = {} /\ Removed(S, S) = {}
  BY DEF Added, Removed
<1>2. \A S : Removed(S, S) \ Hidden = {}
  BY <1>1
<1>3. CASE t = "complexity_delta.cyclomatic"
  <2>1. Category(t) = "number"
    BY <1>3 DEF Category, OpenTargets
  <2>2. SumComplexity(s["complexity"]) - SumComplexity(s["complexity"]) = 0
    <3>1. SumComplexity(s["complexity"]) \in Nat
      BY Sizes
    <3>2. \A n \in Nat : n - n = 0
      OBVIOUS
    <3> QED
      BY <3>1, <3>2
  <2>3. DeltaValue(t, s, s)
          = Number(SumComplexity(s["complexity"]) - SumComplexity(s["complexity"]))
    BY <1>3 DEF DeltaValue
  <2> QED
    BY <2>1, <2>2, <2>3
<1>4. CASE t # "complexity_delta.cyclomatic"
  <2>1. Category(t) # "number"
    BY <1>4 DEF Category, OpenTargets, DeltaTargets
  <2>2. DeltaValue(t, s, s) = ItemList({})
    BY <1>1, <1>2, <1>4 DEF DeltaValue, DeltaTargets
  <2> QED
    BY <2>1, <2>2
<1> QED
  BY <1>3, <1>4

\* How a delta constraint on a delta target is judged.
LEMMA DeltaJudged ==
    ASSUME NEW c \in CompiledConstraint, NEW w \in Comparison, NEW b, NEW k,
           c.target \in DeltaTargets, c.op \notin BaselineOperators,
           DeltaValue(c.target, b, k) # Unresolved
    PROVE  EvaluateDelta(c, w, b, k)
              = PureOutcome(c.op, Without(DeltaValue(c.target, b, k), Allowed(c, w)),
                            c.expected)
<1>1. c.target \notin OpenTargets
  BY DEF DeltaTargets, OpenTargets
<1>2. \A o : Retagged(c.target, o) = o
  BY <1>1 DEF Retagged
<1>3. \A S : ItemList(S) # Unresolved
  BY DEF ItemList, Unresolved, Value
<1>4. \A n : Number(n) # Unresolved
  BY DEF Number, Unresolved, Value
<1>5. Without(DeltaValue(c.target, b, k), Allowed(c, w)) # Unresolved
  <2>1. ASSUME NEW S, DeltaValue(c.target, b, k) = ItemList(S)
        PROVE  Without(DeltaValue(c.target, b, k), Allowed(c, w)) # Unresolved
    <3>1. Without(ItemList(S), Allowed(c, w)) = ItemList(S \ Allowed(c, w))
      BY WithoutShape
    <3> QED
      BY <2>1, <3>1, <1>3
  <2>2. ASSUME NEW n, DeltaValue(c.target, b, k) = Number(n)
        PROVE  Without(DeltaValue(c.target, b, k), Allowed(c, w)) # Unresolved
    <3>1. Without(Number(n), Allowed(c, w)) = Number(n)
      BY WithoutShape
    <3> QED
      BY <2>2, <3>1, <1>4
  <2> QED
    BY <2>1, <2>2, DeltaShapes
<1> QED
  BY <1>2, <1>5 DEF EvaluateDelta

-----------------------------------------------------------------------------
(* D4: a target of locks passes on unchanged code                          *)

\* The outcome of a constraint on unchanged code, by the kind of its target.
LEMMA UnchangedDelta ==
    ASSUME NEW c \in CompiledConstraint, NEW w \in Comparison, w = Complete(w),
           w.base = w.cand, c.kind = "delta", Compiles(c), c.op # "changed_only_in",
           c.target \in DeltaTargets \ {"coverage_delta.line"}
    PROVE  EvaluateConstraint(c, w)
              = PureOutcome(c.op, IF Category(c.target) = "number" THEN Number(0)
                                  ELSE ItemList({}), c.expected)
<1>1. c.op \notin BaselineOperators
  BY DEF Compiles, OperatorFits, StateTargets, DeltaTargets
<1>2. WellFormed(c.target)
  BY DEF WellFormed, DeltaTargets
<1>3. w.base \in States
  BY DEF Comparison
<1> DEFINE v == DeltaValue(c.target, w.base, w.cand)
<1>4. v = IF Category(c.target) = "number" THEN Number(0) ELSE ItemList({})
  BY <1>3, EmptyDelta
<1> HIDE DEF v
<1>5. v # Unresolved
  <2>1. ItemList({}) # Unresolved /\ Number(0) # Unresolved
    BY DEF ItemList, Number, Unresolved, Value
  <2> QED
    BY <1>4, <2>1
<1>6. Without(v, Allowed(c, w)) = v
  <2>1. Without(Number(0), Allowed(c, w)) = Number(0)
    BY WithoutShape
  <2>2. Without(ItemList({}), Allowed(c, w)) = ItemList({})
    <3>1. Without(ItemList({}), Allowed(c, w)) = ItemList({} \ Allowed(c, w))
      BY WithoutShape
    <3>2. {} \ Allowed(c, w) = {}
      OBVIOUS
    <3> QED
      BY <3>1, <3>2
  <2> QED
    BY <1>4, <2>1, <2>2
<1> QED
  BY <1>1, <1>2, <1>4, <1>5, <1>6, CompleteOutcome, DeltaJudged DEF v

LEMMA UnchangedState ==
    ASSUME NEW c \in CompiledConstraint, NEW w \in Comparison, w = Complete(w),
           w.base = w.cand, c.kind = "delta", Compiles(c), c.op \in LockOperators,
           c.target \notin OpenTargets \cup {"coverage"}
    PROVE  EvaluateConstraint(c, w).status = "satisfied"
<1>1. c.op \in BaselineOperators /\ c.op # "changed_only_in"
  BY DEF LockOperators, BaselineOperators
<1>2. c.target \in StateTargets \ {"coverage"}
  BY <1>1 DEF Compiles, OperatorFits
<1>3. WellFormed(c.target) /\ c.target \notin DeltaTargets
  BY <1>2 DEF WellFormed, StateTargets, DeltaTargets
<1> DEFINE v == Without(StateValue(c.target, w.base), Allowed(c, w))
<1>4. PICK T : v = ItemList(T)
  <2>1. PICK S : StateValue(c.target, w.base) = ItemList(S)
    BY <1>2, StateShapes
  <2>2. v = ItemList(S \ Allowed(c, w))
    BY <2>1, WithoutShape
  <2> QED
    BY <2>2
<1> HIDE DEF v
<1>5. v # Unresolved /\ v.shape = "items"
  <2>1. Unresolved.shape = "unresolved"
    BY DEF Unresolved, Value
  <2>2. v.shape = "items"
    BY <1>4, ShapeOf
  <2> QED
    BY <2>1, <2>2
<1>6. BaselineOutcome(c.op, v, v).status = "satisfied"
  <2>1. c.op \notin {"not_equals_baseline", "changed"} /\ v.items \subseteq v.items
    BY DEF LockOperators
  <2> QED
    BY <1>5, <2>1 DEF BaselineOutcome, Judged, Collection
<1>7. \A o : Retagged(c.target, o) = o
  BY DEF Retagged
<1>8. EvaluateDelta(c, w, w.base, w.cand) = BaselineOutcome(c.op, v, v)
  BY <1>1, <1>2, <1>3, <1>5, <1>7 DEF EvaluateDelta, v
<1> QED
  BY <1>1, <1>3, <1>6, <1>8, CompleteOutcome

\* _is_lock_only_constraint: such a constraint is satisfied by no change.
LEMMA LockSatisfied ==
    ASSUME NEW c \in CompiledConstraint, NEW w \in Comparison, w = Complete(w),
           w.base = w.cand, Compiles(c), LockOnlyConstraint(c), ~D4Blind(c)
    PROVE  EvaluateConstraint(c, w).status = "satisfied"
<1>1. /\ c.kind = "delta" /\ c.target \notin OpenTargets
      /\ c.target \notin {"coverage", "coverage_delta.line"}
  BY DEF LockOnlyConstraint, D4Blind
<1>2. CASE c.op \in LockOperators
  BY <1>1, <1>2, UnchangedState
<1>3. CASE c.op \notin LockOperators
  <2>1. Leaf(c.target) /\ c.target \in DeltaTargets
    BY <1>1, <1>3 DEF LockOnlyConstraint, Leaf
  <2>2. c.op # "changed_only_in"
    BY <1>3 DEF LockOnlyConstraint, NumericHolds
  <2>3. Category(c.target) \in {"number", "collection"}
    BY <1>1 DEF Category
  <2>4. ASSUME NEW b \in BOOLEAN, b PROVE Judged(b).status = "satisfied"
    BY <2>4 DEF Judged
  <2>5. TypesFit(c)
    BY <1>1 DEF Compiles
  <2>6. CASE Category(c.target) = "number"
    <3>1. EvaluateConstraint(c, w) = PureOutcome(c.op, Number(0), c.expected)
      BY <1>1, <2>1, <2>2, <2>6, UnchangedDelta
    <3>2. c.op \notin CollectionExpected
      BY <2>5, <2>6 DEF TypesFit, CollectionOperators
    <3>3. Number(0).shape = "number" /\ Number(0).num = 0
      BY ShapeOf
    <3>4. CASE c.op \in {"equals", "not_equals"}
      <4>1. c.op = "equals" => c.expected = Number(0)
        <5>1. ~EmptyCollection(c.expected) \/ c.op # "equals"
          <6>1. ItemList({}).shape # "number"
            BY ShapeOf
          <6> QED
            BY <1>1, <2>6, <6>1 DEF D4Blind, EmptyCollection, ScalarNumber
        <5> QED
          BY <1>3, <3>4, <5>1 DEF LockOnlyConstraint, NumericHolds
      <4>2. c.op = "not_equals" => c.expected # Number(0)
        BY <1>3 DEF LockOnlyConstraint, NumericHolds
      <4> QED
        BY <3>1, <3>4, <4>1, <4>2 DEF PureOutcome, Judged
    <3>5. CASE c.op \notin {"equals", "not_equals"}
      <4>1. \/ c.expected.shape = "number" /\ NumericHolds(c.op, 0, c.expected.num)
            \/ c.op = "within_range" /\ c.expected.shape = "range" /\ 0 <= c.expected.num
        BY <1>3, <3>2, <3>5 DEF LockOnlyConstraint, ScalarNumber, CollectionExpected
      <4>2. CASE c.op = "within_range"
        <5>1. c.expected.shape = "range" /\ 0 <= c.expected.num
          BY <4>1, <4>2 DEF NumericHolds
        <5>2. PureOutcome(c.op, Number(0), c.expected)
                 = Judged(0 <= 0 /\ 0 <= c.expected.num)
          BY <3>2, <3>3, <3>5, <4>2, <5>1 DEF PureOutcome
        <5> QED
          BY <3>1, <5>1, <5>2 DEF Judged
      <4>3. CASE c.op # "within_range"
        <5>1. PureOutcome(c.op, Number(0), c.expected)
                 = Judged(NumericHolds(c.op, 0, c.expected.num))
          BY <3>2, <3>3, <3>5, <4>1, <4>3 DEF PureOutcome
        <5> QED
          BY <3>1, <4>1, <4>3, <5>1 DEF Judged
      <4> QED
        BY <4>2, <4>3
    <3> QED
      BY <3>4, <3>5
  <2>7. CASE Category(c.target) = "collection"
    <3>1. EvaluateConstraint(c, w) = PureOutcome(c.op, ItemList({}), c.expected)
      BY <1>1, <2>1, <2>2, <2>7, UnchangedDelta
    <3>2. c.op \notin NumericOperators \cup {"within_range"}
      BY <2>5, <2>7 DEF TypesFit
    <3>3. ~NumericHolds(c.op, 0, c.expected.num)
      BY <3>2 DEF NumericHolds, NumericOperators
    <3>4. ItemList({}).shape = "items" /\ ItemList({}).items = {}
      BY ShapeOf
    <3>5. c.op = "equals" => c.expected # Number(0)
      <4>1. Number(0).shape = "number"
        BY ShapeOf
      <4> QED
        BY <2>7, <4>1 DEF D4Blind, ScalarNumber
    <3>6. CASE c.op \in {"equals", "not_equals"}
      <4>1. c.op = "equals" => c.expected = ItemList({})
        BY <1>3, <3>3, <3>5 DEF LockOnlyConstraint, EmptyCollection
      <4>2. c.op = "not_equals" => c.expected # ItemList({})
        BY <1>3, <3>3 DEF LockOnlyConstraint, EmptyCollection
      <4> QED
        BY <3>1, <3>6, <4>1, <4>2 DEF PureOutcome, Judged
    <3>7. CASE c.op \notin {"equals", "not_equals"}
      <4>1. \/ c.op \in {"excludes_all", "subset_of"}
            \/ c.op \in {"includes_all", "superset_of"} /\ c.expected = ItemList({})
        BY <1>3, <3>2, <3>3, <3>7 DEF LockOnlyConstraint, EmptyCollection
      <4>2. c.op \in CollectionExpected /\ c.expected.shape = "items"
        BY <2>5, <4>1 DEF TypesFit, CollectionExpected
      <4>3. PureOutcome(c.op, ItemList({}), c.expected)
               = Judged(CollectionHolds(c.op, {}, c.expected.items))
        BY <3>4, <3>7, <4>2 DEF PureOutcome, Collection
      <4>4. CollectionHolds(c.op, {}, c.expected.items)
        BY <3>4, <4>1 DEF CollectionHolds
      <4> QED
        BY <3>1, <4>3, <4>4 DEF Judged
    <3> QED
      BY <3>6, <3>7
  <2> QED
    BY <2>3, <2>6, <2>7
<1> QED
  BY <1>2, <1>3

\* What D4 leaves out of the count cannot fail either.
LEMMA NeutralUnlessCounted ==
    ASSUME NEW c \in CompiledConstraint, NEW w \in Comparison, Compiles(c),
           c.target # "coverage", ~ParticipatesInVerdict(c)
    PROVE  ~Fails(c, EvaluateConstraint(c, w)) /\ ~Repairs(c, EvaluateConstraint(c, w))
<1>1. CASE c.kind = "repair" \/ c.op = "changed_only_in"
  BY <1>1, SkippedIsNeutral DEF EvaluateConstraint
<1>2. CASE ~(c.kind = "repair" \/ c.op = "changed_only_in")
  <2>1. c.severity = "info" /\ c.policy \notin {"fail", "repair"}
    BY <1>2 DEF ParticipatesInVerdict
  <2>2. EvaluateConstraint(c, w).cause # "authoring"
    BY AcceptedOutcome
  <2> QED
    BY <2>1, <2>2 DEF Fails, Repairs
<1> QED
  BY <1>1, <1>2

-----------------------------------------------------------------------------
(* P1, P2 and D7: what does not pass                                       *)

\* A missing addition is a violation on unchanged code.
LEMMA AdditionViolated ==
    ASSUME NEW c \in CompiledConstraint, NEW w \in Comparison, w = Complete(w),
           w.base = w.cand, Compiles(c), PositiveAddition(c)
    PROVE  EvaluateConstraint(c, w).status = "violated"
<1>1. /\ c.target \in {"api_surface_delta.added", "test_surface_delta.new_cases"}
      /\ c.kind # "repair" /\ c.op # "changed_only_in"
  BY DEF PositiveAddition, TargetsAddedDimension, ParticipatesInVerdict
<1>2. c.target \in DeltaTargets \ {"coverage_delta.line"} /\ Category(c.target) # "number"
  BY <1>1 DEF DeltaTargets, Category, OpenTargets
<1>3. ValidPath(c) /\ TypesFit(c)
  BY <1>1 DEF Compiles
<1>4. c.kind = "delta"
  BY <1>2, <1>3 DEF ValidPath, DeltaTargets, StateTargets, OpenTargets
<1>5. EvaluateConstraint(c, w) = PureOutcome(c.op, ItemList({}), c.expected)
  BY <1>1, <1>2, <1>4, UnchangedDelta
<1>6. CASE c.op \in {"equals", "not_equals"}
  <2>1. c.op = "equals" => c.expected # ItemList({})
    BY DEF PositiveAddition, EmptyCollection
  <2>2. c.op = "not_equals" => c.expected = ItemList({})
    BY DEF PositiveAddition, EmptyCollection
  <2> QED
    BY <1>5, <1>6, <2>1, <2>2 DEF PureOutcome, Judged
<1>7. CASE c.op \notin {"equals", "not_equals"}
  <2>1. c.op \in {"includes_all", "includes_any", "superset_of"} /\ c.expected # ItemList({})
    BY <1>7 DEF PositiveAddition, EmptyCollection
  <2>2. c.op \in CollectionExpected /\ c.expected.shape = "items"
    BY <1>3, <2>1 DEF TypesFit, CollectionExpected
  <2>3. c.expected.items # {}
    <3>1. c.expected \in {ItemList(c.expected.items), Number(c.expected.num),
                          RangeTo(c.expected.num), Mapping(c.expected.items), Null}
      BY DEF CompiledConstraint, Values
    <3>2. c.expected = ItemList(c.expected.items)
      BY <2>2, <3>1 DEF Number, RangeTo, Mapping, Null, Value
    <3> QED
      BY <2>1, <3>2
  <2>4. ItemList({}).shape = "items" /\ ItemList({}).items = {}
    BY ShapeOf
  <2>5. PureOutcome(c.op, ItemList({}), c.expected)
           = Judged(CollectionHolds(c.op, {}, c.expected.items))
    BY <1>7, <2>2, <2>4 DEF PureOutcome, Collection
  <2>6. ~CollectionHolds(c.op, {}, c.expected.items)
    BY <2>1, <2>3 DEF CollectionHolds
  <2> QED
    BY <1>5, <2>5, <2>6 DEF Judged
<1> QED
  BY <1>6, <1>7

\* So is a bound that the summed complexity exceeds.
LEMMA GrowthViolated ==
    ASSUME NEW c \in CompiledConstraint, NEW w \in Comparison, w = Complete(w),
           Compiles(c), c.target = "complexity_delta.cyclomatic", ParticipatesInVerdict(c),
           RejectsCyclomaticDelta(c, SumComplexity(w.cand["complexity"])
                                       - SumComplexity(w.base["complexity"]))
    PROVE  EvaluateConstraint(c, w).status = "violated"
<1> DEFINE n == SumComplexity(w.cand["complexity"]) - SumComplexity(w.base["complexity"])
<1>1. c.kind # "repair" /\ c.op # "changed_only_in"
  BY DEF ParticipatesInVerdict
<1>2. ValidPath(c) /\ TypesFit(c) /\ OperatorFits(c)
  BY <1>1 DEF Compiles
<1>3. c.target \in DeltaTargets /\ c.target \notin StateTargets \cup OpenTargets
      /\ WellFormed(c.target)
  BY DEF DeltaTargets, StateTargets, OpenTargets, WellFormed
<1>4. c.kind = "delta"
  BY <1>2, <1>3 DEF ValidPath
<1>5. c.op \notin BaselineOperators
  BY <1>1, <1>2, <1>3, <1>4 DEF OperatorFits
<1>6. DeltaValue(c.target, w.base, w.cand) = Number(n)
  BY DEF DeltaValue
<1>7. n \in Int
  <2>1. w.base \in States /\ w.cand \in States
    BY DEF Comparison
  <2>2. SumComplexity(w.base["complexity"]) \in Nat /\ SumComplexity(w.cand["complexity"]) \in Nat
    BY <2>1, Sizes
  <2>3. \A x, y \in Nat : x - y \in Int
    OBVIOUS
  <2> QED
    BY <2>2, <2>3
<1>8. RejectsCyclomaticDelta(c, n)
  OBVIOUS
<1> HIDE DEF n
<1>9. EvaluateConstraint(c, w) = PureOutcome(c.op, Number(n), c.expected)
  <2>1. Number(n) # Unresolved
    BY DEF Number, Unresolved, Value
  <2>2. Without(Number(n), Allowed(c, w)) = Number(n)
    BY WithoutShape
  <2> QED
    BY <1>1, <1>3, <1>4, <1>5, <1>6, <2>1, <2>2, CompleteOutcome, DeltaJudged
<1>10. Number(n).shape = "number" /\ Number(n).num = n
  BY ShapeOf
<1>11. CASE c.op = "equals"
  BY <1>8, <1>9, <1>10, <1>11 DEF RejectsCyclomaticDelta, PureOutcome, Judged
<1>12. CASE c.op = "within_range"
  BY <1>8, <1>9, <1>10, <1>12
     DEF RejectsCyclomaticDelta, PureOutcome, Judged, CollectionExpected
<1>13. CASE c.op \in {"less_than", "less_than_or_equal"}
  <2>1. c.expected.shape = "number" /\ ~NumericHolds(c.op, n, c.expected.num)
    BY <1>8, <1>13 DEF RejectsCyclomaticDelta, ScalarNumber, NumericHolds
  <2>2. PureOutcome(c.op, Number(n), c.expected)
           = Judged(NumericHolds(c.op, n, c.expected.num))
    BY <1>10, <1>13, <2>1 DEF PureOutcome, CollectionExpected
  <2> QED
    BY <1>9, <2>1, <2>2 DEF Judged
<1> QED
  BY <1>8, <1>11, <1>12, <1>13 DEF RejectsCyclomaticDelta

\* A violation that counts keeps the verdict from pass.
LEMMA ViolationCounts ==
    ASSUME NEW c \in CompiledConstraint, NEW r, r.status = "violated",
           ParticipatesInVerdict(c), c.source = "template" => c.severity = "hard",
           ~(c.source = "user" /\ c.severity = "info" /\ c.policy \in {"fail", "repair"})
    PROVE  Fails(c, r) \/ Repairs(c, r)
  BY DEF CompiledConstraint, ParticipatesInVerdict, Fails, Repairs

\* For every accepted target and every complete comparison the advisories D4,
\* P1, P2 and D7 of target-doctor, qualified by S1, are right about the verdict.
THEOREM AdvisoriesForetell ==
    ASSUME PlansCompile, TemplatesAsShipped
    PROVE  Spec => []VerdictAsAdvised
<1>1. EvalInv => VerdictAsAdvised
  <2> SUFFICES ASSUME EvalInv, verdict # "none", world = Complete(world)
               PROVE  /\ DetectD4 /\ world.base = world.cand /\ Naming(D4Blind) = {}
                            => verdict = "pass"
                      /\ (~DetectP1 \/ ~DetectP2) /\ world.base = world.cand
                         /\ DetectS1 = {} => verdict # "pass"
                      /\ DetectD7(NetAdded) # {} /\ BranchesPreserved
                         /\ DetectS1 = {} => verdict # "pass"
    BY DEF VerdictAsAdvised
  <2>1. verdict = FullVerdict
    BY DEF EvalInv, VerdictIsFull
  <2>2. world \in Comparison
    BY WorldTypes DEF EvalInv
  <2>3. \A m \in 1..Len(plan) :
            /\ plan[m] \in CompiledConstraint /\ Compiles(plan[m])
            /\ plan[m].source = "template" => plan[m].severity = "hard"
    BY PlanIsSequence DEF EvalInv, PlansCompile, TemplatesAsShipped
  <2>4. ASSUME DetectD4, world.base = world.cand, Naming(D4Blind) = {}
        PROVE  verdict = "pass"
    <3> SUFFICES ASSUME NEW m \in 1..Len(plan)
                 PROVE  ~Fails(plan[m], FullResult(m)) /\ ~Repairs(plan[m], FullResult(m))
      BY <2>1 DEF FullVerdict
    <3>1. ~D4Blind(plan[m])
      BY <2>4 DEF Naming
    <3>2. plan[m].target # "coverage"
      BY <3>1 DEF D4Blind
    <3>3. CASE ParticipatesInVerdict(plan[m])
      <4>1. LockOnlyConstraint(plan[m])
        BY <2>4, <3>3 DEF DetectD4, LockOnlyTarget, Naming
      <4>2. FullResult(m).status = "satisfied"
        BY <2>2, <2>3, <2>4, <3>1, <4>1, LockSatisfied DEF FullResult
      <4> QED
        BY <4>2 DEF Fails, Repairs
    <3>4. CASE ~ParticipatesInVerdict(plan[m])
      BY <2>2, <2>3, <3>2, <3>4, NeutralUnlessCounted DEF FullResult
    <3> QED
      BY <3>3, <3>4
  <2>5. ASSUME NEW m \in 1..Len(plan), ParticipatesInVerdict(plan[m]),
               FullResult(m).status = "violated", DetectS1 = {}
        PROVE  verdict # "pass"
    <3>1. ~(plan[m].source = "user" /\ plan[m].severity = "info"
              /\ plan[m].policy \in {"fail", "repair"})
      BY <2>5 DEF DetectS1, Naming
    <3>2. Fails(plan[m], FullResult(m)) \/ Repairs(plan[m], FullResult(m))
      BY <2>3, <2>5, <3>1, ViolationCounts
    <3> QED
      BY <2>1, <3>2 DEF FullVerdict
  <2>6. ASSUME ~DetectP1 \/ ~DetectP2, world.base = world.cand, DetectS1 = {}
        PROVE  verdict # "pass"
    <3>1. PICK m \in 1..Len(plan) : PositiveAddition(plan[m])
      BY <2>6 DEF DetectP1, DetectP2, Naming, TargetsNewTestCases
    <3>2. FullResult(m).status = "violated"
      BY <2>2, <2>3, <2>6, <3>1, AdditionViolated DEF FullResult
    <3> QED
      BY <2>5, <2>6, <3>1, <3>2 DEF PositiveAddition
  <2>7. ASSUME DetectD7(NetAdded) # {}, BranchesPreserved, DetectS1 = {}
        PROVE  verdict # "pass"
    <3>1. PICK m \in 1..Len(plan) :
              plan[m].target = "complexity_delta.cyclomatic"
              /\ ParticipatesInVerdict(plan[m]) /\ RejectsCyclomaticDelta(plan[m], NetAdded)
      BY <2>7 DEF DetectD7, Naming
    <3>2. NetAdded = SumComplexity(world.cand["complexity"])
                       - SumComplexity(world.base["complexity"])
      <4>1. world.base \in States /\ world.cand \in States
        BY <2>2 DEF Comparison
      <4>2. \A x, y, k \in Nat : (x + k) - (y + k) = x - y
        OBVIOUS
      <4> QED
        BY <2>7, <4>1, <4>2, SumSplits DEF NetAdded, BranchesPreserved
    <3>3. FullResult(m).status = "violated"
      BY <2>2, <2>3, <3>1, <3>2, GrowthViolated DEF FullResult
    <3> QED
      BY <2>5, <2>7, <3>1, <3>3
  <2> QED
    BY <2>4, <2>6, <2>7
<1> QED
  BY <1>1, EvalSafe, PTL

=============================================================================
