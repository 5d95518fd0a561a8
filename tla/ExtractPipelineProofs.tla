------------------------ MODULE ExtractPipelineProofs ------------------------
(***************************************************************************)
(* The assembly of the two code states is complete or says what is         *)
(* missing, for any number of dimensions and whatever the threads that     *)
(* timed out do afterwards.                                                *)
(***************************************************************************)
EXTENDS ExtractPipeline, TLAPS

\* The field of job j has been assembled.
Finished(j) ==
    \/ main = "returned"
    \/ j[1] < side
    \/ j[1] = side /\ j[2] < dim

\* A finished field is final as CompleteOrReported says of the whole run; an
\* unfinished one is untouched, and so is its thread unless it is the current.
FieldsInOrder ==
    \A j \in Jobs :
        /\ Finished(j) =>
              /\ j \in timedOut => j[2] \in selected /\ result[j] = "default"
              /\ j[2] \in selected /\ j \notin timedOut => result[j] = "value"
              /\ j[2] \notin selected => result[j] = "default"
        /\ ~Finished(j) =>
              /\ result[j] = "unset" /\ j \notin timedOut
              /\ j # Job \/ main = "next" => worker[j] = "unborn"

\* A thread answers before it ends, and the main thread looks for an answer
\* only of a thread that ended.
AnsweredThenEnded ==
    /\ \A j \in Jobs : worker[j] \in {"ending", "dead"} => queue[j] # "empty"
    /\ main = "get" => worker[Job] = "dead"

\* The snapshots are there until the main thread has ended, so that a torn
\* answer comes too late.
TreesHeld ==
    /\ ~Ended => trees
    /\ \A j \in Jobs : queue[j] = "torn" => ~trees

\* While a job is waited for, its dimension was selected.
WaitingForSelected == main \in {"join", "joined", "get"} => dim \in selected

\* The inductive invariant.
PipeInv ==
    /\ TypeOK
    /\ FieldsInOrder
    /\ AnsweredThenEnded
    /\ TreesHeld
    /\ WaitingForSelected
    /\ StrayThreadsAreReported

-----------------------------------------------------------------------------
\* A job is the pair of its side and its dimension.
LEMMA JobPairs ==
    /\ \A j \in Jobs : j = <<j[1], j[2]>> /\ j[1] \in 1..2 /\ j[2] \in 1..NDims
    /\ TypeOK => Job \in Jobs /\ Job[1] = side /\ Job[2] = dim
  BY DEF Jobs, Job, TypeOK

\* Setting the field of the current job finishes that job and no other.
LEMMA FieldAdvances ==
    ASSUME TypeOK, NEW x, Field(x), ~Ended
    PROVE  /\ \A j \in Jobs : Finished(j)' <=> Finished(j) \/ j = Job
           /\ ~Finished(Job)
           /\ side' \in 1..2 /\ dim' \in 1..NDims
           /\ main' \in {"next", "returned"}
<1> USE PipelineConstants DEF Ended
<1>1. /\ side \in 1..2 /\ dim \in 1..NDims /\ NDims \in Nat
      /\ dim' = IF dim < NDims THEN dim + 1 ELSE 1
      /\ side' = IF dim = NDims /\ side = 1 THEN 2 ELSE side
      /\ main' = IF dim = NDims /\ side = 2 THEN "returned" ELSE "next"
      /\ main # "returned"
  BY DEF TypeOK, Field
<1>2. side' \in 1..2 /\ dim' \in 1..NDims /\ main' \in {"next", "returned"}
  BY <1>1
<1>3. ASSUME NEW j \in Jobs
      PROVE  Finished(j)' <=> Finished(j) \/ j = Job
  <2>1. /\ j[1] \in 1..2 /\ j[2] \in 1..NDims
        /\ j = Job <=> j[1] = side /\ j[2] = dim
    BY JobPairs DEF Job
  <2>2. Finished(j) <=> j[1] < side \/ (j[1] = side /\ j[2] < dim)
    BY <1>1 DEF Finished
  <2>3. CASE dim < NDims
    <3>1. Finished(j)' <=> j[1] < side \/ (j[1] = side /\ j[2] < dim + 1)
      BY <1>1, <2>3 DEF Finished
    <3> QED
      BY <1>1, <2>1, <2>2, <3>1
  <2>4. CASE dim = NDims /\ side = 1
    <3>1. Finished(j)' <=> j[1] < 2 \/ (j[1] = 2 /\ j[2] < 1)
      BY <1>1, <2>4 DEF Finished
    <3> QED
      BY <1>1, <2>1, <2>2, <2>4, <3>1
  <2>5. CASE dim = NDims /\ side = 2
    <3>1. Finished(j)'
      BY <1>1, <2>5 DEF Finished
    <3> QED
      BY <1>1, <2>1, <2>2, <2>5, <3>1
  <2> QED
    BY <1>1, <2>3, <2>4, <2>5
<1>4. ~Finished(Job)
  BY <1>1 DEF Finished, Job
<1> QED
  BY <1>2, <1>3, <1>4

LEMMA PipeInit == Init => PipeInv
<1> SUFFICES ASSUME Init PROVE PipeInv
  OBVIOUS
<1> USE PipelineConstants
<1>1. TypeOK
  BY DEF Init, TypeOK
<1>2. FieldsInOrder
  <2> SUFFICES ASSUME NEW j \in Jobs
               PROVE  /\ ~Finished(j) /\ result[j] = "unset"
                      /\ j \notin timedOut /\ worker[j] = "unborn"
    BY DEF FieldsInOrder
  <2> QED
    BY JobPairs DEF Init, Finished
<1>3. AnsweredThenEnded /\ TreesHeld /\ WaitingForSelected /\ StrayThreadsAreReported
  BY DEF Init, AnsweredThenEnded, TreesHeld, WaitingForSelected, StrayThreadsAreReported
<1> QED
  BY <1>1, <1>2, <1>3 DEF PipeInv

\* The step that sets the field of the current job, from whichever point:
\* the field is final, and no thread that is not reported stays behind.
LEMMA FieldKeeps ==
    ASSUME PipeInv, NEW x, Field(x), ~Ended,
           UNCHANGED <<timeout, selected, worker, queue, trees>>,
           \/ x = "value" /\ dim \in selected /\ timedOut' = timedOut
           \/ x = "default" /\ dim \notin selected /\ timedOut' = timedOut
           \/ x = "default" /\ dim \in selected /\ timedOut' = timedOut \cup {Job},
           worker[Job] \in {"running", "ending"} => timedOut' = timedOut \cup {Job}
    PROVE  PipeInv'
<1> USE DEF PipeInv
<1>1. /\ \A j \in Jobs : Finished(j)' <=> Finished(j) \/ j = Job
      /\ ~Finished(Job)
      /\ side' \in 1..2 /\ dim' \in 1..NDims
      /\ main' \in {"next", "returned"}
  BY FieldAdvances
<1>2. Job \in Jobs /\ Job[2] = dim
  BY JobPairs
<1>3. result' = [result EXCEPT ![Job] = x] /\ result \in [Jobs -> {"unset", "default", "value", "torn"}]
  BY DEF Field, TypeOK
<1>4. TypeOK'
  <2>1. x \in {"unset", "default", "value", "torn"}
    OBVIOUS
  <2>2. result' \in [Jobs -> {"unset", "default", "value", "torn"}]
    BY <1>3, <2>1
  <2>3. timedOut' \in SUBSET Jobs
    BY <1>2 DEF TypeOK
  <2> QED
    BY <1>1, <2>2, <2>3 DEF TypeOK
<1>5. FieldsInOrder'
  <2> SUFFICES ASSUME NEW j \in Jobs
               PROVE  /\ Finished(j)' =>
                           /\ j \in timedOut' => j[2] \in selected /\ result'[j] = "default"
                           /\ j[2] \in selected /\ j \notin timedOut' => result'[j] = "value"
                           /\ j[2] \notin selected => result'[j] = "default"
                      /\ ~Finished(j)' =>
                           /\ result'[j] = "unset" /\ j \notin timedOut'
                           /\ worker[j] = "unborn"
    BY DEF FieldsInOrder
  <2>1. CASE j = Job
    <3>1. Finished(j)' /\ result'[j] = x /\ j[2] = dim /\ j \notin timedOut
      BY <1>1, <1>2, <1>3, <2>1 DEF FieldsInOrder
    <3> QED
      BY <3>1, <2>1
  <2>2. CASE j # Job
    <3>1. (Finished(j)' <=> Finished(j)) /\ result'[j] = result[j]
          /\ (j \in timedOut' <=> j \in timedOut)
      BY <1>1, <1>3, <2>2
    <3> QED
      BY <3>1, <2>2 DEF FieldsInOrder
  <2> QED
    BY <2>1, <2>2
<1>6. AnsweredThenEnded' /\ WaitingForSelected'
  BY <1>1 DEF AnsweredThenEnded, WaitingForSelected
<1>7. TreesHeld'
  BY <1>1 DEF TreesHeld
<1>8. StrayThreadsAreReported'
  <2> SUFFICES ASSUME NEW j \in Jobs, worker[j] \in {"running", "ending"}
               PROVE  j \in timedOut'
    BY DEF StrayThreadsAreReported
  <2> QED
    BY DEF StrayThreadsAreReported
<1> QED
  BY <1>4, <1>5, <1>6, <1>7, <1>8

LEMMA SkipDimensionInv == PipeInv /\ SkipDimension => PipeInv'
<1> SUFFICES ASSUME PipeInv, SkipDimension PROVE PipeInv'
  OBVIOUS
<1>1. ~Ended /\ main = "next" /\ dim \notin selected /\ Field("default") /\ timedOut' = timedOut
      /\ UNCHANGED <<timeout, selected, worker, queue, trees>>
  BY DEF SkipDimension, Ended
<1>2. worker[Job] = "unborn"
  <2>1. ~Finished(Job) /\ Job \in Jobs
    BY <1>1, FieldAdvances, JobPairs DEF PipeInv
  <2> QED
    BY <1>1, <2>1 DEF PipeInv, FieldsInOrder
<1> QED
  BY <1>1, <1>2, FieldKeeps

\* An exception ends the main thread where it is.
LEMMA RaiseKeeps ==
    ASSUME PipeInv, ~Ended, main' = "raised", WaitingForSelected,
           UNCHANGED <<timeout, selected, side, dim, worker, queue, result, timedOut, trees>>,
           worker[Job] \notin {"running", "ending"}
    PROVE  PipeInv'
<1> USE DEF PipeInv
<1>1. TypeOK'
  BY DEF TypeOK
<1>2. \A j \in Jobs : Finished(j)' <=> Finished(j)
  BY DEF Finished, Ended
<1>3. FieldsInOrder'
  BY <1>2 DEF FieldsInOrder, Job
<1>4. AnsweredThenEnded' /\ TreesHeld' /\ WaitingForSelected'
  BY DEF AnsweredThenEnded, TreesHeld, WaitingForSelected, Job, Ended
<1>5. StrayThreadsAreReported'
  BY DEF StrayThreadsAreReported, Job
<1> QED
  BY <1>1, <1>3, <1>4, <1>5

LEMMA ExtractInlineInv == PipeInv /\ ExtractInline => PipeInv'
<1> SUFFICES ASSUME PipeInv, ExtractInline PROVE PipeInv'
  OBVIOUS
<1>1. ~Ended /\ main = "next" /\ dim \in selected /\ timedOut' = timedOut
      /\ UNCHANGED <<timeout, selected, worker, queue, trees>>
  BY DEF ExtractInline, Ended
<1>2. worker[Job] = "unborn"
  <2>1. ~Finished(Job) /\ Job \in Jobs
    BY <1>1, JobPairs DEF PipeInv, Finished, TypeOK
  <2> QED
    BY <1>1, <2>1 DEF PipeInv, FieldsInOrder
<1>3. CASE Field("value")
  BY <1>1, <1>2, <1>3, FieldKeeps
<1>4. CASE main' = "raised" /\ UNCHANGED <<side, dim, result>>
  BY <1>1, <1>2, <1>4, RaiseKeeps DEF PipeInv
<1> QED
  BY <1>3, <1>4 DEF ExtractInline

LEMMA GetResultInv == PipeInv /\ GetResult => PipeInv'
<1> SUFFICES ASSUME PipeInv, GetResult PROVE PipeInv'
  OBVIOUS
<1>1. ~Ended /\ main = "get" /\ timedOut' = timedOut
      /\ UNCHANGED <<timeout, selected, worker, queue, trees>>
  BY DEF GetResult, Ended
<1>2. dim \in selected /\ worker[Job] = "dead" /\ Job \in Jobs
  BY <1>1, JobPairs DEF PipeInv, WaitingForSelected, AnsweredThenEnded
<1>3. queue[Job] # "torn"
  BY <1>1, <1>2 DEF PipeInv, TreesHeld
<1>4. CASE queue[Job] \in {"value", "torn"} /\ Field(queue[Job])
  BY <1>1, <1>2, <1>3, <1>4, FieldKeeps
<1>5. CASE main' = "raised" /\ UNCHANGED <<side, dim, result>>
  BY <1>1, <1>2, <1>5, RaiseKeeps DEF PipeInv
<1> QED
  BY <1>4, <1>5 DEF GetResult

LEMMA IsAliveInv == PipeInv /\ IsAlive => PipeInv'
<1> SUFFICES ASSUME PipeInv, IsAlive PROVE PipeInv'
  OBVIOUS
<1>1. ~Ended /\ main = "joined" /\ UNCHANGED <<timeout, selected, worker, queue, trees>>
  BY DEF IsAlive, Ended
<1>2. dim \in selected /\ Job \in Jobs
  BY <1>1, JobPairs DEF PipeInv, WaitingForSelected
<1>3. CASE worker[Job] # "dead"
  BY <1>1, <1>2, <1>3, FieldKeeps DEF IsAlive
<1>4. CASE worker[Job] = "dead"
  <2> USE DEF PipeInv
  <2>1. main' = "get" /\ UNCHANGED <<side, dim, result, timedOut>> /\ Job' = Job
    BY <1>4 DEF IsAlive, Job
  <2>2. TypeOK'
    BY <1>1, <2>1 DEF TypeOK
  <2>3. \A j \in Jobs : Finished(j)' <=> Finished(j)
    BY <1>1, <2>1 DEF Finished
  <2>4. FieldsInOrder'
    BY <1>1, <2>1, <2>3 DEF FieldsInOrder
  <2>5. AnsweredThenEnded' /\ TreesHeld' /\ WaitingForSelected'
    BY <1>1, <1>2, <1>4, <2>1 DEF AnsweredThenEnded, TreesHeld, WaitingForSelected, Ended
  <2>6. StrayThreadsAreReported'
    BY <1>1, <1>4, <2>1 DEF StrayThreadsAreReported
  <2> QED
    BY <2>2, <2>4, <2>5, <2>6
<1> QED
  BY <1>3, <1>4

LEMMA StartWorkerInv == PipeInv /\ StartWorker => PipeInv'
<1> SUFFICES ASSUME PipeInv, StartWorker PROVE PipeInv'
  OBVIOUS
<1> USE DEF PipeInv
<1>1. /\ main = "next" /\ main' = "join" /\ dim \in selected /\ Job' = Job
      /\ worker' = [worker EXCEPT ![Job] = "running"]
      /\ UNCHANGED <<timeout, selected, side, dim, queue, result, timedOut, trees>>
  BY DEF StartWorker, Job
<1>2. Job \in Jobs /\ worker \in [Jobs -> {"unborn", "running", "ending", "dead"}]
  BY JobPairs DEF TypeOK
<1>3. TypeOK'
  BY <1>1, <1>2 DEF TypeOK
<1>4. \A j \in Jobs : Finished(j)' <=> Finished(j)
  BY <1>1 DEF Finished
<1>5. FieldsInOrder'
  BY <1>1, <1>2, <1>4 DEF FieldsInOrder
<1>6. AnsweredThenEnded' /\ TreesHeld' /\ WaitingForSelected'
  BY <1>1, <1>2 DEF AnsweredThenEnded, TreesHeld, WaitingForSelected, Ended
<1>7. StrayThreadsAreReported'
  BY <1>1, <1>2 DEF StrayThreadsAreReported
<1> QED
  BY <1>3, <1>5, <1>6, <1>7

\* What a thread does to its own state and queue disturbs no field.
LEMMA WorkerKeeps ==
    ASSUME PipeInv, NEW j \in Jobs, NEW w \in {"ending", "dead"},
           worker[j] \in {"running", "ending"},
           worker' = [worker EXCEPT ![j] = w],
           UNCHANGED <<timeout, selected, side, dim, main, result, timedOut, trees>>,
           \/ queue' = queue /\ worker[j] = "ending"
           \/ \E a \in {"value", "torn", "error"} :
                 queue' = [queue EXCEPT ![j] = a] /\ (a = "torn" => ~trees)
    PROVE  PipeInv'
<1> USE DEF PipeInv
<1>1. /\ worker \in [Jobs -> {"unborn", "running", "ending", "dead"}]
      /\ queue \in [Jobs -> {"empty", "value", "torn", "error"}]
      /\ Job' = Job /\ Job \in Jobs
  BY JobPairs DEF TypeOK, Job
<1>2. TypeOK'
  BY <1>1 DEF TypeOK
<1>3. \A i \in Jobs : Finished(i)' <=> Finished(i)
  BY DEF Finished
<1>4. FieldsInOrder'
  BY <1>1, <1>3 DEF FieldsInOrder
<1>5. AnsweredThenEnded'
  BY <1>1 DEF AnsweredThenEnded
<1>6. TreesHeld' /\ WaitingForSelected'
  BY <1>1 DEF TreesHeld, WaitingForSelected, Ended
<1>7. StrayThreadsAreReported'
  BY <1>1 DEF StrayThreadsAreReported
<1> QED
  BY <1>2, <1>4, <1>5, <1>6, <1>7

LEMMA WorkerInv ==
    ASSUME PipeInv, NEW j \in Jobs, WorkerAnswers(j) \/ WorkerEnds(j)
    PROVE  PipeInv'
<1>1. CASE WorkerAnswers(j)
  BY <1>1, WorkerKeeps DEF WorkerAnswers, Answer
<1>2. CASE WorkerEnds(j)
  BY <1>2, WorkerKeeps DEF WorkerEnds
<1> QED
  BY <1>1, <1>2

\* Join, the removal of the snapshots and stuttering change no field.
LEMMA OtherInv == PipeInv /\ (Join \/ RemoveTrees \/ UNCHANGED vars) => PipeInv'
<1> SUFFICES ASSUME PipeInv, Join \/ RemoveTrees \/ UNCHANGED vars PROVE PipeInv'
  OBVIOUS
<1> USE DEF PipeInv
<1>1. /\ UNCHANGED <<timeout, selected, side, dim, worker, queue, result, timedOut>>
      /\ Job' = Job
      /\ main' = main \/ (main = "join" /\ main' = "joined")
      /\ trees' = trees \/ (Ended /\ main' = main /\ trees' = FALSE)
  BY DEF Join, RemoveTrees, vars, Job
<1>2. TypeOK'
  BY <1>1 DEF TypeOK
<1>3. \A j \in Jobs : Finished(j)' <=> Finished(j)
  BY <1>1 DEF Finished
<1>4. FieldsInOrder'
  BY <1>1, <1>3 DEF FieldsInOrder
<1>5. AnsweredThenEnded' /\ WaitingForSelected' /\ StrayThreadsAreReported'
  BY <1>1 DEF AnsweredThenEnded, WaitingForSelected, StrayThreadsAreReported
<1>6. TreesHeld'
  BY <1>1 DEF TreesHeld, Ended
<1> QED
  BY <1>2, <1>4, <1>5, <1>6

LEMMA PipeNext == PipeInv /\ [Next]_vars => PipeInv'
  BY SkipDimensionInv, ExtractInlineInv, GetResultInv, IsAliveInv, StartWorkerInv,
     WorkerInv, OtherInv DEF Next, Main, Exit

LEMMA PipeSafe == Spec => []PipeInv
  BY PipeInit, PipeNext, PTL DEF Spec

\* The threads and the main thread of an extraction keep their types.
THEOREM PipelineTypes == Spec => []TypeOK
<1>1. PipeInv => TypeOK
  BY DEF PipeInv
<1> QED
  BY <1>1, PipeSafe, PTL

\* get_nowait never raises queue.Empty: the thread that is_alive() found dead
\* had answered.
THEOREM AnswerIsThere == Spec => []GetNeverEmpty
<1>1. PipeInv => GetNeverEmpty
  BY JobPairs DEF PipeInv, AnsweredThenEnded, GetNeverEmpty
<1> QED
  BY <1>1, PipeSafe, PTL

\* For any number of dimensions and any timeouts, the two states that are
\* returned hold a value in every selected field that is not reported as
\* timed out, and a default in every other.
THEOREM StatesComplete == Spec => []CompleteOrReported
<1>1. PipeInv => CompleteOrReported
  BY DEF PipeInv, FieldsInOrder, Finished, CompleteOrReported
<1> QED
  BY <1>1, PipeSafe, PTL

\* A thread that runs beside the one being waited for belongs to a dimension
\* that was reported.
THEOREM StraysReported == Spec => []StrayThreadsAreReported
<1>1. PipeInv => StrayThreadsAreReported
  BY DEF PipeInv
<1> QED
  BY <1>1, PipeSafe, PTL

\* A field once set is never set again, by the main thread or by a late one.
THEOREM LateAnswersChangeNothing == Spec => FieldsAreFinal
<1> DEFINE Final == \A j \in Jobs : result[j] # "unset" => result'[j] = result[j]
<1>1. ASSUME PipeInv, [Next]_vars PROVE Final
  <2>1. CASE result' = result
    BY <2>1
  <2>2. ASSUME NEW x, Field(x), ~Ended PROVE Final
    <3>1. Job \in Jobs /\ ~Finished(Job)
      BY <1>1, <2>2, FieldAdvances, JobPairs DEF PipeInv
    <3>2. result[Job] = "unset"
      BY <1>1, <3>1 DEF PipeInv, FieldsInOrder
    <3>3. result' = [result EXCEPT ![Job] = x] /\ result \in [Jobs -> {"unset", "default", "value", "torn"}]
      BY <1>1, <2>2 DEF Field, PipeInv, TypeOK
    <3> QED
      BY <3>2, <3>3
  <2>3. result' = result \/ (~Ended /\ \E x : Field(x))
    BY <1>1 DEF Next, Main, SkipDimension, ExtractInline, StartWorker, Join, IsAlive, GetResult,
                RemoveTrees, WorkerAnswers, WorkerEnds, Exit, Ended, vars
  <2> QED
    BY <2>1, <2>2, <2>3
<1>2. PipeInv /\ [Next]_vars => [Final]_vars
  BY <1>1
<1> QED
  BY <1>2, PipeSafe, PTL DEF Spec, FieldsAreFinal

=============================================================================
