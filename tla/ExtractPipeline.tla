--------------------------- MODULE ExtractPipeline ---------------------------
(***************************************************************************)
(* The extraction of both sides of one check run                           *)
(* (pipeline/python_code_state.py, called from run_check): the main thread *)
(* assembles one CodeState per side, dimension by dimension, and with an   *)
(* extractor timeout runs each dimension in a daemon thread it may stop    *)
(* waiting for.  The threads it gave up on read on while later dimensions  *)
(* are extracted and the snapshots are removed.                            *)
(***************************************************************************)
EXTENDS Naturals, FiniteSets

CONSTANTS
    NDims,      \* number of dimensions, extracted in the order 1..NDims
    Smoke       \* the dimensions of smoke mode

ASSUME PipelineConstants ==
    /\ NDims \in Nat \ {0}
    /\ Smoke \subseteq 1..NDims

VARIABLES
    timeout,    \* --extractor-timeout was given
    selected,   \* the dimensions to extract
    side,       \* 1 for the baseline, 2 for the candidate
    dim,        \* the dimension being extracted
    main,       \* where the main thread is
    worker,     \* worker[j]: the thread of job j
    queue,      \* queue[j]: what its result_queue holds
    result,     \* result[j]: what the CodeState field was set to
    timedOut,   \* the jobs reported as timed out
    trees       \* the snapshots are still on disk

vars == <<timeout, selected, side, dim, main, worker, queue, result, timedOut, trees>>

-----------------------------------------------------------------------------
Jobs == (1..2) \X (1..NDims)
Job == <<side, dim>>
Ended == main \in {"returned", "raised"}

Init ==
    /\ timeout \in BOOLEAN
    /\ selected \in {1..NDims, Smoke}
    /\ side = 1 /\ dim = 1
    /\ main = "next"
    /\ worker = [j \in Jobs |-> "unborn"]
    /\ queue = [j \in Jobs |-> "empty"]
    /\ result = [j \in Jobs |-> "unset"]
    /\ timedOut = {}
    /\ trees = TRUE

\* Mutant: the loop runs one dimension too far.
FieldTooFar(x) ==
    /\ result' = [result EXCEPT ![Job] = x]
    /\ dim' = IF dim <= NDims THEN dim + 1 ELSE 1
    /\ side' = IF dim = NDims /\ side = 1 THEN 2 ELSE side
    /\ main' = IF dim = NDims /\ side = 2 THEN "returned" ELSE "next"

\* extract_dimension returns: the next field, the next side, or the end.
Field(x) ==
    /\ result' = [result EXCEPT ![Job] = x]
    /\ dim' = IF dim < NDims THEN dim + 1 ELSE 1
    /\ side' = IF dim = NDims /\ side = 1 THEN 2 ELSE side
    /\ main' = IF dim = NDims /\ side = 2 THEN "returned" ELSE "next"

\* _should_extract
SkipDimension ==
    /\ main = "next"
    /\ dim \notin selected
    /\ Field("default")
    /\ UNCHANGED <<timeout, selected, worker, queue, timedOut, trees>>

\* Without a timeout the extractor runs on the main thread, and any exception
\* becomes an ExtractorError that ends the run.
ExtractInline ==
    /\ main = "next"
    /\ dim \in selected
    /\ ~timeout
    /\ \/ Field("value")
       \/ main' = "raised" /\ UNCHANGED <<side, dim, result>>
    /\ UNCHANGED <<timeout, selected, worker, queue, timedOut, trees>>

StartWorker ==
    /\ main = "next"
    /\ dim \in selected
    /\ timeout
    /\ worker' = [worker EXCEPT ![Job] = "running"]
    /\ main' = "join"
    /\ UNCHANGED <<timeout, selected, side, dim, queue, result, timedOut, trees>>

\* Mutant: a failing extractor ends its thread without an answer.
AnswerValueOnly(j) ==
    \/ trees /\ queue' = [queue EXCEPT ![j] = "value"]
    \/ UNCHANGED queue

\* run_action puts the value, or the exception.  Over removed snapshots the
\* per-file extractors fail and a directory walk may see only part.
Answer(j) ==
    \/ trees /\ queue' = [queue EXCEPT ![j] = "value"]
    \/ ~trees /\ queue' = [queue EXCEPT ![j] = "torn"]
    \/ queue' = [queue EXCEPT ![j] = "error"]

\* Mutant: the thread stores its value in the state by itself.
WorkerAnswersInPlace(j) ==
    /\ worker[j] = "running"
    /\ Answer(j)
    /\ worker' = [worker EXCEPT ![j] = "ending"]
    /\ result' = [result EXCEPT ![j] = "value"]
    /\ UNCHANGED <<timeout, selected, side, dim, main, timedOut, trees>>

WorkerAnswers(j) ==
    /\ worker[j] = "running"
    /\ Answer(j)
    /\ worker' = [worker EXCEPT ![j] = "ending"]
    /\ UNCHANGED <<timeout, selected, side, dim, main, result, timedOut, trees>>

\* The thread is alive until it has ended, even after it answered.
WorkerEnds(j) ==
    /\ worker[j] = "ending"
    /\ worker' = [worker EXCEPT ![j] = "dead"]
    /\ UNCHANGED <<timeout, selected, side, dim, main, queue, result, timedOut, trees>>

\* Mutant: join without a timeout.
JoinForever ==
    /\ main = "join"
    /\ worker[Job] = "dead"
    /\ main' = "joined"
    /\ UNCHANGED <<timeout, selected, side, dim, worker, queue, result, timedOut, trees>>

\* worker.join(timeout=...) returns when the thread has ended or time is up.
Join ==
    /\ main = "join"
    /\ main' = "joined"
    /\ UNCHANGED <<timeout, selected, side, dim, worker, queue, result, timedOut, trees>>

\* Mutant: a timed-out dimension is defaulted but not reported.
IsAliveSilent ==
    /\ main = "joined"
    /\ IF worker[Job] # "dead"
       THEN Field("default")
       ELSE main' = "get" /\ UNCHANGED <<side, dim, result>>
    /\ UNCHANGED <<timeout, selected, worker, queue, timedOut, trees>>

\* worker.is_alive(), a moment after join returned.
IsAlive ==
    /\ main = "joined"
    /\ IF worker[Job] # "dead"
       THEN Field("default") /\ timedOut' = timedOut \cup {Job}
       ELSE main' = "get" /\ UNCHANGED <<side, dim, result, timedOut>>
    /\ UNCHANGED <<timeout, selected, worker, queue, trees>>

\* result_queue.get_nowait()
GetResult ==
    /\ main = "get"
    /\ \/ queue[Job] \in {"value", "torn"} /\ Field(queue[Job])
       \/ /\ queue[Job] \in {"error", "empty"}
          /\ main' = "raised"
          /\ UNCHANGED <<side, dim, result>>
    /\ UNCHANGED <<timeout, selected, worker, queue, timedOut, trees>>

\* Mutant: the snapshots go as soon as the baseline is assembled.
RemoveTreesEarly ==
    /\ Ended \/ side = 2
    /\ trees
    /\ trees' = FALSE
    /\ UNCHANGED <<timeout, selected, side, dim, main, worker, queue, result, timedOut>>

\* The with block of run_check is left; threads may still be reading.
RemoveTrees ==
    /\ Ended
    /\ trees
    /\ trees' = FALSE
    /\ UNCHANGED <<timeout, selected, side, dim, main, worker, queue, result, timedOut>>

\* The process ends and takes its daemon threads with it.
Exit == Ended /\ ~trees /\ UNCHANGED vars

Main == SkipDimension \/ StartWorker \/ Join \/ IsAlive \/ GetResult \/ RemoveTrees

Next ==
    \/ Main
    \/ ExtractInline
    \/ \E j \in Jobs : WorkerAnswers(j) \/ WorkerEnds(j)
    \/ Exit

Spec == Init /\ [][Next]_vars

\* The main thread is scheduled and time passes.  Nothing is assumed of the
\* extractors: inline or in a thread, they may never return.
Fairness == WF_vars(Main)

FairSpec == Spec /\ Fairness

-----------------------------------------------------------------------------
(* Properties                                                              *)

\* Types; a thread exists only for a job that was started.
TypeOK ==
    /\ timeout \in BOOLEAN /\ selected \in SUBSET (1..NDims)
    /\ side \in 1..2 /\ dim \in 1..NDims
    /\ main \in {"next", "join", "joined", "get", "returned", "raised"}
    /\ worker \in [Jobs -> {"unborn", "running", "ending", "dead"}]
    /\ queue \in [Jobs -> {"empty", "value", "torn", "error"}]
    /\ result \in [Jobs -> {"unset", "default", "value", "torn"}]
    /\ timedOut \in SUBSET Jobs /\ trees \in BOOLEAN

\* get_nowait never finds the queue empty, so queue.Empty never escapes as an
\* internal error: a thread that is no longer alive has answered.
GetNeverEmpty == main = "get" => queue[Job] # "empty"

\* When both states are returned, every selected dimension has its value or
\* is reported as timed out and holds the default, never both; what was not
\* selected is neither; and nothing was read from a removed snapshot.
CompleteOrReported ==
    main = "returned" =>
        \A j \in Jobs :
            /\ j \in timedOut => j[2] \in selected /\ result[j] = "default"
            /\ j[2] \in selected /\ j \notin timedOut => result[j] = "value"
            /\ j[2] \notin selected => result[j] = "default"

\* An answer that comes after the main thread stopped waiting never changes
\* a field.
FieldsAreFinal ==
    [][\A j \in Jobs : result[j] # "unset" => result'[j] = result[j]]_vars

\* Threads alive beside the one being waited for are those of reported
\* dimensions: at most one per timeout.
StrayThreadsAreReported ==
    \A j \in Jobs : worker[j] \in {"running", "ending"}
        => j \in timedOut \/ (j = Job /\ main \in {"join", "joined"})

\* With an extractor timeout the run ends, whatever the extractors do.
TimeoutEnds == timeout ~> Ended /\ ~trees

=============================================================================
