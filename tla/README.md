# Semantic CI: a TLA+ verification project

`semantic-ci` extracts a *CodeState* (public API, effects, imports,
complexity, tests, module graph) from two versions of a Python package,
computes a delta, and judges compiled constraints against it. This directory
models the parts of it where state, order and failure matter, model-checks
them with TLC and proves some of the results with TLAPS. Source paths below
are relative to `src/src/semantic_ci_code/`.

## 1. The system

| Component | State | Operations | Hard because |
|---|---|---|---|
| CodeState cache (`cli/code_state_cache.py`) | files `code_state/<key>.json` and `.json.tmp`, shared by all processes, no lock | lookup, write + rename, cleanup, eviction to a byte budget | processes interleave at system calls; crashes; one tmp name per key |
| `check` command (`cli/commands/check.py`, `cli/git_runtime.py`, `cli/worktree.py`, `cli/staged_index.py`) | refs, worktrees, temporary directories, exit stack | resolve refs, materialise two snapshots, extract or look up, unwind, judge, exit | refs and files change meanwhile; every step may raise |
| Extraction pipeline (`pipeline/python_code_state.py`) | the CodeState under construction, one queue and daemon thread per dimension | extract six dimensions, with an optional timeout each | threads outlive the wait for them |
| Target compiler (`compiler/`, `framework/match_schema.py`) | none | static checks of a constraint | three checks must together cover the evaluator |
| Delta (`delta/`) | none | `compute_code_state_delta` | empty defaults look like "nothing there" |
| Evaluator (`evaluator/`) | list of results, short-circuit flag | judge each constraint, aggregate | partial data, skipped constraints |
| Suite verdict (`suite/`) | none | combine code and security verdicts, map to exit codes | several error classes share one exit code |
| Repair plan and output (`repair/`, `repair_compiler/`, `cli/output*`) | the written payload | emit a plan, render four formats, read a payload back, risk summary | the same results are read by several functions |
| Semantic Security Protocol (`ssp/`, `cli/commands/ssp.py`) | none; scanners, rulesets and databases outside | `ssp scan`: hash, run, read, fingerprint, delta | scanners fail in part; what they read changes |
| Dependency sources (`ssp/adapters/dependency_sources.py`) | worklist, processed edges, closures | choose the file, close over the edges of a lock, pin | cycles, extras, set order |
| Sensors (`sensor/`, `suite/security.py`) | recorded SensorState files, suppressions and mutes with dates | delta by canonical id, policy, ensemble, reprojection | one-sided, failed or drifted inputs; expiry |
| Authoring layer (`authoring/`) | none | advisories on a target before any run | foretells what the evaluator will say without running it |
| Extractors | none | walks of syntax trees | see section 7 |

`run_check` calls `git` to make one snapshot per side, then per side either
looks the CodeState up in the cache or runs the pipeline and writes the cache;
then the delta, the evaluator and the suite decide the exit code. Concurrent
runs share the repository and the cache directory and nothing else. A CI job
may run `ssp scan` before, on both trees; the recorded results go into `check`
as SensorState files, whose delta is judged by the target's policy and joined
with the verdict on the code. The JSON report of `check` is the input of
`compile-repair`.

What makes the parts correct:

* cache: a lookup returns what extraction would; entries come to rest complete;
  no temporary file stays; the size stays near the budget; a lookup returns;
* check: cache entries are exact, the report names what was judged, nothing is
  left in the repository, exit 0 means a pass;
* pipeline: a field is a value or a reported default, late answers change
  nothing, a timeout bounds the run;
* evaluator: an empty default never decides a constraint, skipping never
  changes the verdict, allow rules only relax, what compiles is never an
  authoring error;
* repair and output: plan, formats and verdict name the same blockers, each
  result is counted once, `validate-plan` hides no violation;
* authoring: the advisories foretell the verdict, and following the advice to
  remove a duplicate changes none;
* lock scan: the pins are those reachability defines, whatever the order;
* security: a complete scan is whole, the delta adds exactly the growth, both
  delta engines agree, exit 0 leaves nothing new unexplained, a failure is
  visible, no advisory finding is lost, and time only makes the gate stricter.

## 2. Modules

| Module | Models |
|---|---|
| `CodeStateCache` | the cache, at system-call granularity |
| `CodeStateCacheProofs` | TLAPS: types; the cache is transparent; at rest its entries are whole, no temporary file is left, the statistics agree and the budget is kept |
| `Constraints` | one constraint: compiler checks, delta, resolution, operators, judgement (operators only, no state) |
| `ConstraintEvaluator` | the loops of `evaluate_constraints` and `_aggregate` |
| `ConstraintEvaluatorProofs` | TLAPS: types; the short circuit is sound; what may decide a result; the advisories come true |
| `CheckRun` | `run_check`, composed with the environment that changes the repository |
| `CheckRunProofs` | TLAPS: types, exact cache, faithful report, no residue, honest exit codes |
| `ExtractPipeline` | main thread and workers of the extraction of both sides |
| `ExtractPipelineProofs` | TLAPS: types; fields are complete or reported, and final |
| `AuthoringHazards` | the advisories of target-doctor that foretell a verdict, beside the evaluator that gives it |
| `RepairFlow` | repair plan, payload, formats, `compile-repair`, `validate-plan`; extends `ConstraintEvaluator` |
| `RepairFlowProofs` | TLAPS: plan, summary, formats and risk summary say what the verdict says |
| `LockFile` | what a scan directory and a lock hold: file choice, markers, edges, pins (operators only) |
| `DependencySources` | the two closures over a lock and the pins |
| `PinnedDependencies` | abstract: one step from a directory to its answer |
| `DependencySourcesProofs` | TLAPS: types; `DependencySources` implements `PinnedDependencies` |
| `SensorScan` | scanner output, coverage, ordinals, SSP delta (operators only) |
| `SensorScanProofs` | TLAPS: lemmas on sorted matches, ordinals and deltas |
| `AdvisoryScout` | scout payloads, ensemble, reprojection, mutes (operators only) |
| `SecurityGate` | `ssp scan`, the sensor files, the policy and the gate, composed with an environment that changes |
| `SecurityGateProofs` | TLAPS: types; scans, delta engines, SARIF, exit 0, advisory items, later days |
| `MC*` | constants of the TLC runs: command lines, plans, comparisons |

### CodeStateCache

Files are inodes with `Chunks` cells each; `json[k]` and `tmp[k]` are the two
names of key `k`. A reader tests for the name (`StartLookup`), opens the
inode (`OpenRead`), reads cell by cell (`ReadChunk`) and validates (`Parse`).
A writer opens the tmp name with truncation (`OpenTmp`), writes cell by cell
through its own descriptor (`WriteChunk`), renames (`Replace`), scans and
evicts (`Scan`, `EvictStep`, `EvictDone`). Every `OSError` is `ReadFails`,
`WriteFails` or `EvictFails`; `Cleanup` is the handler's unlink, which may fail as well
(`CleanupFails`). `Crash`,
`Restart`, `Corrupt` and `HourPasses` are the environment. A CodeState is
abstracted to the key it was extracted for, a file to its cells: a text is
valid when every cell is the text of one CodeState, so a mix of two writers'
identical texts is valid and a text with a gap is not. The directory walk of
one eviction is one step; its result may be stale afterwards. The records it
returns are a function from paths to modification time (the place in `order`)
and size; the loop takes the path with the least time first, which is the order
of the sorted list, and the sum of the sizes is the number of their chunks
(`Blocks`).

### Constraints and ConstraintEvaluator

A dimension is a set of `Items`; `Hidden` ones are not public. Targets are
one representative of each kind of path (every dimension, alias, open region,
nullable field, and two invalid paths). A comparison `w` holds the full
content of both sides and which dimensions were skipped (smoke mode) or timed
out on which side, so that a judgement on partial data can be compared with
the one on complete data. `EvaluateConstraint` follows `_evaluate_constraint`
branch by branch. Left out: tolerances, partial-record matching (items match
by identity), zero-record locks such as `effect_changes: {added: [],
removed: []}`, and the cause `evaluator_internal` (a `TypeError` inside an
operator). A mapping, as the details of `python_specific` are, counts as the
collection of its pairs, and its items stand for them.

### AuthoringHazards

Operators on the `plan` of `ConstraintEvaluator`, one per detector:
`DetectD4` (a target of locks passes vacuously), `DetectP1` and `DetectP2`
(nothing asserts an addition), `DetectD7` (a lock on cyclomatic complexity
rejects an extracted helper), `DetectS1` (an info constraint that counts when
unknown), `DetectD3` (a user constraint equal to a template one). Their
properties compare the advice with the verdict the loops arrive at. An entry
of the complexity dimension is a function with a `Cyclomatic` complexity. D7
counts functions (`NetAdded`), the evaluator compares the sums of complexities
(`SumComplexity`): the two agree when functions are added and the number of
branches stays (`BranchesPreserved`), the extraction D7 has in mind, and only
then does `VerdictAsAdvised` speak of D7. A diff that adds functions and removes
branches can be warned of and pass; `detect_d7` calls its growth a heuristic.

### CheckRun

One action per step of `run_check`: `Validate`, `ResolveRefs`, `ResolveSha`
(once per side), `LoadTarget`, `EnterSource` (once per side), `BadPackage`,
`ExtractUncached` or `Lookup`/`Compute`/`Store` (once per side), `Unwind`,
`Numstat`, `Judge`, `Exit`. `Raise` records the exit code of the except clause
and unwinds. `MoveRef`, `Edit` and `Evict` are other programs; `Crash` and
`UnwindFails` are bounded by `MaxFaults`; a git command may fail at every step
that runs one. A commit stands for its tree and a
CodeState for the tree it was extracted from. The cache is one atomic map:
`CodeStateCache` justifies this by `Transparent`. `stable` is a history
variable: no ref has changed under a run that had already resolved it.

### ExtractPipeline

`main` is the program counter of the main thread, one worker and one queue per
job (side, dimension). `Join` may return at any time, since time may be up;
`IsAlive` is a separate step, and a worker is alive until `WorkerEnds`, after
it has answered. `RemoveTrees` is the end of the `with` block.

### RepairFlow

The loops of `ConstraintEvaluator` run as `Judge`; before them `RejectTarget`
is a `CompileError`, and after them `Report` is the end of `check` and
`compare` (plan, payload, format, write, exit code), `ValidatePlan` that of
`validate-plan`, and `CompileRepair` a later command on the written JSON, on
its plan alone, on a report of an older schema or on other input. An
instruction is its constraint, status, category and code, kept under the
number of its constraint; `shown` is the set of what an output says of each
constraint, its order left out. Only `check` can have partial comparisons, and
`validate-plan` compares the baseline with itself (`Fits`).

### LockFile, DependencySources and PinnedDependencies

Names and extras are normalised already. A marker is a junction of
comparisons; versions are the tuples the code compares, other texts their
rank. `stack` counts the copies of an edge on the worklist, because Python
fills the list from sets and its order is arbitrary; `Pop` takes any of them
and is one turn of the loop with everything it pushes, `PopRaises` a turn that
meets a bad marker. `DefaultClosed` and `OthersClosed` end the two closures of
`_excluded_lock_package_names`. `Promise` defines the answer without a
worklist: an edge is reachable when it is in every set that holds the roots
and is closed under `Successors`. The refinement maps `pc` and `pins` to the
answer.

### SensorScan, AdvisoryScout and SecurityGate

A SAST group stands for rule, file, qualified name and text, an SCA group for
package, version and advisory; digests are taken to be injective. A scan has
two steps, `BeginScan` (hash of the ruleset, version of the tool) and
`RunScan`, between which `EnvironmentChanges` may replace ruleset, database or
tool. An outcome is one of the ways the adapter distinguishes: ok, program
missing, crash, no JSON, reported errors, no list of scanned files, a file
left out, a malformed match, another `OSError`, and so on; `ExitOfRaise` are
those that leave the adapter as an exception. Both adapters read a payload
without the expected list as one without findings (`nolist`), and Semgrep's
drops the results that are no mappings (`unmapped`, which stands as well for a
file whose errors are not reported in a list); the scan is complete all the
same. `used` records what the scanner really read, or -1 when the adapter did
not see all of it; no code sees it, and the properties that say a scan is whole
speak of the scans with `used > 0`. `SspReport` is the envelope, its output,
which may fail to be written, and the exit code.
`Check` is `run_check` from the sensor flags on with a given verdict on the
code, `NextDay` lets it run again on the same files. Paths keep their parts,
since `_source_paths` decides by prefix.

## 3. Runs

| Run | Bounds | Result |
|---|---|---|
| `cache_race` | 2 processes, 3 keys, 2 chunks, budget 2, no fault | `TypeOK`, `Transparent`, `NoTornAtRest`, `NoTmpAtRest`, `StatsAgree`, `OvershootBounded` hold |
| `cache_live` | 2 processes, 1 key, budget 1, 1 fault, fair | `LookupReturns`, `TornEntryHeals` hold |
| `eval_outcomes` | every compiled constraint over 18 targets, alone or behind a lock or a template, every comparison of 2 items in one dimension, and of 3 functions of complexity 1, 2 and 3 | `NoJudgementFromDefaults`, `CompiledNeverAuthoring`, `AllowRulesOnlyRelax`, `VerdictAsAdvised`, `DuplicateIsRedundant` hold |
| `eval_authguard` | locks on removed decorators | violates `TimedOutMeansUnknown` |
| `eval_coverage` | constraints on `coverage` | violates `CompiledNeverAuthoring` |
| `check_run` | 1 process at a time, 5 command lines, 3 clones, 2 changes, 1 fault | `TypeOK`, `CacheExact`, `ReportNamesWhatWasJudged`, `NoResidue`, `ExitZeroMeansPassed` hold |
| `check_rev` | 2 processes, 1 change | violates `RevIsJudged` |
| `check_nodrift` | 1 process, 1 change | violates `NoDriftByConstruction` |
| `pipeline` | 3 dimensions, 2 of them smoke, fair | `TypeOK`, `GetNeverEmpty`, `CompleteOrReported`, `StrayThreadsAreReported`, `FieldsAreFinal`, `TimeoutEnds` hold |
| `lock` | application and 2 packages, 1 extra, 2 variants, every combination of the listed edges, fair | `ClosureIsReachability` (the refinement), `ScanReturns` hold |
| `repair_flow` | 2 user constraints out of 15 kinds and at most one template, 12 command lines | `TypeOK`, `VerdictIsFull`, `PlanExplainsVerdict`, `ReportsNameBlockers`, `RiskSummaryComplete`, `SummaryCountsEachResult` hold |
| `security` | 3 groups per scanner, up to 3 matches per tree, 1 change, 1 fault, 2 days, 2 scouts | `TypeOK`, `CompleteScanIsWhole`, `SspAddsTheGrowth`, `ExitZeroMeansNothingNew`, `SspAndGateAgree`, `SarifShowsFailure`, `AdvisoryAccounted`, `LaterNeverMoreLenient` hold |

Why these bounds are enough. Cache: conflicts are between two writers of a
key, a writer and a reader, or either and an evictor; two chunks tell torn
from complete, and three keys with a budget of one entry make eviction of a
foreign entry, of a fresh one and of one's own possible. Keys and processes
are symmetric; the content of unreferenced inodes is left out of the view
because `OpenTmp` truncates before use. Evaluator: constraints do not interact
except through the short circuit and the aggregation, for which up to three
positions suffice (before, at and after a lock; `repair_flow` has them); two
items distinguish subset, superset, overlap and visibility. Check: one process runs again and
again and so meets its own cache, and other runs act on it only through refs,
files and cache, which `MoveRef`, `Edit` and `Evict` change; two changes let a
ref move and move back. Pipeline: three dimensions give a first, a middle and
a last one, smoke and not. Lock: two packages can depend on each other and on
themselves through the application's edges, one extra is asked for and not, and
one, none or both variants of a package apply; the theorem covers the rest.
Security: two equal matches and a third group tell a shift from growth, a
directory named like the target lies below it, and one change or fault can fall
before, between or after the scans of a sensor. With two days a suppression or
mute counts on both, on the first or on none. `MaxChanges`, `MaxFaults`,
`Chunks`, `NDims`, `Days`, `Procs`, `Keys` and `Inodes` are the only bounds.

Fairness. `CodeStateCache!Fairness` is weak fairness of each process's own
steps: no step waits for another process, so the operating system's scheduler
is enough; starting a lookup and faults are never forced.
`ExtractPipeline!Fairness` is weak fairness of the main thread without
`ExtractInline`: extractors may never return, only `join` with a timeout is
assumed to. `DependencySources!FairSpec` is weak fairness of its one thread,
which waits for nothing.

## 4. What the violation runs show

* `check_rev`: the commit SHA in the report is resolved once, the snapshot, the
  cache key and numstat each resolve the name again. If the ref moves, the
  report names another commit than the one judged, and a CodeState can be
  stored under another tree's key, where later runs find it. With immutable
  refs the opposite holds (`ReportNamesWhatWasJudged`, `CacheExact`).
* `check_nodrift`: "no drift by construction" is false when a file is edited or
  staged between the reading of the two sides.
* `eval_authguard`: a lock on `decorators_delta` is judged from the empty
  default when `api_surface` timed out, because `_dimension_for_target` does
  not know the target; so is a bare `python_specific`.
* `eval_coverage`: a collection operator on `coverage` compiles, but the field
  is always `None` and the authoring cause fails the run.

`eval_outcomes` leaves the three targets of the last two points out and shows that they are the
only exceptions among the representatives.

## 5. Proofs

Every theorem is `Spec => []P` (or an action property, or the refinement) for
all values of the constants; the assumptions on constants are those named in
the modules (`CacheConstants`, `FiniteSystem`, `PlanTypes`, `WorldTypes`, `HiddenItems`, `CyclomaticTypes`,
`RequestTypes`, `CheckConstants`, `PipelineConstants`, `NoNameIsNoPackage`,
`DirectoryTypes`, `ScanConstants`, `GateConstants`), which say what the values
are and that sets are finite, and which TLC evaluates in the runs.

**Cache.** `CacheTransparent`. `Transparent` is not inductive: a reader's
answer comes from cells that other processes wrote. The invariant adds what
every cell reachable from key `k` can hold: a gap, damage, or `k` itself; that
a process with an open descriptor holds an inode of its own key; that an inode
is never shared by two keys; and what each program point has in hand. The
reuse of inodes makes the descriptor part necessary.
`EntriesComeToRestWhole`, `NoTmpSurvives` and `StatsAddUp` add `RestInv`:
without a fault each cell of a named file is complete or still ahead of a
writer that has the file open (`CellsSettle`), a tmp name has a writer that
will rename or unlink it (`TmpHasWriter`), and what a lookup has counted at
each point (`Tallied`). `CellsSettle` survives a second writer's truncation
because that writer then starts at the first cell (`Rewound`).
`CacheTypes` adds `DirInv`: a file never has both names of its key, each
linked file is in `order` once, a stale tmp file exists, and the records are
of paths of the cache. `OvershootStaysSmall` rests on `BudgetInv`: the running
total is the sum of the records still to be visited (`TotalsAgree`), and
without a fault somebody is about to scan, or is evicting records that cover
all entries but the excused ones (`Covered`), or those entries fit into the
budget (`Settled`). The excused keys are those whose entry some process had
open when the last scan ran, at most one per process but the scanner
(`DirtyAreExcused`); a step that publishes nothing lets only their entries grow
(`NoGrowth`), and publishing leads to a scan.

**Evaluator.** `EvaluatorTypes` and `ShortCircuitSound` rest on `EvalInv`:
every result is the full outcome or was skipped after a failure that is among
the results, the short circuit is only entered by such a failure, and how far
the aggregation has come. `DefaultsDecideNothing`, `CompilerChecksSuffice` and
`AllowRulesAreNarrow` follow from `EvalInv` and lemmas about one constraint:
which comparisons the resolved value depends on, that the compiler's three
checks leave the evaluator no authoring error, and that an allow rule only
takes items away from what a template forbids. `DuplicatesCanGo` and
`AdvisoriesForetell` do the same for the detectors: an additive constraint
satisfied means something was added, the sum of complexities is the number of
functions and of branches (`SumSplits`), so that with the branches preserved it
grows by the functions added, and so on. Their hypotheses are the
conditions under which the runs hold: `PlansCompile` (the evaluator only sees
compiled constraints), `TemplatesAsShipped` (what `templates.py` generates),
`CoverageUnused` and `DimensionsKnown` (without the targets of the two
violation runs). They are satisfiable: `OutcomePlansQualify` has TLC evaluate
all four on the plans of `eval_outcomes`.

**Repair and output.** `FlowInv` contains `EvalInv`, since the commands only
take steps of the evaluator, and says that the payload is the one built from
the final results and that `shown` is a rendering of it. From there
`PlanAndVerdictAgree`, `SummaryAddsUp`, `EveryOutputNamesBlockers` and
`RiskSummaryHidesNothing` are about results: a category is `fix_required`
exactly when `Fails` holds, the six counters partition the constraints, ids
are unique so that SARIF finds its instruction by id, and on a baseline
compared with itself no lock is violated, so nothing is cut short.

**Check.** `CheckTypes`, `CacheStaysExact`, `ReportIsAboutJudged` and
`RunsLeaveNothing` for any number of concurrent runs (TLC has one process at a
time there). `CheckInv` says for each run which contexts it holds at each
point (`Held`), that its temporary files belong to a held context while there
is no fault (`OwnResidue`), and which of ref name, reported commit, snapshot,
cache key and CodeState already agree (`Exact`). Another actor can only disturb
the agreement with `refs`, and then `stable` ends: this is the frame lemma
`Untouched`, used once per action. `ExitCodesAreHonest` adds `EndInv`: every
exception ends in 2, 3 or 4, and 0 or 1 is only decided by a verdict on two
extracted states.

**Pipeline.** `PipelineTypes`, `AnswerIsThere`, `StatesComplete`,
`StraysReported` and `LateAnswersChangeNothing` for any number of dimensions.
`PipeInv` says that the fields before the current job are final and the ones
after it untouched, that a thread answers before it ends, and that the
snapshots stay until the main thread ends, so that a torn answer comes too
late to be used.

**Lock scan.** `ScanTypes` and `ScanImplementsPromise`, the refinement of
`PinnedDependencies`, for every set of names, extras and scan directories. The
worklist invariant has two halves. Everything processed or on the worklist
lies in every closed set that holds the roots, so the closure never exceeds
reachability; and the successors of what is processed are processed or on the
worklist, so that when it is empty the processed edges are themselves a closed
set, and hence equal to the reachable ones. The names included are those of
processed edges with a variant that applies, and no processed edge was bad,
which settles the error cases.

**Security.** `GateTypes`, `EnginesAgree`, `SarifExplains`,
`CompleteScansAreWhole`, `SspReportsTheGrowth`, `ExitZeroIsEarned` and
`GateOnlyTightens`, for any trees, rulesets, databases, policies, failures and
days. `GateInv` ties each `ssp scan` to the two recorded results its report is
the delta of; `ContentInv` says that a complete result holds exactly what the
scanner finds in that tree with the rules it read, or a part of it where the
payload was not the expected list; `GateSays` that what the
gate printed is a function of the files and the day. That ordinals number the
equal matches of a group from 0 without a gap (`SensorScanProofs`) makes the
delta of two results the growth of each group. `GateOnlyTightens` compares two
days: fewer suppressions count, so each sensor's count and status, and the
suite's rank, can only rise.

`ItemsAreAccounted` needs no further invariant, since what the gate printed is
a function of the files, but it needs what the loop over a payload computes: an
item's ordinal depends only on the items before it (`OrdinalLooksBack`), so the
recursive function `Ordinals` exists (`OrdinalsGiven`, by the least length for
which it would not), each ordinal found by `_next_free_ordinal` is new in its
group (`OrdinalsAreNew`), and anchors are distinct unless the payload itself
repeats one (`AnchorsApart`). The rest is counting: the ensemble keeps one
finding per anchor, the strongest (`ReportOf`).

Only model-checked: the liveness properties (`LookupReturns`,
`TornEntryHeals`, `TimeoutEnds`, `ScanReturns`), since fairness and ENABLED are
outside TLAPS. Every other property of the passing runs is a theorem.

## 6. Plan

Done: cache, evaluator, check run, pipeline; advisories, repair plan and output, lock scan
with its abstract specification, scanners, sensors and the security gate. Next,
in this order:

1. `CacheKey`: what the key contains and what extraction depends on, with the
   effect database (`_source_fingerprint` reads `*.py` only).
2. `Delta`: deduplication, overload groups, changed entries, against a
   reference definition; extend `Constraints` with record matching.
3. An abstract specification of `check` (a function of two commits and a
   target) that `CheckRun` implements while refs are stable.

## 7. Not modelled

* Extractors: syntax-tree walks whose correctness is about Python's grammar.
* Of the authoring layer: the hints D1, D6 and I1, the catalog, the canonical
  form and the counting of definitions in a diff.
* Argument parsing, `init` recipes, `observe`, `compile`, target doctor and
  catalog: they print what they compute. Of the output formats only what they
  say of each constraint and sensor is modelled, never the wording.
* Parsing: YAML, TOML, the syntax of markers and requirement lines; schema
  validation by pydantic is external. Markers have one level of `and` or `or`;
  the suffix of a version is written with its dot (`3.11.post1`).
* The `test_surface_changes` of `python_specific`: an entry of the test surface
  is its case.
* `ssp from-json`, the qualified name of a matched line, the conversion of a
  raw LLM response into a payload.
* The composition of the cache key (planned).

Known limits of the code that no property covers: the eviction walk deletes
foreign `*.json` files under a user-chosen `--cache-dir`; a ruleset replaced
between its hash and the run is recorded under the old hash; `ssp scan`
compares the two sides whatever they were scanned with, only the gate looks at
provenance; a pip-audit payload without a package list, or a Semgrep payload
without a list of results or with results that are no mappings, reads as a
complete scan without those findings; a mute
names its sensor and so does not carry over from a single scout to the
ensemble; D4 calls a target vacuous that fails on `coverage` or
`coverage_delta`, which are always unset, or on `equals` with a literal of
another type than its target (`D4Blind`); P1 and P2 are content with an
addition of severity info, whose violation does not count; under an allow rule
the duplicate that D3 advises to remove is stricter than the template; an entry
evicted between `exists()` and `read_text()` counts as
`invalid` although it was sound.
