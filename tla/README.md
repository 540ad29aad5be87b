# A TLA+ verification of asqs-core

asqs-core indexes a repository, asks an LLM for tests for its coverage gaps,
writes them into the working tree, builds and tests the project in a sandbox
while an LLM repairs what fails, discards what cannot be repaired, and ships
the result as a merge request. Its packages are large, but most of them are
pure functions over text. What is hard is a small core of control: loops with
budgets and streaks, files deleted on the strength of a record kept
elsewhere, flags that must agree about one tree, and a few goroutines. The
modules here model that core.

Paths below are relative to the repository root; `src/` is left out.

## 1. Inventory

| component | state it keeps | operations | talks to |
|---|---|---|---|
| **repair loop** `internal/evaluator/workflow.go` (`RunEvaluation`) | iteration, two repair budgets, streak and fingerprint per test step, compile-once flag, the result | run compile, test, e2e, lint, coverage, mutation; repair; discard; exit | sandbox, fixer, fix-loop state; called by the pipeline and the post-discard verification |
| **fix-loop circuit breakers** (`FixLoopState`, `checkFixLoopBreakers`, `applyLLMFix`) | signatures, recurrences, best magnitude, stalled writes, primary-site streak | diagnose a round, force it onto one file, trip | one per kind of step, shared by unit and e2e test |
| **pipeline run** `internal/pipeline/pipeline.go`, `post_discard_verify.go`, `first_wave_metrics.go`; gate in `cmd/asqs-core` | outcomes, extended paths, discarded paths, summary, run row | generate, evaluate, discard, verify again, report, ship | repair loop (by its result only), manifest, database |
| **provenance and duplicates** `internal/genmanifest`, `internal/generator/duplicate_artifacts.go` | manifest in `.asqs/`, files of one group | record, rank, merge, remove, write | working tree, across runs, with developers' edits between |
| **audit log** `internal/audit` | channel, closed flag, counters, file | Log, drain, Close | every goroutine of a run |
| **LLM calls** `internal/intelligence/model` (limiter), `internal/llm/ollama`, `internal/llm/shared_limiter.go` | limiter slots, attempt, timers, attempt context | acquire, send, back off, stream, release | fixer, generator, tool loop |
| **tool loop** `internal/intelligence/tools/loop.go`, driven by `internal/generator` | turns, shared budget of calls and characters, retries | ask the model, run tools, force the answer | LLM calls, generation |
| **incremental indexer** `internal/intelligence/indexer`, on `internal/storage/{metadata,embeddings}` | symbols, edges, chunks, file versions in SQL | compare, delete, insert, record | database, working tree, across crashes |
| **repair round: scope and write gates** `applyLLMFix`, `fix_*_gate.go`, `fix_write_path.go` | writable files, copies in the prompt, narrowing of the last round | adopt, narrow, widen, cut, ask, gate, write | breakers, working tree |
| **test bootstrap** `internal/testbootstrap`, `internal/teststack` | files this run wrote; the contract in `.asqs/` | patch, stage, gate, remove, stamp | working tree, sandbox, across runs |
| **test-id pass** `internal/uitesthooks`, `pipeline/ui_test_hooks.go` | journal, changed files | snapshot, write, compile, restore, report | working tree, before the index |
| retrieval cache `internal/intelligence/retrieval` | results in flight | share, retrieve | generation |
| job queue, migrations `internal/storage/*` | job rows; applied versions | claim, complete; apply, record | database |
| application server `internal/appserver` | process and reaper | start, poll, stop | e2e tests |
| generation, fixer prompts, parsers, API surface, project layout, configuration, sandbox runner, git and hosting clients | none that outlives a call | pure functions and plain I/O | all of the above |

`PROJECT.json` lists every component with its source files and its status.

### How they interact

```
 scan --> bootstrap --> test-id pass --> index --> duplicates --> generation (tool loops, LLM calls)
                                                                      |
            repair loop <--(written paths)-- pipeline run <-----------+
             |       |                          |    |
        breakers   repair round              manifest +--> summary, row, ship
             |       |
             +--> sandbox, fixer (LLM calls)
 audit log <-- entries from every goroutine of the run
```

The pipeline reads nothing of the repair loop but its result. That boundary is
the module `EvalContract`: `PipelineRun` is written against it and
`Evaluation` is shown to implement it. What the repair loop, the breakers and
the repair round have in common is the module `RepairLoop`: writes within a
budget, none after a breaker. Each of the three is shown to implement it, which
is why `Evaluation` may take a call of `applyLLMFix` for one step in which a
breaker may trip. `Preparation` composes the first four
boxes, which share the tree and nothing else; `ToolLoop` composes the
conversations of several gaps over the limiter of `LlmCalls`, whose own promise
is the module `Limiter`. `LossyLog` is what the goroutines of a run are promised
of the audit log.

### What is hard, and what makes each part correct

- *Repair loop.* Ten ways to start another iteration, two ways to discard, and
  a context read in one place only. Correct: stable is a measurement of the
  tree as it is; a discard is evidence-based and never names a repository
  file; streaks count what really happened; no iteration is spent where
  nothing can change; it ends.
- *Breakers.* Five counters kept incrementally, two mechanisms (stop the loop,
  force the round) that may fire together. Correct: counters are what their
  comments define; grace is one round; the terminal stop follows a forced round.
- *Pipeline run.* Several items share a path, removal may fail, a second
  evaluation corrects the first. Correct: the repository's files survive, what
  ships was measured, and what is reported stable is in the tree.
- *Provenance.* Deletion in one run rests on what earlier runs recorded, with
  developers and crashes between. Correct: only what the tool wrote is
  deleted, the canonical file stays, no test is lost.
- *Audit log.* Never panics, loses nothing silently, and Close returns.
- *LLM calls and tool loop.* Goroutines that outnumber the slots of a limiter,
  three timers, retries around loops around retries, one cancellation for
  all. Correct: slots come back on every way out, everybody finishes, tool
  calls of a conversation all have results, shared caps hold.
- *Indexer.* Seven statements per file, no transaction, and the next run
  decides by one of them what to skip. Correct: a recorded version is the
  stored one, and no edge or chunk of an older one survives.
- *Repair round.* What may be written, what is shown and what a reply is
  compared with are computed in turn from one another and from earlier
  rounds. Correct: what fails stays writable, what may be written is shown
  whole, and no test is lost through a gate that looked at a cut copy.
- *Preparation.* Files are staged in someone else's tree, and removed on a
  dozen ways out in three languages; two passes change the tree between the
  scan and the index. Correct: the tree comes back as it was found or the
  change is reported, and "verified" means that a test ran.

`PROJECT.json` "hazards" has the full list, each at its line.

## 2. Modules

| module | models | state and actions against the code |
|---|---|---|
| `EvalVerdicts` | `EvalWorkflowResult`, reduced to what the pipeline acts on, and the verdicts that are allowed | constants only |
| `EvalContract` | what a caller of `RunEvaluation` may rely on | one action, `Return` |
| `Evaluation` | one call of `RunEvaluation` | `pc` is the step about to run. Each step has an action per outcome (`CompilePasses`, `CompileFailsInScope`, ...); a call of `applyLLMFix` is `FixApplied` or `Refused(why)`; `maybeExitOnRepeatedTestFailure` is the four `Repeat...` actions; `Cancel` is the caller. `green` is a history variable: which steps passed since the last write |
| `EvaluationHistory` | `Evaluation` with a record | `runs[s]` is what a test step reported since it last passed, which no variable of the code keeps; the steps are `Evaluation`'s |
| `RepairLoop` | what `RunEvaluation` relies on of one of its repair loops | `writes` is the attempt counter, `stopped` the `tripped` flag; actions `Write` and `Trip`. Implemented by `FixLoop`, by each loop of `Evaluation` and by `FixRound` |
| `FixLoop` | `FixLoopState` over the rounds of one step | a round is a diagnosis (`StopsAtSite`, `BreakerTrips`, `Asks`) and an answer (`WritesNothing`, `Writes`). `Evaluation` knows of it what `RepairLoop` says |
| `FixLoopHistory` | `FixLoop` with a record | `log` has an entry per round: the failure, whether a breaker was held back, whether the round was forced, what the answer did to the site's streak |
| `PipelineRun` | `Run` from the first generated test to the ship gate | one action per phase; `disk` is the set of test files that exist, `treeGreen` a history variable |
| `Provenance` | manifest, duplicate group and tree over several runs | a run is `StartRun`, the steps of a reconciliation, `GenerateTest`s, `EndRun`, or `Killed` at any point; `Developer...` between runs |
| `AuditLog` | `JSONLLogger` | a call of `Log` is `Log` then `Send` (the flag is read before the select); drain is `Receive`, `Write`, `DrainEnds`; Close is `Close`, then `CloseFile` or, for a second caller, `CloseAgain` |
| `LossyLog` | what a caller of the logger is promised | a bounded backlog (`Accept`, `TurnAway`) that empties in order into the file or the count of lost entries (`Deliver`, `Lose`). Implemented by `AuditLog`, whose backlog is the queue behind the entry in hand |
| `Limiter` | what the callers that share a limiter are promised | the set of clients inside; `Acquire`, `Release`. Implemented by `ToolLoop` on `LlmCalls` |
| `LlmCalls` | `limitedCompleter`, `Complete` and `doChat` of the Ollama client | `at[c]` is where the call of a caller is; `GetSlot`, `GiveUp` are the select in `acquire`, `HeaderTimer` and `Stall` the two timers, which run beside the caller; a slot is held over attempts and backoffs |
| `ToolLoop` | `CompleteWithTools` and `finalTurn`, inside `completeGenerateWithRetry`, inside `generateFromConversation` | extends `LlmCalls`. `phase[c]` says which call of the model is out; `RunTool` is one tool, `TurnAsks` cuts a turn's calls by two caps, `EndOrAgain` and `AskUnstructured` begin again |
| `Indexer` | `indexer.Run` over several runs | `pc` is the SQL statement about to be executed; each may fail, and `Abort` may follow any. What is stored is kept as the set of file contents it was derived from, so a mixture shows |
| `FixRound` | `applyLLMFix` from failure to write | a round is `Asks` (adopt, narrow or widen, cut, enforce) and `Writes` or `WritesNothing` (the gates). A file's content is the number of tests in it |
| `TestBootstrap` | `testbootstrap.Run` for Java, JavaScript and C# | `bootPc` is the step; a language takes the steps its function has. `Stage` and `Remove` are the pair of helpers each language has; `wrote` is their `Wrote` flag |
| `TestIdPass` | `applyUITestHooks`, `Apply`, `Journal` | one action per file written, plus the node batch and the rollback |
| `Preparation` | the start of `pipeline.Run` over several runs | extends both; adds scan and index, the end of a run in any step (`End`) and the owner's checkouts between runs (`Rework`) |
| `MC...` | instances for TLC | |
| `...Proofs` | theorems of the module they are named for; `EvaluationProofs` and `FixLoopProofs` also have those of the `...History` modules, `PipelineProofs` those of `PipelineRun` and of `Preparation` | |

Definitions called `Mutant...` are used by no action. Each is a plausible bug
in the definition next to it, and `PROJECT.json` "mutants" names the property
that must fail when it takes that definition's place.

Abstractions worth knowing:

- What a parser of failing output finds is a free choice of a set of artifacts
  (`cited`, and `failing` within it). The parsers are pure and are the subject
  of the repository's own table tests.
- A sandbox step may fail at any time; on a cancelled context it cannot pass,
  except the steps that pass without running (a compile that is skipped, lint
  when it is off, a mutation run that is skipped).
- Two files in one "duplicate group" differ in naming convention only. Which
  convention wins is decided by the rest of the tree, hence a free choice; the
  tie-breaks after it (no manifest entry, more tests) are the code's.
- A failing file operation is a free choice wherever the code handles one.
  `os.WriteFile` truncates before it writes, so a failed write may also leave
  the file empty.
- `FixRound` takes every failing file to exist and every name in a reply to be
  a file or a stray. Core leaves `FailingTestCandidatePaths` unset, so it is not modelled. Gates
  on the text of a reply (quality, edits, imports) refuse freely. Enforcement
  may narrow any round from the third on; when it does is `FixLoop`'s.
- `Indexer` leaves out what is derived from whole tables at the end of a run
  (trace edges, degrees) and what chunking and embedding compute.
- `Preparation` indexes in one step that either succeeds or changes nothing;
  the statements in between are `Indexer`'s.
- `AuditLog` keeps the contract of the comment on `Close`: callers do not log
  concurrently with it. Calls after it are modelled.

## 3. Runs

| run | question | bounds | result |
|---|---|---|---|
| `evaluation` | is every verdict justified, and does the loop end? | 2 artifacts, one of them a repository file; 3 iterations; budgets 1 and 2; threshold 2; four option sets (the pipeline's with and without e2e, the defaults with mutation, the fixerless re-verification) | holds, about 340 000 states |
| `fix_loop` | do the breakers count what they say, and stop where they should? | 4 failures on 2 sites, one failure without a site and one site that narrowing drops; 5 rounds, 4 writes; thresholds 3, 2, 4 | holds, about 400 000 states |
| `pipeline_run` | does a run keep the repository's files and ship only what it measured? | 1 repository file, 3 new paths, 4 items | holds, about 33 000 states |
| `provenance` | does reconciliation lose or delete what it must not? | group of 3, 3 tests, 3 runs | holds, about 23 000 states |
| `audit_log` | does it account for the tail, and does Close return? | 2 callers of 3 entries, queue of 2, 2 closers | holds, about 25 000 states |
| `indexer` | does the index claim only what it stores? | 2 files that call each other, contents old, new and stub, 2 runs, 2 edits | holds, about 1.2 million states |
| `tool_loop` | do all callers end, with their slots returned and their tool calls answered? | 1 gap and 1 caller without tools on 1 slot; 2 attempts, 2 turns, 2 calls per turn and request, 2 characters; results of 1 and 3 characters, turns of 1 and 3 calls; 2 tries, 1 escalation | holds, about 164 000 states |
| `fix_round` | is what fails writable, what is writable shown, and what is shown safe? | 2 generated files, 1 broken before the run, a stray name; 4 rounds, 3 of which write, up to 2 files each; up to 2 tests per file | holds, about 220 000 states |
| `preparation` | does a run prepare a repository without a trace it does not report? | 3 languages; 1 template, 1 JSX source; the repository may have its own file at 2 of the 5 instrument paths; 2 runs, 1 checkout between | holds, about 2.7 million states |
| `fix_round_tests` | `workflow.go:3096`: a repair does not remove tests | as `fix_round`, with a developer's file and 3 rounds | violated |
| `provenance_developer` | `duplicate_artifacts.go:31`: a developer's test is not deleted for a naming vote | as `provenance` | violated |
| `preparation_index` | `pipeline.go:232`: the inventory reflects the attributes the pass added | as `preparation` | violated |

### Why the bounds are enough

- *Evaluation.* Two artifacts are the smallest set in which "all failing",
  "some failing", "only the repository's failing" and "some survivor" differ.
  Three iterations let a streak reach the threshold of 2 after another
  failure interrupted it, and let a write follow a pass and precede a
  verdict. Budgets of 1 and 2 are both exhausted within them.
- *FixLoop.* Two failures at one site and one at another are what tells a
  repeat from a return and a site's streak from a failure's. Five rounds pass
  every threshold by at least one, and the sequence untouched, untouched,
  forced, untouched, stop fits.
- *PipelineRun.* Four items allow two on one path, one on the repository's
  file and one survivor; three new paths allow a first discard, a second one
  and a remainder.
- *Provenance.* Two redundant members are needed for a merge that forgets the
  first; three runs for write, developer edit, reconcile.
- *AuditLog.* Six entries overflow a queue of two while one is held by the
  drain goroutine.

- *Indexer.* Two files that call each other are needed for an edge whose two
  ends are of different runs; a version with a call and one without, for an
  edge that should go; two edits, for a content that comes back; two runs,
  for the one that is cut short and the one that believes it.
- *ToolLoop.* One slot for two callers is the contention; the caller without
  tools meets the gap at each of its calls. Caps of 2 against turns of 3 calls
  and results of 3 characters are exceeded at the first and at a later turn;
  two tries and one escalation give each loop a successor.
- *FixRound.* Slicing and shedding begin at the third attempt, and narrowing,
  widening, narrowing again takes three rounds; four leave one to judge. With
  two generated files one can be named and the other not.
- *Preparation.* Two runs are what a leftover of the first needs to be taken for
  the repository's in the second, and what an index row needs to be believed; a template
  and a JSX source are on the two sides of the batch that may fail. The two
  owned instruments are one of the mandatory gate and one of those that are written first
  and removed later.

The iteration and repair budgets are the code's own. `MaxRounds`, `MaxRuns`,
`MaxEdits`, `PerLogger`, `NumItems` and the sets are bounds of the instances. The theorems
of section 5 need none of them.

Symmetry is declared only in runs without liveness, over constants the module
does not tell apart. Deadlock is not checked because every modelled activity
ends: a verdict, a shipped or unshipped run, a closed log, an answered or
failed gap, a run that is over.

### What the violated runs show

1. *A repair can remove tests* (`fix_round_tests`). The coverage gate compares
   a reply with the copy in the prompt, the path gate with the disk. A test
   file that exists but was not in the prompt, or was adopted and cut to its
   signatures, passes both with fewer tests than it had. `OfferedTestsKept`, proved, says
   where the gate does hold: generated files that were offered.
2. *A developer's file becomes the tool's* (`provenance_developer`). Extended
   paths are recorded in the manifest like created ones, so a later
   reconciliation may fold the developer's file into another and delete it.
3. *The inventory misses the attributes* (`preparation_index`). The scan whose
   SHAs decide what is indexed comes before the pass that adds them. A file
   that an earlier run indexed plain is not read again in the run that hooks
   it; the run after that one reads it.

Seen while modelling, each an exception written into a property and explained at it:

- The context of `RunEvaluation` is read at the head of the loop only, so an
  evaluation cancelled after lint can end stable.
- `reconcileDuplicateGroup` removes each member before it writes the canonical
  file; a failed write or a kill in between loses tests
  (`NothingLostWithoutFailure` shows that nothing else does).
- A kill between the row of a file and its chunks leaves a file without chunks
  that later runs take for unchanged; `ChunksAreCurrent` promises that
  chunks are not old, not that they are there.
- A gap whose structured request is refused asks again with a new `RunBudget`,
  so it may spend the tool cap twice; the theorem `ToolsWithinCap` is about one request.
- A failed gate of a JavaScript or C# bootstrap returns with the unit smoke
  test staged and the stack declared. The next run takes both for the
  repository's, and the test ships. `TreeAsFound` excepts it as `Leftover`.
- A failed node batch returns with templates changed, uncompiled and
  unreported, and is logged as "failed before writing".
- The comment at `run_java.go:253` calls a Spring smoke test that does not
  compile a hard failure; the code logs an error and goes on, verified.
- A verified contract of an earlier run stays when a later bootstrap fails.

## 4. Fairness

- `Evaluation`: weak fairness of `Step`. The loop is one goroutine, and every
  sandbox step and fixer round has its own timeout. There is none on
  `Cancel`: nobody is obliged to cancel, and `Terminates` holds without.
- `AuditLog`: weak fairness of the drain goroutine, of each `Send` and of each
  pending `Close`, which is the Go scheduler running what can run. None on
  `Log` or `Close`: a goroutine need not call either.
- `ToolLoop`: weak fairness of each caller's `Step`, strong fairness of its
  `Slot`. The first is the scheduler and the runtime's timers: what can go on
  does, and a timer that is armed fires, so a server that says nothing is given up.
  Excluded with it is a server that sends a byte before each stall timer for ever. The
  second is the channel of the limiter, whose waiters Go serves first come,
  first served: weak fairness is not enough, as a slot may come and go while
  one waits. None on `Cancel`.
- The other modules state safety only, and have no fairness.

## 5. Proofs

Each holds for every value of the constants that satisfies the module's
assumption (`EvaluationAssumption`, `FixLoopAssumption`,
`PipelineAssumption`, `PreparationAssumption`, `ProvenanceAssumption`, `AuditAssumption`, `LlmCallsAssumption`,
`ToolLoopAssumption`, `IndexerAssumption`, `FixRoundAssumption`). TLC evaluates
these assumptions in the runs.

| theorem | says | argument |
|---|---|---|
| `EvaluationProofs!TypeCorrect` | types and repair budgets | inductive with `FixerCanAttempt` as the guard of the only increment |
| `EvaluationProofs!ContractImplemented` | `Evaluation` refines `EvalContract` | a step either leaves `out` alone or is the one `Return` from `Running`; needs that no verdict is out before `pc = "done"`, and that discarding is proposed only with a threshold |
| `EvaluationProofs!DiscardsEvidenced` | `DiscardIsEvidenced` | the evidence is in the guard of the step that discards, and no step follows a verdict |
| `EvaluationProofs!StableIsGreen` | `StableMeansGreen` | strengthened to every `pc`: which steps have to be green once the loop has got as far as lint, coverage or mutation; a write empties `green` and returns to the top |
| `EvaluationProofs!CompilesAreWorthwhile` | `NoFruitlessCompile` | inductive `WorthRetrying`: at the head of the loop after a compile failure a turn is left; only `BeginIteration` counts an iteration |
| `EvaluationProofs!StreaksAreHistory` | `StreakIsHistory` | inductive `StreakInv`: while a failed test step is handled, its report is the last one of the record, so a streak about to grow has one more occurrence to show than it counts |
| `EvaluationProofs!LoopsImplementRepairLoop` | each loop refines `RepairLoop` | a step charges at most the loop of the step that failed, under `FixerCanAttempt`; the other loop rests |
| `EvaluationProofs!LoopIsBounded` | `StepsAreBounded` | the measure `StepsLeft`: nine for each iteration left, and the place in the iteration, where steps only go forward. Every step but the cancellation lowers it |
| `FixLoopProofs!TypeCorrect` | types and the write budget | while the fixer is asked, a write is left |
| `FixLoopProofs!StopsFollowForce` | `StopsOnlyWhereForced` | strengthened with: the enforcement flag is up only for a writable site, and nothing moves once a breaker has tripped |
| `FixLoopProofs!ImplementsRepairLoop` | `FixLoop` refines `RepairLoop` | from the invariant of `StopsFollowForce` |
| `FixLoopProofs!RepeatsAreBounded` | `RepeatsBounded` | inductive `RepeatInv`: a failure that stands at the threshold while the loop goes on has spent its grace, as the site's streak is enforced and an answer only prolongs it, ends it or leaves it |
| `FixLoopProofs!CountersCount` | `CountersMatchLog` | inductive: the memories (`last`, `seen`, `best`) are those of the log, and each counter is the number of rounds its definition names, by how those sets grow with one more round; an answer amends the last round and moves none of them |
| `FixLoopProofs!OneRoundOfGrace` | `GraceIsOneRound` | inductive `GraceInv`: from a round that had grace on, either the site is still enforced, and no breaker is held back for it, or a later round started its streak over |
| `PipelineProofs!TypeCorrect` | types | |
| `PipelineProofs!RepoFilesSafe` | `RepoFilesSurvive` | inductive `Protected`: an artifact that the repository owns is in `extended`, because the first write to it found it on disk; the contract keeps extended paths out of a discard, `Removable` keeps them out of the second |
| `PipelineProofs!ShippedIsGreen` | `ShippedTreeIsGreen` | inductive `Measured`: wherever the run still may report stable, `treeGreen` agrees with `verified` and the verdict |
| `PipelineProofs!StableOutcomesAreThere`, `SomethingSurvives` | `StableOutcomesStand`, `SurvivorExists` | inductive `Standing`: what no discard took is on disk; after the first discard the first writers of its files are marked; a verdict that may still become stable leaves something |
| `PipelineProofs!PrepTypeCorrect`, `TreeLeftAsFound` | `PrepTypeOK`, `TreeAsFound` | inductive `TreeInv`: what is in the tree beyond what was found was written by this run, and, unless a removal failed, is among the instruments in use at that step |
| `PipelineProofs!VerifiedStackRan` | `VerifiedMeansRan` | inductive `RanInv`: at which steps of which language a unit test has passed |
| `PipelineProofs!ChangesAreReported` | `ChangedIsReported` | inductive `PassInv`: of the files nothing went wrong with, those changed so far are exactly the applied ones, and the journal holds for exactly these what the pass found |
| `ProvenanceProofs!TypeCorrect` | types | |
| `ProvenanceProofs!CanonicalIsKept` | `CanonicalStays` | the canonical file is not among the members to do, and nothing else is removed meanwhile |
| `ProvenanceProofs!DeletesAreAuthored` | `DeletesOnlyWhatItWrote` | inductive `Authored`: manifest entries, and the members to do, are written paths |
| `ProvenanceProofs!NothingIsLost` | `NothingLostWithoutFailure` | inductive `Held`: a test is on disk or in the text merged so far, which has at least the canonical file's tests |
| `AuditLogProofs!TypeCorrect` | types and the capacity of the queue | |
| `AuditLogProofs!NeverPanics` | `NoSendOnClosed` | nobody is between the flag and the select once Close has begun |
| `AuditLogProofs!TailIsAccounted` | `TailAccounted` | inductive `Accounting`: attempted = written + dropped + queued + held |
| `AuditLogProofs!ImplementsLossyLog` | `AuditLog` refines `LossyLog` | `Receive` moves the head of the queue into the hand of the drain goroutine, which the backlog `held \o queue` does not show |
| `AuditLogProofs!FileIsInOrder` | `FileInOrder` | inductive `OrderInv`: file, hand, queue and the entry each goroutine sends next are in order, each before the next |
| `AuditLogProofs!CloseMakesProgress` | `CloseIsServed`, `DrainFalls` | as long as anybody is in `Close` the first caller waits for the drain goroutine or has returned; once the channel is closed nothing is sent, so `DrainLeft` only falls |
| `FixRoundProofs!TypeCorrect`, `AlwaysOfferedInFull`, `AlwaysNamedStaysWritable` | `TypeOK`, `OfferedInFull`, `NamedStaysWritable` | one inductive invariant with `WidenedIsWhole`: a widened round that is not forced is not narrowed. The slicing and the shedding each spare what is writable, and the writable set only shrinks from scope to offer |
| `FixRoundProofs!AlwaysOfferedTestsKept` | `OfferedTestsKept` | from the above: the copy the gate sees is the disk's |
| `FixRoundProofs!AlwaysWideningIsOneRound` | `WideningIsOneRound` | a widened round is narrowed only by enforcement |
| `FixRoundProofs!RoundsImplementRepairLoop` | `FixRound` refines `RepairLoop`, `WritesAreCharged` | the disk changes in `Writes` only, which is charged; nothing here trips a breaker, so `stopped` is constantly false |
| `IndexerProofs!TypeCorrect`, `RowsAreTrue`, `EdgesAreCurrent`, `ChunksNeverOlder` | `TypeOK`, `RowsTellTheTruth`, `EdgesReflectCallers`, `ChunksAreCurrent` | what is stored for the file in progress, statement by statement, next to what is stored for the settled ones |
| `IndexerProofs!SuccessIsRecorded` | `SuccessMeansRecorded` | files not yet dealt with are in `todo` or `gone`, and a failed row makes the run fail |
| `ToolLoopProofs!TypeCorrect`, `SlotsAreConserved`, `LateAtMostOnce` | `TypeOK`, `SlotsConserved`, `OneLateRequest` | `CallInv`, about calls alone: the callers that hold a slot are counted in the channel |
| `ToolLoopProofs!ToolsWithinCap`, `CharsOverdrawnOnce`, `CallsAreAnswered`, `LoopsAreBounded` | `CallsWithinCap`, `OverdrawnOnce`, `EveryCallAnswered`, `CompletionsBounded` | `LoopInv`, about loops alone: `Spending` ties the history to the budget and the unanswered calls to those pending, `Progress` the calls of the model to the turns. `OnlyAsking` is what the two invariants need of each other |
| `ToolLoopProofs!ImplementsLimiter` | the calls refine `Limiter` | the clients inside are those between acquire and release; every way out of a call ends in the one `Return`, and a retry keeps the slot |
| `ToolLoopProofs!WorkIsBounded` | `WorkIsNat`, `WorkFalls` | a lexicographic measure per caller: requests, loops, turns, and then the tools of the turn or the steps of the call, with its two timers. The caller that steps lowers its own, and no other's changes |

Every safety property of the runs that pass is proved. The theorems
`CanonicalIsKept`, `NeverPanics`, `FileIsInOrder`, `SuccessIsRecorded`, `LateAtMostOnce`,
`ToolsWithinCap`, `CharsOverdrawnOnce`, `LoopsAreBounded`, the refinements of
`RepairLoop`, `LossyLog` and `Limiter`, and the three measures state what is not
among the properties of the runs: it says less about a small instance than
what is.

Checked by TLC only: liveness, `Terminates`, `CloseReturns` and
`EveryCallerEnds`. What fairness and ENABLED add is out of the prover's reach;
the safety half of each is `LoopIsBounded`, `CloseMakesProgress` and
`WorkIsBounded`: the steps that fairness grants lead to an end, as a measure in
the natural numbers falls. That a step is possible until then is what TLC adds.

The proofs about `FixLoop` and `FixRound` meet in `RepairLoop` only. That the site which
enforcement narrows a round to is the one the breakers blame is an abstraction
of both modules, and no theorem relates them.

## 6. Not modelled, and what comes next

In order of what a model would find out:

1. `RetrieveCache`: shared flights and the cancellation of the one that leads.
2. `JobQueue`, `Migrate`, `AppServer`: two processes or goroutines each.
3. `FixLoop` and `FixRound` in one module, so that the site the breakers blame
   and the file enforcement narrows to are the same. `RepairLoop` is what they
   share so far.
4. `retryhttp`, the transport of the hosted providers: Retry-After against the
   deadline while the slot is held.

Of the modelled parts these are left out: the API facts, error summary and
formatter of a repair round; the fixer's multi-turn conversation, which core
never switches on; the second phase of two-phase generation; the contents of
manifests, the relocation of stray C# tests and the whole E2E bootstrap, whose
files are deliverables; redaction in the audit log.

Proofs to follow: measures as in `LoopIsBounded` for one run of `Indexer` and of
`Preparation`, which no liveness property covers yet, and an abstract index that
`Indexer` implements for readers between two runs.

Left out for good, with the reason in `PROJECT.json`: prompt assembly, reply
parsing, output parsers, API surface, project layout and configuration (pure
functions, nothing to explore); sandbox, git and hosting clients (plain I/O;
their outcomes are choices in the models).

## 7. Running

    tlc -config MCEvaluation.cfg MCEvaluation      # any pair of section 3
    tlapm EvaluationProofs.tla                     # any ...Proofs module
