# BlameFree in TLA+

BlameFree is a code review harness: a panel of language model agents reads the
diff of a pull request and reports findings. A web server starts reviews and
benchmarks, runs them in background tasks, stores what they produce and streams
their progress to live pages. This directory holds TLA+ models of it, the TLC
configurations that check them on small instances, and proofs checked by TLAPS.

Paths below are relative to `src/crates/`.

1. [The system](#1-the-system)
2. [Modules and the code they model](#2-modules-and-the-code-they-model)
3. [Runs, bounds and fairness](#3-runs-bounds-and-fairness)
4. [What is proved](#4-what-is-proved)
5. [Where the code and its documents disagree](#5-where-the-code-and-its-documents-disagree)
6. [What is not modelled](#6-what-is-not-modelled)
7. [Plan](#7-plan)

## 1. The system

### Components

| Component | Code | State | Operations | What makes it correct |
|---|---|---|---|---|
| Review lifecycle | `riv-webui-backend/src/services.rs` | rows of `reviews` and `pr_results`; `active_reviews`, `review_channels`, `live_review_agents` of `AppState`; one spawned task per review | start, run, recover, register, unregister, reconcile at a page load | a review ends, once, with its results behind it; the maps hold it exactly while it works |
| Live page | `riv-webui-backend/src/routes/api/reviews.rs`, `riv-webui-app/src/pages/review_live.rs`, `.../sse.rs` | an EventSource, a broadcast receiver, a status poll, a pane per agent | subscribe, receive, lag, reconnect, poll, leave | every page learns the end and leaves only for a stored one; a pane is what its agent said, in order |
| Panel | `riv-harness/src/pipeline.rs`, `riv-consensus/src/adaptive.rs`, `riv-reporting/src/cost.rs` | a `JoinSet`, the shared `AnalyticsTracker` | select, spawn, record, join, return | all findings and sessions, or all errors; the final analytics complete |
| Diff and filters | `riv-shared/src/diff.rs`, `filter.rs` | sections of a diff | cut, filter, measure | a file is one section or one count, whole |
| Agent stream, session builder, transcripts | `riv-agents/src/lib.rs`, `session.rs`, `riv-types/src/agent.rs` | pending text and tool, messages, turns | one operation per stream item; sorting and reading back | the transcript is what was streamed, once, in order, numbered, and shown so |
| Prompts | `riv-agents/src/prompts.rs`, `agent.rs` | embedded files, the library, a rendering context | load, render | the prompt does not depend on the order of a `HashMap` |
| Project rules | `riv-rules` | files, a `RuleSet` | parse, load, match | a bad file costs itself only; exactly the rules that apply are shown |
| Tools | `riv-tools` | the checkout, processes of calls | read a page, run a command, time out | pages cover the file; an answered call is over |
| Findings post-processing | `riv-shared/src/deduplicate.rs`, `riv-auditor`, `riv-harness/src/finding.rs` | the list of findings | deduplicate, audit, cut | nothing lost or doubled by the merge; severities are only lowered |
| Consensus and judge | `riv-consensus/src/pipeline.rs`, `riv-benchmark/src/judge.rs` | pools of findings and golden comments | match, judge, score | matched, missed and spurious partition the input |
| Derived storage | `riv-macros/src/stor.rs`, `flatten.rs`, `riv-stor/src/store/sqlite.rs` | tables of reviews, sessions, turns, messages | save and load, a statement at a time; fields to columns and back | parents before children, whole loads, a row is its value |
| Migrations | `riv-stor/src/migration/mod.rs` | `_schema_version` and the schema | open, inspect, change, record | no version ahead of the schema; opening works again after a crash |
| Model allowlist, catalog | `services.rs`, `riv-harness/src/model_capabilities.rs`, `riv-webui-app/src/pages/admin.rs` | a table; a cache behind a lock; the picker | replace, list, refresh, search, tick | saves mix no more than what was under way; the views of the cache agree |
| Log stream | `riv-webui-backend/src/routes/api/admin.rs` | a position in a growing file | read back, follow, reconnect | no line skipped while connected |
| Overview, detail page, launch forms | `riv-webui-app/src/pages`, `async_resource.rs`, `storage.rs` | signals, requests on their way | refresh, answer, tick, submit | no older answer over a newer one; a launch is of one list, and of roles that get along or were restored |
| Golden datasets | `riv-reporting/src/golden.rs`, `services.rs` | directories of JSON files | load, list, select | what was counted is what runs |
| Benchmark assets | `riv-benchmark/src/scaffold.rs`, `diffs.rs`, `run.rs` | clone, refs, worktrees, diffs on disk | prepare, load, run | nothing half made is reviewed unless somebody is making it |
| Response cache | `riv-cache` | a file per key and an index | load, compute, store | a hit is one answer, whole, of its key; an answer is paid for once |
| Authentication, command line, reporting tables | the other files | little or none | I/O | unit-tested functions |

### How they interact

    launch form --POST--> start handler --save row--> store
                              |  register (3 maps)
                              v
                          spawned task --> diff, panel --> JoinSet of agents --> rig/LLM
                              |               |             | prompts, tools, stream items
                              |               |             +-> SessionBuilder, AnalyticsTracker
                              |               +--> findings: merge, audit, cut
                              |  save results, final row, sessions
                              |  unregister (3 maps)
                              v
    live page <--SSE-- broadcast channel        overview, details --GET--> list/get_review
    live page --poll--> get_review                  load rows; not active? save as failed

The request handlers, the tasks and the page loads share the store and three maps
and nothing else. There is no transaction around any two statements, and no lock
is held across two of the maps or across a store call, so almost every pair of
steps can be separated by those of another actor. What follows is hard to test:

* a page load that reads a row, and decides about it after the task has gone on;
* start handlers that are dropped with their connection between two awaits;
* store calls that fail one by one, within a save that has several statements;
* restarts, after which the rows stay and the maps are empty;
* subscriptions that race the last event, and receivers slower than the ring;
* agents that fail or panic while others stream, and tool calls side by side;
* several processes that migrate one SQLite file, fill one cache directory or
  prepare one benchmark directory, and die on the way;
* answers that reach a page after the question has changed;
* text formats read back by another parser than the one that wrote them.

`PROJECT.json` lists each at its line, under `hazards`, with the property that
covers it.

## 2. Modules and the code they model

| Module | Models | Composition |
|---|---|---|
| `ReviewLifecycle` | `start_review`, `start_benchmark`, `run_launch_job_with_recovery`, the registry, `reconcile_review_state` | implements `ReviewRecord` |
| `ReviewRecord` | what a stored review goes through, whoever writes it | the abstract specification |
| `ReviewLifecycle_proofs`, `ReviewOutcome_proofs` | | proofs about both |
| `ReviewStream`, `ReviewStream_proofs` | `stream_review`, the broadcast ring, the live page | EXTENDS `ReviewLifecycle` |
| `LivePanes` | the panes of the live page | part of `Console` |
| `Dashboard` | the overview and the detail page | EXTENDS `ReviewRecord`; part of `Console` |
| `ModelCatalog` | the allowlist, the capability cache and the models page | part of `Console` |
| `Datasets`, `LaunchForm` | golden datasets; the two forms and the handlers' checks | `LaunchForm` EXTENDS `Datasets`; part of `Console` |
| `LogTail` | the log stream and the log page | part of `Console` |
| `AgentStream` | `stream_agent_inner`, `SessionBuilder` | |
| `Transcript` | `LogViewer`, `list_agent_logs` | EXTENDS `AgentStream`; part of `Evaluation` |
| `AgentStream_proofs` | | proofs about both |
| `Panel` | `evaluate`, `run_reviewers`, `AnalyticsTracker` | its agents are `AgentStream` seen from outside; part of `Evaluation` |
| `DiffSections` | `Diff::new`, the file filters, `should_use_single_agent` | before `Panel`; part of `Evaluation` |
| `PromptLibrary`, `RuleFiles` | `PromptLibrary::new`, `render`; `RuleSet` | part of `Evaluation` |
| `ToolCalls` | `read_file`, `shell`, `grep`, `list_dir` | part of `Evaluation` |
| `Findings` | `post_process_findings` | what `Panel` hands on; part of `Evaluation` |
| `Scoring` | `run_consensus_post`, `judge_finding` | part of `Evaluation` |
| `StoreCascade` | the statements `EntityModel` derives, under `run_review_job` and `get_review` | the statements inside the saves and loads of `ReviewLifecycle`; part of `Storage` |
| `RowMapping` | the rows `EntityModel` and the flatten derives make | part of `Storage` |
| `Migrations` | `run_migrations` | part of `Storage` |
| `ResponseCache` | `get_or_compute` | part of `Storage` |
| `BenchmarkAssets` | `prepare_benchmark_assets`, `run_benchmark` | part of `Storage` |
| `Evaluation`, `Console`, `Storage` | | parts that share no state, checked in one run each: a behaviour is one of any of them |
| `Subsequences` | `Iterator::filter`, as the places it keeps, and `sort_by_key` | used by `ModelCatalog`, `LaunchForm`, `Transcript`, `Findings`, `DiffSections`, `RuleFiles`, `StoreCascade` and `BenchmarkAssets` |
| `InductionLemmas` | | lemmas about numbers, sequences and finite sets that the proofs share |
| `Console_proofs`, `Storage_proofs`, `Evaluation_proofs` | | proofs about the parts, a section for each |

**ReviewLifecycle.** One action is one store call, one locked section or one send.
`launcher[r]` is the position of the start handler (`SaveRunning`,
`RegisterActive`, `RegisterChannel`, `RegisterAgentsAndSpawn`); `job[r]` is that of
the task (`PrEvaluated`/`PrFails` per pull request, `SaveResult`, `SaveFinal`,
`Announce`, then `EnsureTerminal`, `MarkFailed`, `MarkAnnounce` of the recovery, and
the three steps of `unregister_live_review`). A review of a single pull request and
a benchmark take the same actions; where they differ (a single review that
completed is not announced a second time; a failed one returns an error to the
recovery) the action says so. `reader[p]` is a page load: `Load` takes the running rows,
`CheckActive` reads the active list once for each, `Reconcile` saves *the row that
was loaded*. `AbortJob` stands for every way out of the task before anything is
stored, a panic included. `row[r].analytics` is the runtime blob, of which only its
presence matters. A save with children is one step here, with the two ways it can
fail; its statements are in `StoreCascade`. The environment fails store calls, drops handlers
and crashes, each a bounded number of times. The history variable is
`reader[p].seenActive`; `sent[r]` keeps all events, which a receiver needs anyway.

**ReviewRecord** knows a status and a number of results for each review: it starts, collects
results, completes with a result behind it, or fails, and a failure may be overwritten by a
completion and the other way round, because the code allows both. `ReviewLifecycle` maps the rows
onto it (`Record`, by INSTANCE ... WITH).

**ReviewStream.** `conn[c]` is an EventSource and the handler that serves it:
`StreamCheckActive`, then `Subscribe` (404 without a channel) or `StreamLoad` and the
reconciliation, answered with one event (`OneShot`). `Receive` is the ring of
`tokio::sync::broadcast`: the cursor jumps to the oldest event still held. `StreamEnds` is
the end of the last sender, after which the browser reconnects. `poll[c]` is the
two-second poll; a page whose own poll declared the review failed and could not store it is "misled". `Progress` publishes the agents' events.

**LivePanes.** `said` is what was published, by agents and of the pull requests of the review (`Marks`: each of a benchmark announces its own start and
end on the one channel while the agents of the others go on), `tab` the page with its cursor in it; `Lag` and `BreakConnection` skip what the code loses,
and `skipped` remembers it. Text is the list of its chunks. Whether the page leaves after an ending depends on the stored row, so it may or may not.

**Panel.** `Spawn` picks the panel as `get_agents_for_diff` does, including its
generalist; `CompletionEnds` and `AgentFinished` are the two steps in which a completion is
recorded and announced; `End` lets the stream return an output, an error or a panic;
`Join` takes one task; `Return` is the end of `evaluate`: `returned` is all findings and sessions, or nothing but the message of the errors. The history
`ended` is how each task ended.

**AgentStream, Transcript.** One action for each kind of stream item. Text is the set of the
numbers of its chunks, so that "once and in order" can be stated without strings. Which calls rig has
in progress is the environment (`call`, `Open`); `SideBySide` says whether it may
interleave two. `Finish` flushes pending text and drops a tool call that is open, as after a stream that broke. `Transcript` reads the rows back in other orders, and parses what a tool said
as `RoleMessage::from` does.

**DiffSections** reads a diff line by line (`ReadHeader`, `ReadLine`, `ReadEnd`), then drops files and asks for
its size. A header carries what its paths say; `parses` is false for those git quotes.

**PromptLibrary, RuleFiles.** A template is the set of names it mentions, a rule file the sequence of
its pieces. One section or template may be `broken`: with such a template `New` fails, such a section is inserted as it was written (`Raw`). A directory
has entries that cannot be read beside files that cannot. `RenderSection` takes the sections in any order; `LoadFromDir` reads the files as the directory
gives them; `WritePiece` writes a file in every way its pieces can be ordered.

**ToolCalls.** `reader` pages through a file as the note of `read_file` tells it to; `command[q]` is a process
and the answer to its call, which `TimeoutElapsed` separates.

**Findings.** `input` is what the agents were joined with. `groups` is emptied in any
order, as a `HashMap` is. Texts are their length, the patterns they match and the texts
they resemble (any symmetric relation). `results[k].from` is a history of the merges.

**Scoring.** A finding is its place in the sorted pool; `overlap` is any relation. `MatchGolden` is one turn of the
loop, `JoinVerdict` one result of the `JoinSet` of judges.

**StoreCascade.** `todo[w]` is the list of statements a save still has to execute, in
the order in which `build_save_function` emits them; a page load (`load[p]`) reads row,
sessions, turns and messages in separate statements. Keys are positions in a table;
`parent[w]` is `__parent_pk`.

**RowMapping.** `Entities` describes the derived structs; `ToRow` and `FromRow` do with a field what the macro
does with its attributes, `ToColumns` and `FromColumns` what the flatten derives do with an enum, including a leaf no column is declared for, as the repository of a `Commit`. The values are saved by
the job, by recovery and by reconciliation, which save what they loaded.

**Migrations.** The schema is the set of migrations whose effect it has. `Inspect`,
`Change` and `Record` are the steps of a migration, between which other processes run
and any may die.

**ResponseCache, BenchmarkAssets.** Files are "none", "part" or "whole", and every
step of `fs::write` or of a git command that others can see is an action. `Die` and `Killed` stop a process
between any two. A cached answer is its blocks, in the file of its key (`FileOf`), and a load takes whatever parses; `asked` remembers which key an answer was
computed for, `hit` the last hit, `troubled` the keys two callers met at or one could not store.

**ModelCatalog.** `save[w]` is a `set_allowed_models` under way, one statement at a time; `page[a]` holds the signals of
`ModelsSection`, with its two resources on their way. The history `last` is whose save cleared the table and what may be put there since.

**LaunchForm, Datasets.** `form` holds the signals of either form, `stored` what the browser keeps, `frame` what
`restore_signal` will set on the next animation frame, `asked` the list on its way. Any selection may have been stored, with the library of its day; the
history `inherited` is which pairs that exclude each other came with it and were not parted since. A dataset is its files and their entries.

**LogTail.** A file is the lengths of its lines; `Tick` looks at the length, `Read` reads to the end that is there by
then, `Rotate` is the daily file. `Chunk` cuts lines anywhere. `BreakLog` breaks a connection and `Connect` opens it again for the same page, at the size the
file has by then; `missed` is what was written in between. `Disconnect` closes the page.

**Dashboard.** `answers` are the `list_reviews` calls on their way with the key they were asked with, the rows
they read, and those still to be reconciled: `ListReconciles` and `DetailReconciles` find a review active, store that it failed, or answer so without storing
it (`unstored`). The reviews behind them take the steps of `ReviewRecord`.

Each property has a *mutant*: an operator beside the real one that changes it as a
plausible mistake would (`EnsureUnchecked`, `ClearNothing`, ...). Replacing the
operator by its mutant makes TLC report that property; they are listed under `mutants`.

## 3. Runs, bounds and fairness

| Run | cfg | Instance | States | Shows |
|---|---|---|---|---|
| `lifecycle` | `Lifecycle.cfg` | a review and a benchmark of up to 2 PRs, 1 page load, 3 store errors, 1 drop, 1 restart | 1.7 M | safety of rows, results, maps and announcements; the refinement of `ReviewRecord` |
| `lifecycle_live` | `LifecycleLive.cfg` | the same, 1 PR, 1 error, no drop | 193 k | reviews end and leave the maps |
| `stream` | `Stream.cfg` | one review, one page, a ring of 1, 2 progress events, 2 errors, 1 restart | 157 k | pages are told, and leave, for ends that are stored |
| `evaluation` | `Evaluation.cfg` | every part of an evaluation, see below | 1.1 M | transcripts, panel, findings, diff, scores, tools, prompts and rules are whole |
| `storage` | `Storage.cfg` | migrations, cascades, rows, cached answers, assets | 2.3 M | what outlives the process is whole |
| `console` | `Console.cfg` | every page and what it reads | 916 k | pages show what is, and launch what they show |
| `late_subscriber` | `StreamLate.cfg` | one review, one page, no failures | | finding 1 |
| `agent_parallel` | `AgentParallel.cfg` | 2 calls side by side | | finding 2 |
| `cascade_agents` | `CascadeAgents.cfg` | 1 review with 2 agents | | finding 3 |
| `findings_multi_agent` | `FindingsMultiAgent.cfg` | 2 findings of 2 agents | | finding 4 |
| `allowlist_transaction` | `AllowlistTransaction.cfg` | 1 client, 2 models, no failure | | finding 5 |
| `row_metadata` | `RowMetadata.cfg` | the entities of `riv-types`, 2 texts | | finding 6 |

`Evaluation`, `Storage` and `Console` put parts that share no variable (but for the stored reviews behind the overview and the detail page) into one run. A
behaviour of the run is a behaviour of one part, which its initial state chooses. So nothing of a part
is multiplied by another, and each property is about one part or is the conjunction of what
the parts named after it promise.

Why these bounds.

*Lifecycle*: the two reviews are of the two kinds and meet in the maps
and in one load of all running rows; three store errors are what a failure
announced and then stored as a completion takes (`AnnouncedFailureStands` names that case as
its exception, and with two errors it would never arise); one drop and one restart can fall between any two steps.
Two pull requests let one succeed, one fail, and a save stop between two results.

*Stream*: a ring of one is the harshest lag; two progress events and the final one overrun it.

*Evaluation*, by part. Agent and transcript: 2 calls of 5 chunks in all, so that text comes before, between and
after them. Panel: 3 agents of whom one is the generalist, 3 completions, every selection: one agent of each
outcome. Findings: 3 of them, cut at 2; three findings without a file are the smallest case of a
greedy merge that takes the middle one first, and with a cut of two the order of the groups matters.
Diff: 7 lines and 2 headers, sections of either side of the limits (1 file, 3 lines), 2 filters. Scores: 2 findings
against 2 golden comments, where the wrong one can be removed. Tools: 2 commands, one of which times out while the other
runs; a file of 4 lines in pages of at least 2, offsets at its start, inside and past its end, and one edit between two pages.
Prompts: 2 agent files, 2 sections, every order, and one broken section or template. Rules: 2 files of up to 4 pieces, good and broken patterns.

*Storage*, by part. Migrations: 2 processes race, and 2 crashes hit both or one twice, on files of every version. Cascade: 2 reviews
of 2 agents with one turn interleave inserts into one table, which is where a key could be confused; one load and one error fall
anywhere. Rows: every entity with every variant of its enums, 2 texts. Cache: 2 callers of 2 keys, who meet in a file or use one each, and 3 answers
of two lengths, so that one can be overwritten by a shorter one. Assets: 2 benchmarks of one dataset, with 1 kill.

*Console*, by part. Catalog: 2 models, an administrator with a page and a client beside it, 1 store error, pages of 1, so that there is a second page. Form:
2 targets and 3 roles, of which two exclude each other, and any of them stored before, with one that is gone. Log: lines of 1 and 3 bytes read in chunks of 2, so that lines are shorter
than a chunk, longer, and cut by it; 2 of 3 lines read back; 2 files; connections break at any time. Dashboard: 2 reviews, 2 refreshes (an answer can be late once and
overtaken once), 1 result; the overview and the detail
page run apart, because they meet in the store only, and that moves as freely without the other; the run is symmetric in the reviews, which no page tells
apart. Panes: 2 speakers, of whom 1 is listed when the page opens, 3 events in a channel of 2.

Deadlock checking is off everywhere: every instance has a bounded number of reviews,
errors and events, and stops when they are used up, as the real processes idle. What
must not get stuck is stated by the liveness properties instead.

Fairness. Spawned tasks and started handlers go on (`TaskFairness`): tokio polls
what is ready, and no step of the task waits for a client. An evaluation is taken to end, in `ReviewLifecycle` as in `Panel` (`PanelReturns`).
The code sets no timeout on a model stream, so this is an assumption on the providers; without it
`EventuallyTerminal` and `EventuallyUnregistered` fail. `ReaderFairness` says that some page
or list is loaded again and again, and it is needed only because after a restart
nothing else looks at a row. `EventuallyTold` assumes that browsers reconnect and the
handlers go on, and nothing of the poll; `EventuallyLeft` adds the two-second timer
(`TimerFires`). Nothing assumes that a review is started, a call succeeds or a crash
happens. Liveness is checked without dropped start handlers: such a
handler leaves map entries that nothing removes (`ExitIsKnown` speaks of jobs only, and the proved
`RegistryIsOwned` has the dropped handler as its exception), and its review looks active until the next restart.

## 4. What is proved

For all values of the constants, with the assumptions the modules state:

| Module | Theorem | Property |
|---|---|---|
| `ReviewLifecycle_proofs` | `TypeCorrect` | `TypeOK` |
| | `Registered` | `WorkingJobIsRegistered` |
| | `BackedCompletion` | `CompletedIsBacked` |
| | `ConsistentRows` | `RowIsConsistent` |
| | `SparesSeenJobs` | `ReconcileSparesSeenJobs` |
| | `TerminalStays` | `TerminalIsFinal` |
| `ReviewOutcome_proofs` | `OwnedRegistry` | `RegistryIsOwned` |
| | `KnownExit` | `ExitIsKnown` |
| | `FailureStands` | `AnnouncedFailureStands` |
| | `RecordImplemented` | `ImplementsReviewRecord` |
| `ReviewStream_proofs` | `PagesLeaveForEndedReviews` | `LeftMeansStored` |
| | `LagKeepsTheEnd` | `LastEventReachesSubscribers` |
| | `PagesSpareTheServer`, `PagesKeepTheEnd` | what holds of the server alone holds beside the pages |
| `AgentStream_proofs` | `BuilderTypes` | `TypeOK` |
| | `TranscriptOrdered` | `SessionIsNumbered` |
| | `ToolMessagesHold` | `ToolMessagesMatch`, for calls one at a time |
| | `TranscriptStaysWhole` | `TranscriptIsWhole`, for calls one at a time |
| | `NothingIsLostOrMoved`, `PageShowsTheStream` | its parts; the second also for calls side by side |
| `Console_proofs` | `SavesDoNotMix`, `CatalogStaysWhole` | `LastClearStands`; all of `CatalogIsWhole` |
| | `LaunchesAgree` | `FormAgrees` |
| | `NoLineIsMissed` | `LogIsWhole` |
| | `ShownStays`, `DetailHasResults` | `ShownNeverGoesBack`, `DetailIsBacked` |
| | `PanesAreTheirAgents` | `PaneIsItsAgents` |
| | `ConsoleIsItsParts`, `ConsoleIsWhole` | a behaviour of `Console` is one of each part, so these properties hold of `ConsoleSpec` |
| | `ConsoleTypes` | `ConsoleTypeOK` |
| `Storage_proofs` | `NoVersionAhead` | `RecordedIsApplied` |
| | `OpenedStoreIsCurrent` | `OpenIsMigrated` |
| | `FailureNeedsARace` | `FailsOnlyBehind` |
| | `CascadeStaysWhole` | `CascadeIsWhole` |
| | `RowsHangTogether`, `LoadsAreWhole`, `TornLoadsDouble` | its parts: `MessagesUnderTheirTurn`, `ParentsFirst`; `LoadIsWhole`; `DoubledByTornLoads` |
| | `RowsReadBack` | `RowIsWhole` |
| | `CacheStaysSound` | `CacheIsSound` |
| | `HalvesAreExcused` | `AssetsAreReady` |
| | `StorageTypes` | `StorageTypeOK` |
| | `StorageIsItsParts`, `StorageIsWhole` | all of these hold of `StorageSpec` |
| `Evaluation_proofs` | `ReturnsWhole` | `ReturnIsWhole` |
| | `MergeIsSound` | `FindingsAreSound` |
| | `DiffStaysWhole` | `DiffIsWhole` |
| | `ToolsAreTruthful` | `ToolsTellTheTruth` |
| | `PromptsAreWhole` | `PromptIsWhole` |
| | `RulesStayWhole` | `RulesAreWhole` |
| | `ScoresAreWhole` | `ScoreIsWhole` |
| | `EvaluationTypes` | `EvaluationTypeOK` |
| | `EvaluationIsItsParts`, `EvaluationIsWhole` | all of these, and those of the transcript, hold of `EvaluationSpec`, for calls one at a time |

So every safety invariant and every action property of a run that passes is stated by a theorem.

The assumptions are those of the modules: what a constant is, and which sets are finite. Those that are more than a type: a library, the
open pull requests, the reasoning efforts, the entries of a dataset and what is selected of them are finite sequences, as they are vectors in
the code (`FormAssumption`, `DatasetAssumption`, `AssetsAssumption`); `Unset` is no set of identifiers, and there are finitely many models
(`CatalogAssumption`); there are finitely many file filters, an array in the code (`DiffAssumption`), and agents in the library
(`PanelAssumption`); the tasks of reviews and the page loads are different writers, and there are finitely many loads (`CascadeAssumption`);
a NULL is not a text, a number or a blob, as its column says which it holds (`RowAssumption`).

*ReviewLifecycle.* The properties are not inductive. `CompletedIsBacked` needs to know
that a completed row is written after the last result (`Backed`) and that
results and counters move together (`JobCounts`); that needs the order of the steps (`Phases`: where the handler and
the task are determines the maps, and a task exists only once its handler is done). `TerminalIsFinal`
needs that a load never holds a review without a row (`Loaded`), since it writes a row for whatever it
holds. `ReconcileSparesSeenJobs` needs that whoever left the active list did so through the
task's own first step of unregistering (`Seen`); here it matters that a restart
forgets the loads with the maps. `IInv` is the conjunction; each part has one lemma with one
step per action, and the theorems follow from `Invariance`.

*ReviewOutcome.* What a job will leave behind depends on where its recovery is and which store errors
happened on the way; the invariant says this for every position of the task, on top of `IInv`. For the refinement, `RecordImplemented` maps the
initial states and takes the actions one by one: each changes no row, or is one of the steps of `ReviewRecord`
for the one review it writes, or, where a benchmark saves results, adds some of them.

*ReviewStream.* The pages add two writers to the store, the reconciliations of the stream and of the poll. Every step of theirs does to
the server one of three things (an agent's event, a failed load, a save of what was loaded), and each keeps `IInv`. `LeftMeansStored` has no exception for store errors, because a poll that
could not store its answer is told apart from one that could. `Abreast` says that a
subscriber which has consumed all there is has the last event: a lag puts the cursor on the oldest event that is still held, hence before the last.

*AgentStream.* `Indexed` (type and numbering) is inductive by itself. `Serial` adds that the
pending tool is the call in progress, with exactly the input streamed for it, and that a
stored tool message is of an answered call, to which nothing can be added. `Whole` says where every chunk streamed so far is (in a closed turn,
in the current one, or pending) and that those pending came after all that is held; flushing moves them to the end of what is held. The chunks that can be lost are those of the call that is pending when the stream ends (`Lost`), and none if it
ended with an output.

*Transcript.* Turns and messages are numbered by their places, so sorting by number puts rows that came in any order where they were
(`SortedMembers`: a sort has the same rows, and no two have the same number). Each turn is led by its prompt (`LedBy`), so the rank of the roles is their order too.
What the service makes of a message can be joined before or after (`FlattenMapped`), and the input of one call at a time is one document, which parses.

*Migrations.* `Prepared` says what a process relies on between two of its steps (the versions
below its own are recorded and applied). `Abreast` says that for a process nobody
overtook, what it saw is still so, which makes `AlterFails` and a refused `Record` impossible.

*StoreCascade.* A save is a list of statements of which no child has lost its parent (`Saves`), and the statement a writer is at has its
parent in the tables (`NextHasItsParent`): a message the turn that this writer inserted last, whatever others inserted in between. The list a
torn load saves is of the same kind, because a load has read the sessions before the turns (`LoadsAreTyped`). That the tables only grow keeps
all of it through the steps of the others.
For `LoadIsWhole` the tables are read as a load would read them (`Stored`): of a completed review whose save met no error, what is stored and what its
job still has to store are the transcript (`StoredSoFar`), and what a load that began after the save has read and what is still in its queue
are the transcript too (`LoadSees`). A turn more is the last one of its review and is read by nobody else (`TurnIsStored`, `TurnIsElsewhere`), a message
more is read with the last turn. Only the job of a review writes it while it runs (`JobsWrite`); a load that writes marks it as failed first (`LoadsMark`),
which is why `LoadIsWhole` excepts those.
For `DoubledByTornLoads`, the copies of a turn that are stored and those some writer may still store are one weight. It is at most one while the job
runs (`JobStoresOnce`). A load that has yet to read the turns can add what is stored by then, so it at most doubles the weight, and only once:
the bound is the number of sets of loads that are past that (`DoublingBounded`), which is the power the property states. A load that finds the row ended adds nothing (`NothingToDouble`).

*RowMapping.* The columns of an entity have different names, so each field is read from the column it was written to, also through the flattened enums, whose
variant is read from a column of its own. The proof goes through the entities and their variants. The invariant is that the row is that of the
value saved last (`RowKept`), whoever saved it, and that recovery and reconciliation save what reads back (`ReviewValues`).

*ResponseCache.* A file holds blocks of answers that were computed for its key, each at its place (`BlocksInPlace`), however many
callers write it over each other; that it holds no other's is because keys have files of their own. What parses is all blocks of one answer, hence a whole one of
that key. For `PaidOnce` a key without trouble has at most one caller at it, its last answer is in its file or on its way there (`OnceInv`), and a caller only
computes what its file does not have.

*BenchmarkAssets.* What is half made has a maker at it or a note in `short` (`HalvesHaveMakers`), although makers meet in one file and a kill
ends them all; and a benchmark reviews only once it makes nothing any more (`TasksComeLast`), so the maker is another one.

*Dashboard.* What an answer on its way read, and what is shown, is no newer than the store (`AnswersAreOld`), and only one question has the current key.
An answer to it was asked after everything that is shown was read; as `ReviewRecord` never leaves an end for a running state, the page
does not either, but for an end that was declared and not stored, which the invariants take out (`unstored`). `DetailIsBacked` needs that results only grow and that a completed row has one, hence the order of the two reads.

*ModelCatalog.* What is in the table, and what any save has yet to insert, is allowed by the last `Clear`, which is when that set is fixed.
The three views of the cache are built of one answer (`CacheIsBuilt`). That a pager shows every model of a search on exactly one page is
arithmetic: a place is in the page of its quotient, and the last page is not empty.

*LaunchForm.* What is shown, ticked or on its way is of the form's target (`FormIsOfOne`), or nothing is shown while a list is awaited
(`ListIsAwaited`). Select All is a recursive function over the library; its value is described role by role (`IsTaken`), from which
both that the taken roles get along and that none could be added follow. A click adds no role that excludes a selected one, so the pairs that do are among those
that were restored (`inherited`), and no step adds to these. A benchmark submits the entries of its dataset as they were listed.

*LogTail.* The ends of the lines of a file (`IsEnds`) grow, and every position of a connection is one of them (`IsPlace`).
`NoGap` says that what a page shows reaches from its first line to where its connection is, less what is in `missed`, which grows only when a broken connection
is opened again and by exactly the lines up to its new place. A rotation makes both statements about a file that is gone.

*LivePanes.* `PaneIsItsAgents` speaks of exactly the events its page got, that is up to its cursor and not `skipped`, and is inductive with the types; each kind of event
extends one of the lists, and endings extend none.

*Console, Storage, Evaluation.* Steps of one part leave the variables of the others alone, so every behaviour is one of each part, and what was proved of the
parts holds of the whole. The types of a part are kept with its invariant: they need that a pager never asks for a page after the last
(`TotalPages`), that no count of a panel exceeds the sum it is part of (`SumIsNoLess`), that no more findings are ungrouped than there are, and that sections
are cut from lines of the diff.

*Panel.* What an agent is counted with is what it announced, and one more while its task is between the two steps; outside `running` no task is
there; a session is taken only from a task that is not joined yet, and that step joins it. What was taken is of the tasks that ended so and are joined
(`TakenIsJoined`), hence of all of them when `Return` is reached.

*Findings.* The results so far stand for the findings taken so far (`TakenSoFar`), each by the richest of its group (`StandsFor`). Two groups without a file
start from findings that do not resemble each other (`SeedsApart`), because whatever resembled an earlier one was taken with it (`SeedsAhead`); that the order
of the groups is any order does not matter. Severities are compared with the ones they had when the merge ended (`Lowers`).

*DiffSections.* While a diff is read every header but the last has its section, in order, each ended by the next header (`Cutting`); a line more ends
nothing that was not over. That files and counts add up is a sum over the filters of the parts of a finite set (`SumOfParts`). That no changed line is stripped is
an induction along the lines (`Stripped`): what was read is out or in the hunk, in order, and of a hunk that is flushed all between its first and last change stays.

*ToolCalls, PromptLibrary, RuleFiles, Scoring.* The pages read so far are the lines from the first that was asked for to the one before the next
offset (`PagesJoin`), unless the file was edited. A prompt's sections see the given variables and the base only, never each other
(`ContextIsBase`), so any order gives the same context. The rules loaded are the good files, in their order, and what is shown is `PreambleFor` the paths
that were asked about. Because the loop removes the front of the pool, whatever finding matched, what is matched is numbered from 1 and what is left follows it; the
golden comments before the one whose turn it is are matched or missed, and no two (`PoolInTurn`).

*Data.* What a recursive definition computes is proved where an invariant needs it. Induction over numbers is stated about a set instead of a predicate (a set that holds 0 and the successors
of its members holds all numbers, `SetInduction`), and an invariant of a loop becomes such a set. The folds of the community modules
choose a function that satisfies an equation; `FlattenSteps`, `FiniteInduction` and `RecursionOverSets` show that there is one, and what it is follows.
Filters are `Picked`, the places that stay, because the community modules' filter is a recursive operator; `PickedPlaces` says that these
places are there, each once and in order, and the lemmas about members, length and order follow from it. `SortedBy` puts at each place the row that
as many rows come before.

Only model-checked:

* the liveness properties (`EventuallyTerminal`, `EventuallyUnregistered`, `EventuallyTold`, `EventuallyLeft`, `PanelReturns`): TLAPS has no
  reasoning about fairness and ENABLED here;
* what is false of calls side by side, which the run `agent_parallel` shows.

## 5. Where the code and its documents disagree

Six disagreements have a run that shows them:

1. **`late_subscriber`** (`riv-webui-backend/src/routes/api/reviews.rs:212`). The comment says the recheck "closes the race
   where the review fails/completes before a late subscriber registers". The active list is
   read before the subscription and a review stays active after its last event: a subscriber
   in between hears nothing. It recovers by reconnecting (`EventuallyTold`).
2. **`agent_parallel`** (`riv-agents/src/session.rs:83`). One pending tool, without its id: of two calls side
   by side the first gets the second's name and input, and the last result is dropped.
3. **`cascade_agents`** (`riv-agents/src/lib.rs:124`). All agents of a panel store their session
   under the id of the review; the second updates the row of the first.
4. **`findings_multi_agent`** (`riv-auditor/src/lib.rs:30`). The merge counts agents in
   `cross_validated_by`, the auditor reads `agent_count`: a Critical finding of two agents is downgraded.
5. **`allowlist_transaction`** (`riv-webui-backend/src/services.rs:376`). The comment promises a single transaction; the table is
   cleared and filled a statement at a time. `LastClearStands` is what does hold.
6. **`row_metadata`** (`riv-macros/src/stor.rs:646`). A loaded `Review` always has plain metadata, whatever variant was saved.

Seen while modelling, contained in the models or next to them, without a run of their own:

*Lifecycle and live page*

* A load that read a running row can reconcile it after the review has finished, and
  overwrites a completed row with "Review was not active on the server at the time it was
  loaded" (`services.rs:1099`). `ReconcileSparesSeenJobs` says how far this goes: never while the job works.
* A load torn between the running row and the final sessions saves the sessions again, and their
  turns twice (`services.rs:1104`). `DoubledByTornLoads` says how far this goes: each load that was under way when the row ended can double
  them, later ones cannot, and the row says failed.
* A client that is answered from the store while the review registers gets `ReviewFailed` for a running row (`reviews.rs:169`).
* `list_reviews` and `get_review` answer Failed for a review they found abandoned even when that could not be stored, which is a warning (`services.rs:1104`).
  The next answer says Running again, and a live page whose poll got such an answer has left. `ShownNeverGoesBack` and `LeftMeansStored` name these cases.
* Each pull request of a benchmark publishes `ReviewCompleted` on the channel of the review (`pipeline.rs:54`), so the badge of the live page says Completed
  while others go on, and the panes of an agent mix the pull requests.
* `AgentStarted` is never published, so a pane stays Pending; `AgentFinished` is published per completion, not per agent.
  A page opened before the agents are registered has no panes. Thinking hides the response in `AgentPaneContent`.

*Panel, agents and tools*

* `stream_agent_inner` "always returns the built (possibly partial)" session "so callers can persist it" (`riv-agents/src/lib.rs:108`). With one error `evaluate`
  returns the message and drops every session and finding of the panel (`pipeline.rs:45-52`), and the failed review is stored with none (`services.rs:766`).
  `AllOrErrors` says so.
* A panicked agent is only logged (`pipeline.rs:143`): nothing of it is returned and the review completes without it.
* A stream that breaks while a tool call is open loses the name and the input of that call: `finish` does not store the pending tool (`session.rs:145-155`).
* A small diff is reviewed by the library's generalist even when it was not selected, although the log
  announces the full panel (`adaptive.rs:61-68`); a large diff with only generalists selected is reviewed by nobody.
* The count of changed lines takes the `---` and `+++` lines of a file for changes; the check for full-panel languages reads the raw diff, not
  the filtered one; `strip_diff_metadata` has no caller.
* `AnalyticsTracker::record` never adds `tool_use_count` (`riv-reporting/src/cost.rs:84`), and tools record usage under the id of the review.
* `SessionBuilder` stores the output of a tool as plain text, where `riv-types/src/agent.rs:59` says it is a JSON string; `RoleMessage::from` drops what
  does not parse.
* The section `max_findings.hbs` mentions its own variable; without it the prompt says "You must not exceed  findings". A missing
  `agent.hbs` is an error of `render`, although `new` documents it as its own. A second agent file of one abbreviation silently replaces the first.
* `read_file` raises `max_lines` to at least 50. A timed out `shell` or `grep` leaves its process running; the text of `grep` says 30 s, the code waits 8 s.
* A rule file is split at the first `---` anywhere, not at delimiter lines; a markdown file that starts with a horizontal rule is skipped as malformed;
  a rule with frontmatter but neither globs nor `always_apply` never applies.

*Findings and scores*

* The cut at `DEFAULT_MAX_FINDINGS` keeps the first findings of an order a `HashMap` chose; the richest finding of a
  group decides its severity, so a group can lose a Critical one to a longer Low one. `severity_audit_reason` names the new severity twice. When several inflated
  categories match, the first of the table decides.
* `run_consensus_post` removes the first finding of the pool, not the one that matched (`riv-consensus/src/pipeline.rs:67-71`).

*Storage*

* The repository root of a `Commit` has no column: the variant declares `commit_hash` only (`riv-types/src/review.rs:91,119-128`), and a leaf without a column
  is dropped (`riv-macros/src/flatten.rs:536-541`). `RowIsWhole` is about the rest (`Kept`).
* `run_migrations` calls itself idempotent and gated (`migration/mod.rs:64,138`); two processes at once can
  both pass the gate, and the slower one fails. `FailsOnlyBehind` is what does hold.
* A diff file cut short, or empty, is never extracted again; `fetch_pr_diff` ignores the status of the HTTP answer. `AssetsAreReady` says when a
  review can meet such a file: after a kill, or while another benchmark is making it.
* An unreadable dataset counts as one without pull requests and is listed last; two entries of one URL both run.

*Log stream*

* What was appended between the length and the read is sent twice (`admin.rs:172-181`). The initial text of the page overwrites chunks that came
  before it, and what is written between its two reads is in neither. A connection that breaks is
  opened again by the browser and starts at the size of the file (`sse.rs:76`, `admin.rs:142`), so what was written meanwhile is missing from the page; so is the
  rest of a file that was replaced before it was read. `LogIsWhole` names the races it excepts.

*Launch forms*

* Stored roles are restored without a look at the library (`new_review.rs:147-149`, `storage.rs:48-60`), and neither start handler checks them against each
  other (`services.rs:1128-1162`): roles that exclude each other today can be launched if they were stored before. `RolesGetAlong` says that this is the only way.

## 6. What is not modelled

* The content of prompts, diffs, rules, patterns, similarity and pages beyond what the properties tell apart: which pattern matches, which
  texts resemble each other and what a model answers are data. The languages and frameworks of `riv-rules/src/matcher.rs`, the cost table,
  the history file and the tables of `riv-reporting`, the layout of tool listings and of pages are left out.
* `riv-benchmark/src/main.rs` uses names that are not declared at this commit; there is no program to model. `pr.rs` calls the API of a forge.
* `riv-tools/src/budget.rs`, the git tools and the linters are not registered by `build_tool_server`.
* The deletes of `SqliteStore` and of the derived entities have no caller outside tests.
* Authentication is an insert into a map of the process and a lookup in it.
* The `cached` and route macros, the hashing of cache keys and the markup are generated or stateless.
* rig, tokio, SQLite, git, the browser: modelled from how the code uses them, marked external in `map`.

## 7. Plan

Done: the lifecycle with `ReviewRecord` and its refinement, the live page, the parts of an evaluation, the storage and what else lies on
disk, the pages; proofs of every safety property of the runs that pass.

Left, by importance:

1. `StoreCascade` as the refinement of the saves and loads of `ReviewLifecycle`, statement by statement.
2. `Panel` with `AgentStream` for its tasks and `Findings` behind it in one behaviour, once the consensus and a `RuleSet` are wired into `evaluate`.
3. The deletes of the store and the call budget of the tools, once something calls them.
