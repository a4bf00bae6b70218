# Verification of AIOS Intelligence Monitor

TLA+ specifications of the parts of AIOS Intelligence Monitor that run
concurrently, fail half way or must not misreport what they did; the TLC
instances that check them; and machine-checked proofs, for every size of the instance,
about eight of those parts. Every definition is translated from the Python source. `PROJECT.json` maps each
one to its lines, and each property to a mistake in the code that it catches.

Paths are relative to `src/aios/` unless they start with `src/`.

## 1. Inventory

AIOS is a single-user web application. One FastAPI process serves pages, a
background scheduler starts daily runs, one worker thread executes runs, and
SQLite (WAL, one writer) holds everything that survives. A *run* is a row of
`monitoring_runs`. In Classic mode it executes `MonitoringPipeline`, in Simple
mode `ResearchPipeline`.

```
 routers (event loop and thread pool)   APScheduler thread
   | start_run / cancel                    | _scheduled_job
   v                                       v
 RunManager: _lock, one slot, ThreadPoolExecutor(max_workers=1)
   |  _execute (worker thread)
   +--> MonitoringPipeline --> CollectionPlanner --> collectors, limiter, breaker
   |        |                      (thread pool)     QueryCache (process-wide)
   |        +--> IntelligenceAnalyzer, EventMatcher --> LLM providers
   +--> ResearchPipeline --> ResearchAgent, EventMatcher
            |
            v
        SQLite rows, exported HTML and JSON files
```

| Component (source) | State | Operations | Hard behaviour | Correct when |
| --- | --- | --- | --- | --- |
| Run manager (`services/run_manager.py`, `repositories/runs.py`, `app.py` lifespan) | the slot `_current_run_id`, `_cancel_flags`, `_futures`; the run rows | `start_run`, `_execute`, `cancel`, `shutdown`, `reset_stale_runs` | request threads, worker and shutdown interleave; a crash leaves rows behind; a transaction of the worker fails | rows keep their life cycle, one run at most is active, the slot is freed, a stop is obeyed |
| Research pipeline (`services/research_pipeline.py`) | the run's row; articles, events, observations, evidence, report | `execute`, `_persist`, `_record_event`, `_publish`, `_finish` | one transaction per checkpoint; topic or report deleted meanwhile; an event or a file fails; the process dies | each claim has evidence, counts are true, cancelled and failed runs publish nothing |
| Classic pipeline (`services/pipeline.py`, `services/report_generator.py`) | run and module rows, section payloads, coverage | `execute`, `_run_module` and its stages, `_finish` | each failure degrades its own branch; a stop between any two steps | "no news" never hides "could not look"; a failed module costs no other module's items |
| Collection planner and query cache (`services/collection_planner.py`) | outcomes per query of the run; answers across runs | `collect_topic`, `collect_query`, cache `get`/`put` | several threads, check then act, reuse of earlier answers | a topic's status says what its sources said |
| Collectors, limiter, breaker, health (`services/collector.py`, `net_policy.py`, `source_health.py`) | semaphore, failure count, counters, feed cache | `fetch`, `slot`, `record_success`, `record_failure`, `record` | late answers, retries, half-open breakers | slots come back, the breaker refuses at its threshold, counters and outcomes agree |
| Scheduler (`services/scheduler.py`) | the APScheduler job table | `start`, `reload`, `_install_research_jobs`, the two job functions | overlapping `reload`s, stale reads, jobs lost with the process | each scheduled topic has its job, a stale job does nothing |
| Event identity and matching (`services/event_identity.py`, `event_matcher.py`, `repositories/events.py`) | events and observations of a topic or module | shortlist, identity, rule and model decision, creation and merging of identities | a story comes back in other words, types and pages; the order of a Python set decides a type | a merge rests on more than the company; one event is not recorded under two keys |
| Research topics (`repositories/research_topics.py`, `services/research_topic_service.py`, `routers/simple.py`) | brief, revisions, schedule, active topic | create, refine, edit, revise, schedule, load | coroutine handlers hold SQLite's write lock while the event loop stands still; a brief is read, the model asked, the brief written | no edit lost, each revision readable, no request waits for itself |
| Research agents (`services/research/`, `schemas/research.py`) | one research pass | resolve, build, search, collect, analyse, validate | settings change during a pass; a source number is used twice; collection fails in part | evidence resolves to pages; a verdict is never better than the collection; the stored engine is obeyed |
| LLM layer (`services/llm/`) | usage rows | `generate_json`, retry, repair, routing | a repair and a delay spend from one budget | attempts bounded, each call recorded |
| Providers and keyring (`services/keyring_service.py`, `provider_migration.py`, `routers/providers.py`, `repositories/providers.py`) | vault, rows with its mirror, task routes, stored engine | add, key, un-key, switch, route, delete, migrate, reconcile | two stores, no common transaction; a vault that swallows errors; two requests at once | the mirror agrees with the vault; one default; an engine shown as ready can run |
| Monitoring configuration and drafts (`services/config_generator.py`, `config_diagnostics.py`, `seed.py`, `routers/config_ai.py`, `routers/monitoring.py`) | modules, topics, queries; the open preview | forms, generate, preview, apply, seed, diagnose | a draft ages while it is reviewed and is cleaned and cut again when posted; commits fail half way | a draft is applied whole or not at all, and as it was shown; the editor says what the run will do |
| Report rendering and diff (`services/report_generator.py`, `diff_engine.py`, `simple_views.py`) | files keyed by date; reports | render, export, compare, changes page, timeline | reports of one day, failed and deleted runs move the baseline | labels, groups and timelines tell one story |
| Network service (`services/network_service.py`) | mode, proxies, feeds | probe, apply the policy | a probe opens a breaker before anything was asked | see Collection |
| Importer and backup, database and migrations, startup service, web pages and settings, legacy script | see `PROJECT.json` | | | |

The 40 hazards of `PROJECT.json` name the lines at which these can go wrong.
Those without a property say why none is stated; most are behaviours the code
really has, which section 3 lists under "Disagreements found" and section 5 under "Known".

## 2. Modules

| Module | Models | Checked by |
| --- | --- | --- |
| `RunLifecycle` | abstract: what readers of the run rows rely on | refined by `RunManager` |
| `RunManager` | run manager, start-up and shutdown, the pipelines' entry, checkpoints and `_finish` | `MCRunManager` |
| `ResearchPipeline` | one Research Agent run | `MCResearchPipeline` |
| `ClassicPipeline` | one Classic run | `MCClassicPipeline` |
| `Collection` | planner, cache, collectors, limiter, breaker, health of one run, probes | `MCCollection` |
| `Scheduler` | the job table and its rebuilding | `MCScheduler` |
| `TopicHistory` | abstract: what readers of a research topic rely on | refined by `ResearchTopics` |
| `ResearchTopics` | the requests on research topics, sessions, event loop, write lock | `MCResearchTopics` |
| `Selection` | list comprehensions, slices, loops over lists of lists: pure operators | through `Agents`, `Storylines`, `Monitoring` |
| `EventIdentity`, `EventMatcher` | `compare_identity`, shortlist, decision: pure operators | through `Storylines` |
| `ReportDiff` | `compare_reports`, baseline, changes page, timeline: pure operators | through `Storylines` |
| `Storylines` | the memory of one topic or module over several days and runs | `MCStorylines` |
| `Engine` | what is decided from the provider rows: default, route, agent, readiness | through `Providers`, `Agents` |
| `Providers` | the requests on provider settings, the vault, start-up | `MCProviders` |
| `ResearchResult` | coercion and validation of a model's answer: pure operators | through `Agents` |
| `Agents` | one research pass, its calls, retries and usage records | `MCAgents` |
| `DraftConfig` | coercion, cleaning, budgets and key of a draft: pure operators | through `Monitoring` |
| `Monitoring` | forms, drafts, seeding and diagnostics of the monitoring configuration | `MCMonitoring` |
| `RunManagerProofs`, `ResearchPipelineProofs`, `ClassicPipelineProofs`, `CollectionProofs`, `ResearchTopicsProofs`, `ProvidersProofs`, `AgentsProofs` | the theorems about each of these modules | TLAPS |
| `SurroundingsProofs` | the theorems about `Scheduler`, `Storylines` and `Monitoring`: what surrounds a run | TLAPS |

The modules meet at the interfaces of the code. `RunManager` sees a pipeline as
stages (dispatch, working, tail, unwinding, crashed). The two pipeline modules open
those up for a single run. `ClassicPipeline` sees the collection of a topic as a
choice of which sources answered and which failed, and `Collection` opens that up.
`ResearchPipeline` sees the agent and the matcher as choices: `Agents` opens up the first,
`Storylines` the second, over the events of many runs. `Scheduler` sees the run manager as a
slot that is busy or free. `Engine` is the
one reading of the provider rows that `Providers` (which changes them) and `Agents` (which runs on
them) share.

A definition whose comment calls it a mistake, a slip or a defect is a mutated form of the
definition that follows it. No specification uses it: it shows that a property notices
one plausible bug.

### RunManager

A process has request and scheduler threads, one worker thread and the thread of
`lifespan`. `starting[p]` is both `_lock` (held through `start_run`) and the row
that was committed. `current`, `flag` and `future` are `_current_run_id`,
`_cancel_flags` and `_futures`. `rows`, `status` and `cancelReq` are the table.
`StartCommit` and `StartSubmit` are the two halves of `start_run`; `Take`, `Begin`,
`Checkpoint`, `FinishEarly`, `FinishCancelled`, `FinishTail`, `Raise`, `Handle`, `Release` and `Return` are
`_execute` with what it drives; `CancelFlag`, `CancelRead` and `CancelWrite` are
`cancel`; `Boot`, `ShutdownFlags`, `ShutdownExecutor`, `Exit` and `Crash` are the
process. A step is one critical section or one transaction. `lost` is a history variable: a
transaction of a worker has raised. What the code promises only of a database that works is stated
under `~lost`.

### ResearchPipeline

A program counter follows `execute`. The answer of the agent, the event the matcher
picks and the failures in `Faults` are choices. Cancellation, deletion of the topic,
deletion of the report and death of the process happen between any two steps.
`struck` remembers that storage failed or the process died, because then a report that
was committed before the failure stays.

### ClassicPipeline

A program counter follows `execute` and `_run_module`. Each topic has a collection
status and a stage (where its articles got to), each module a row and a section. The
checkpoints of `_check_cancel` are where the code has them: none stands behind the
last candidate of a module. Candidates are cut at twice `MaxReportItems` before
matching and at `MaxReportItems` after, as in `_match_and_record`.

### Collection

A query is a future of the thread pool and walks through memory, cache, breaker,
slot, answer, breaker, counters and memory again. A source to be searched is tried up to
`MaxAttempts` times; the RSS source reads its feeds one by one through a feed cache.
`breaker[s].over` says that `reset_after` has passed. Counters are reduced to which
of them are not zero, which is what `derive_state` looks at. `Probed` and `Tripped` are the probes of
`probe_sources` and the breakers `apply_mode_policy` opens for sources that did not answer them,
before the first query. How long a pause lasts, how
a feed is parsed, and which entries match a query are not modelled.

### Scheduler

`reload` is read, clear, list, and one installation per topic and for the Classic
job, by any number of request threads and the boot thread. `firing` follows the two
job functions. Times are two accepted values and one text that `parse_hhmm` refuses.
Triggers and the calendar are APScheduler's: a job may fire at any time.

### ResearchTopics

A request is a program counter and a `job`. Coroutine handlers (`create`, `edit`, `refine`,
`revise`) hold `loop`, for they await nothing once the form is read; pooled ones (`schedule`, `load`) do not. The
first flush takes `lock`, SQLite's write lock, and copies `db` into `draft`; the commit gives it
back. `Return`, `Teardown` and `Close` are the end of `get_db`: a coroutine's session is committed in
the pool, and the event loop must run for that. `BusyTimeout` is SQLite's `busy_timeout`, which
raises. `Conflicts` are the two unique constraints. `Edited` writes only attributes that differ from the row
as it was loaded, as SQLAlchemy does.

### Storylines, EventIdentity, EventMatcher, ReportDiff

`Record` is `_record_event` of the research pipeline, or `_record_one` of the classic one, for one item:
candidate events newest first, shortlist, decision (the model's, if identity leaves it open), a new row with a
unique key or a merged identity, and the observation. `Publish` files the report, `FailRun` loses it,
`NextDay`, `Restart` and `DeleteReport` are the environment. A wording is a set of words, a url a page and a
spelling, a date a day number. `order` is the order in which the process walks the
set `_DISTINCT_TYPES`: Python's string hash seed picks it anew in each process.

### Engine, Providers

A settings request is load, vault write, vault read-back into the mirror, commit; a commit
merges what the request changed in its copy into the committed rows. `mode` is the vault: it answers, is mute
(each call raises and `keyring_service` swallows that), or is gone (no backend). `StartUp` is the legacy
migration followed by `reconcile_key_state`. `cause` remembers what weakens a promise: a fault, or
two requests at once.

### Agents, ResearchResult

`BuildAgent` resolves the stored choice against the rows of that moment. A remote pass is `AskVendor`
with its one repair; a local pass loads its snapshot, plans, collects, analyses and attaches. `Attempt`,
`TryAgain` and `Conclude` are the loop of `generate_json`; `usage` is the record it leaves. `Validate` and
`Remap` are the schema's reading of an answer: sources listed twice are merged and citations follow.
`Edit` changes the settings while a pass runs.

### Monitoring, DraftConfig

A request reads rows, decides on a `change` and writes it (`Submit`, `Write`, `WriteFails`). `page`
is the preview in the browser, which may be posted at any later time, with topics
unticked and another key (`Posts`). `CoercePayload` reads a model's payload. `TopicRefused` and `ConfigRefused` are what the
schema raises on, judged on texts as they come; `Cleaned` and `CleanKey` are its field validators, `Budgeted`, `Cut` and `Spend` its
budgets, and `GeneratedConfig` all of it. `UniqueKey` gives a taken key a suffix. A posted form goes through the schema twice, topic by
topic and then as a module (`Validated`, `FormRefused`, `PostedConfig`). A key is the sequence of its characters, for it is cut at
three lengths: 64 as it comes, 60 when cleaned, 63 with a suffix. Other texts are values with their cleaned forms (`Clean`,
`CleanDomain`, `CleanWord`) and with lengths that are in bounds or not (`BadNames`, `BadQueries`). `BuildPlan` is what the run will
take and `Diagnose` what the editor says of it.

## 3. Runs

| Run | Instance | Shows |
| --- | --- | --- |
| `run_manager` | one process, two runs, any worker transaction may fail, any number of crashes and restarts | `ActiveIsNewest`, `RunningIsCancellable`; refinement of `RunLifecycle`; `SlotIsFreed`, `StopIsHonoured`; and, while no transaction is lost, no phantom run (`ActiveIsOwned`) and every queued run ends or the process has gone (`RunEnds`) |
| `research` | two sources, answers of up to two events, all faults | evidence and counts, coverage, what cancelled and failed runs leave, what is called new, termination |
| `research_empty` | a failing disk | **violated** `FailedHasNoEmptyReport` |
| `classic` | no module, two modules of one topic, or one module of three topics; sections of one item; all faults | honesty of sections, banner and status; items reach the report |
| `classic_unasked` | the same instance, with every source idle | **violated** `NoNewsWasAnswered` |
| `collection` | three topics, one query typed twice and repeated in the next topic, two workers, a searched source and a feed in three configurations, probes that fail | breaker, honest outcomes, agreement of outcomes and health, reuse across topics |
| `scheduler` | one topic, two request threads, two saves, a crash, failing reads | no topic forgotten, stale jobs harmless, a scheduled topic gets its job |
| `topics` | two coroutine requests and one pooled, two topics | no request waits for a lock it holds; edits refine `TopicHistory`; the schedule survives a brief; every request ends |
| `storylines` | a launch, its retelling, a funding of the same maker, a copy that names nobody, and counts of the classic engine; two days, three items, two reports | a merge is warranted; changes page, labels, timeline and comparison agree |
| `providers` | two vendors, two workers, three requests, one fault | the mirror drifts for a cause only, one default, a ready engine can run |
| `agents` | three vendors (search checked, search unchecked, chat only), 102 raw answers, four collections, one edit | usage and budgets, the stored engine, the verdict, the evidence |
| `monitoring` | one seeded module, drafts with twins, blanks, excess, and texts that a second cleaning changes or refuses, two workers, four requests | drafts whole or not at all; posted, they are what was shown or refused for a spoilt text; no twins; diagnostics agree with the plan |

### Why the bounds are enough

Two runs let a run meet the leftovers of the one before it, which is all the run manager
keeps; a third row would differ from the second only in its number, and the proofs
cover every number; so do those about every other component (section 4). Two events and an older one let a run create an event and match
it again. Two modules let one fail beside another, and three topics under a limit of
one item pass both cuts. Two workers make every race of check and act; a breaker that opens at
the second failure distinguishes counting from opening, and three topics let it open,
half-open and open again. Two reloads overlap in every order, and one crash rebuilds the
table. Two coroutines and a pooled handler are needed for the event loop to hold back the session that owns
the lock; a third coroutine could only queue behind the second. In `storylines` day 30 is beyond
`Horizon` and within `Lookback`, three items let a merged identity meet a third item, a shortlist of two
cuts, and two reports are what a page compares. Three settings requests with one fault reach a
drift, its repair and the use of what was repaired. Limits of two and three on queries and topics let each draft
lose entries to the per-topic limit and to the total; keys of three, six and seven characters
stand for 60, 63 and 64. All named bounds (`MaxRuns`, `MaxEvents`, `MaxSaves`, `MaxCrashes`,
`Remembered`, `MaxItems`, `MaxReports`, `MaxOps`, `MaxFaults`, `MaxEdits`) limit the environment, never the
code; `UrlCap`, `ShortlistLimit`, `Horizon`, `Lookback`, `Retries`, `MaxEvidence`, `KeyLen`, `SuffixedLen`, `RawKeyLen`, `MaxSuffix`, `MaxTopics`,
`MaxQueries`, `MaxTotal`, `MaxSources` and `MaxExclusions` are the code's own limits made small.
Requests are interchangeable in `Providers` and `Monitoring`, which only check safety: their cfgs declare
symmetry over them.

`CHECK_DEADLOCK FALSE` stands where the model ends because the run, the pass, the saves or the
requests have ended.

### Fairness

Weak fairness stands on the steps of threads that the operating system schedules: the
worker thread, the research pipeline, the reloading threads, the requests on research topics. The
code justifies it because each blocking call has a timeout (requests, the model, SQLite's
busy timeout), and each lock is released by a `with` block or by that timeout. Nothing is assumed of the user,
the scheduler's jobs, crashes, or the passing of time: a page may never be opened again. `RequestsEnd` hangs on
the busy timeout, as its mutant shows. The other modules check safety only and state no fairness.

### Disagreements found

The two that runs show:

1. `research_empty`: "A failed research run never produces an empty 'no news'
   report" (`research_pipeline.py:29`): the report is committed before its files are written, so a failing
   disk leaves the report of a run that is marked failed.
2. `classic_unasked`: "only claim there was no news when the sources actually answered"
   (`pipeline.py:424-425`): with all sources off, or none with anything to ask, no topic is attempted, the
   run completes without a banner, and each section says that sources were looked at and had nothing
   (`report_generator.py:252`).

Met while modelling, with no run of their own; the models follow the code:

3. `run_manager.py:8-11` says Classic and Agent runs cannot collide; the slot is one per process, and
   `app.py:85` suggests starting a second copy on another port, which resets the rows
   of the first one's live run and starts its own. `OneCopy` rules that out in runs and proofs.
4. `scheduler.py:150-151` says installed jobs always match the topics; `reload` is not serialised, so a reload that
   is overtaken installs what it listed before a later save. `_scheduled_research_job`
   looks again before it starts, which `StaleJobIsHarmless` confirms; the Classic job does not.
5. `collection_planner.py:197-198` caches only successful answers; an RSS answer made without a feed that
   timed out counts as one (195, `collector.py:799-804`), so a later run does not ask that feed again.
6. `collection_planner.py`, `classify_topic_outcome`: an answer of the feeds stays in the process-wide cache when
   the feeds are removed. A later run takes it as an answer to its query, so a topic can be called "no candidates"
   although its other query had nobody to answer it. The proof
   of `HonestNothing` needs `FeedsStay` for that reason (section 4).
7. `event_identity.py:319` says nothing can outrank a shared page; scores are capped, and
   `event_matcher.py:257` takes the first of the shortlist, which may be an event that conflicts.
8. `provider_migration.py:113` promises to align the mirror with the vault; a vault that is locked at start-up reads as
   empty (`keyring_service.py:68`), so the mirrors of good keys are cleared.
9. `schemas/config_generation.py:18-19` says that validating a draft again is a no-op. It is not: `clean_key` cuts at 60 characters (209)
   while `_unique_key` suffixes up to 63 (`config_generator.py:276`), so a taken key of 60 characters is shown as free with `_2` and
   cut back to the taken one when it is posted; lengths are checked before texts are cleaned, so a name of blanks and a query "x " are shown
   and refused when they come back; each pass takes one `www.` off a domain (110-112). `PostedIsShown` states what does hold.
10. Docstrings: `source_health.py:262-274` (a source that answered and was then paused counts as broken),
   `collector.py:737` (a feed is read once; workers that miss the cache together each read it, and a
   failing feed is read by every query), `net_policy.py:111` (one probe; several may pass a half-open breaker),
   `research_topics.py` `create_topic` (a taken name is resolved, but not one that is taken between the look
   and the insert), and `refine_topic` "writes nothing" (it clears the active topic first and holds the write lock while the
   model answers).

## 4. Proofs

Each theorem holds for every value of the constants that satisfies the named assumptions of
its module. Those say only how constants are shaped (a topic belongs to one module, a limit is at least
one); what narrows a theorem further stands in its statement: `OneCopy`, `FeedsStay`, or a history variable such as
`lost` and `cause`.

Each proof follows one argument. The properties are not inductive, so each module defines a stronger
`Inv` (`IInv` in `RunManager`, `MemoryFits` and `EditorFits` in `SurroundingsProofs`) that TLC checked before it was proved; one lemma per action shows that it is
kept; an `...Invariant` theorem collects them with the initial state; and the other theorems follow from it. An action
property needs `Inv` before the step, a refinement a lemma that maps each step to a step of the abstract
specification or to a stutter.

| Module | Theorems about properties of the runs |
| --- | --- |
| `RunManagerProofs` | `RunManagerTypes`, `OnlyTheNewestIsActive`, `ExecutingIsCancellable`, `NoPhantomRun`, `RunManagerRefinesLifecycle`, `StopInTimeIsHonoured` |
| `ResearchPipelineProofs` | `EvidenceIsChained`, `OnlyFinishedRunsHaveReports`, `NewAreFirstSeen`, `CoverageAlwaysAgrees` |
| `ClassicPipelineProofs` | `SilenceIsHonest`, `CompletedRunsAreComplete`, `ItemsAlwaysReachReport` |
| `CollectionProofs` | `BreakersRefuseAtThreshold`, `QueriesGoOutOnce`, `NothingIsHonest`, `VoicesAgree` |
| `ResearchTopicsProofs` | `NoRequestWaitsForItself`, `OnlySaveScheduleReschedules`, `TopicsKeepTheirHistory` |
| `ProvidersProofs` | `AtMostOneDefault`, `DriftAlwaysHasACause`, `ReadyEngineRuns` |
| `AgentsProofs` | `UsageNeverUndercounts`, `LocalWorkIsAskedFor`, `VerdictIsTheWorse`, `EvidenceCanBeTraced` |
| `SurroundingsProofs` | of the schedule `EveryTopicHasItsJob`, `NoStaleStart`; of the memory `IdentityOnlySupports`, `PagesFollowMemory`; of the configuration `TwinsNeedAReason`, `ShownIsWhatIsApplied`, `EditorAndRunAgree`, `DraftsAreAppliedWhole` |

**Run manager.** Any number of processes and rows, transactions that fail or not. All theorems
assume `OneCopy`, that a process starts only when no other is alive; that goes for the refinement of `RunLifecycle` and for
`StopInTimeIsHonoured` as well. It is necessary: two copies on one
database break `ActiveIsNewest`. That a new row may be created depends on the lock, the slot and the
table at once, so `IInv` says who owns what: `OneAlive` and `OffIsEmpty` (a dead process owns nothing), `RowsExist`
(keys are dense), `StartingIsNew` (a committed `start_run` names the newest row, and no one else knows it),
`SlotIsNewest` (so does the slot, and only that run has a flag), `QueuedIsPending`, and `WorkerHasSlot`
(the worker's run, its future, its row and its slot agree). `NoPhantomRun` adds `ClosedBeforeRelease`: while nothing was
lost, the worker closes a row before it gives the slot back. `StopInTimeIsHonoured` is a temporal
safety property; it follows from `NeverPublishes`, the reasons for which a run will not publish, of which
one always stays. `LifecycleStep` maps a start to `Create`, start-up to the closing of orphans, `_finish` and
`_execute`'s handler to a step forward, the rest to stutters.

**Research pipeline.** Any sources, answers of any length, any faults. `Control`, `Verdict` and `Stored` say what the
rows hold at each place of the pipeline; `Remembered` that its list of recorded observations is what
it stored (so that "new" can be counted at the end); `NoGap` that the events of the run are numbered
densely. Where the process died, `struck` releases the report but never the evidence.

**Classic pipeline.** Any plans, modules, topics and any size of a section. `Progress` splits the modules into those
the run has left behind (`Closed`), the one it is at (`AtWork`, by stage) and those it has not reached
(`Fresh`); `Noted` says that each failure has left a trace in the coverage or in `errors`. Honesty of silence is an invariant of
sections long before a report is filed, which is why one module's failure cannot undo another's.

**Collection.** Any topics, queries, sources, feeds, workers and thresholds. `GoodOutcome` ties what a query has
gathered to what sources have said (`heard`) and to the counters (`noted`); it must hold of finished outcomes, of those
in memory (`SeenIsGood`) and of those in the making (`GoodTask`), because a repeated query takes over
another's. `QueriesGoOutOnce` is about several topics: a query goes out for one of them only; two workers of that
one may both find the memory empty and both ask. `AtSource` remembers that the sources a query passed without an answer had nothing to ask.
`MissedIsTold` and `NotedFits` connect outcomes and the health page. `NothingIsHonest` assumes `FeedsStay`, that no
remembered answer comes from feeds that have been removed since; without it TLC finds the topic of disagreement 6.
`SlotsAreGivenBack` is proved only: free slots and requests under way add up to the limit, over
finite cardinalities.

**Scheduler.** Any topics, threads and overlapping reloads. `SomeoneRemembers` carries `NoTopicForgotten` through a reload:
a topic that is on has its job, or some thread has yet to list it or to come to it in its list. `LooksAgain` is
what a fired job knows about its topic.

**Research topics.** Any number of requests and topics. `InHandler` says for each step of a handler whether it may
hold the write lock; `SeenIsOld` that a brief a request has loaded is an earlier version or the one in effect;
`Numbered` that revisions have no gap and no twin; `DraftIsOneWrite` that what is flushed and not committed is one
create, edit or reschedule over what is committed. The refinement maps the commit to `TopicHistory`'s
`Create` or `Edit`, and everything else to a stutter.

**Providers.** Any vendors, keys, requests and faults. `Footing` says where vault and mirror may differ: between the vault
write and the commit, for the provider of that request alone; and `Alone` that its copy of the rows is still current. Both hold as
long as no `cause` is on record, which is what the properties say.

**Agents.** Any vendors, answers and candidate lists, any budget of a call. `PlaceFits` says whose agent a pass has
at each place and what it has gathered; `SentFits` how many requests it can have sent by then, those of the call under way
among them; `CallFits` and `RecordFits` bound the call and its record. `ValidatedCoverage` and `AttachedCoverage` follow the verdict
through validation and the attaching of sources, whatever the answer holds otherwise. `ValidatedEvidence` and
`AttachedSources` follow each cited number: a page that is listed twice keeps its first number and citations move with
it, so a number that stood for one page only still stands for that page.

**Lists.** What a list keeps of another is given by the positions that stay (`Keep`, `Firsts`, `Take` of
`Selection`), in place of a fold, so the lemmas need no induction over data: `PositionsAreOrdered` says that
ranks of a finite set of positions leave no gap, `FlatFacts` that nested loops visit each place once and in order,
`BestFacts` that a stable sort loses nothing. All three follow from the cardinalities of finite sets.

**Storylines.** Any catalog of events with any names, words, pages and dates, any shortlist, look-back and number of
reports. `MergeIsWarranted` rests on the arithmetic of `CompareIdentity`: without a shared page or a related
product the weights cannot add up to the strong threshold (`IdentityFacts`), and a conflict of kinds rules the
verdict out. `MemoryFits` carries `ChangesMatchHistory`: `EventsFit` and `ObservationsFit` (an observation has its event and is
no later than today), `RecordedFits` (what a run has recorded is in no report yet, and what it called new no report
knows) and `ReportsFit` (the same of a later report and an earlier one, whose dates are in order). The last conjunct is what
makes a label agree with a comparison that is made days later. `TablesAgree` is proved only: an event counts exactly its
observations, keys are unique because `FreshKey` finds a free number among any set of keys (`FreshKeyIsFresh`, by the
pigeonhole principle), and `SeenOnce` keeps the order of the last sightings a permutation of the events.

**Monitoring.** Any payloads, forms, limits, names and seeds, any number of requests at once. `EditorFits` has four
parts. `RowsFit`: a topic has its module, a query its topic. `PageFits`: the draft on the page
is `FitConfig`: cleaned, within all budgets, with no repetition, under a key of 63 characters at most that begins as a key must.
`ValidatedConfigIsFit` says that validation yields one. It need not be valid again, so `ShownIsWhatIsApplied` says what posting it
does: `PostedModuleIsShown` finds each of its topics taken or spoilt (`FormIsTakenOrSpoilt`), and what is taken is unchanged in
its searches, because a list that fits its budgets loses nothing to them (`FitTopicsAreTaken`), and in its key but for the cut
(`ShownKeyIsCut`). Of the texts `MonitoringAssumption` takes only that cleaning a cleaned text leaves it alone and that the slug of a name
is a key; nothing is assumed of domains and words. `RequestsFit`: the modules and topics
that a decided change names are still there when it is written, however many others were written in between, and a draft
only adds.
`TwinsFit`: as long as nothing excuses twins, at most one request is under way, and its change brings none
(`DecidedChangeBringsNoTwin`). `EditorTypesHold` is proved only: a write that would break a unique index leaves nothing, and the seeds, which
are written without a look, name no key twice (`MonitoringAssumption`, of the list in `seed.py`).

### Only model-checked

* Liveness under fairness (`SlotIsFreed`, `RunEnds`, the termination properties of `ResearchPipeline`, `Scheduler` and
  `ResearchTopics`): the prover has no ENABLED.
* The two violations: `FailedHasNoEmptyReport` and `NoNewsWasAnswered` do not hold.

Every invariant and action property of the other runs is a theorem.

## 5. Not modelled

Parsing, rendering, prompts and wording; the calendar; the lengths of delays; SQLite's
and APScheduler's internals; the Windows startup integration. Log lines, usage rows,
progress notes and source statistics have transactions of their own whose failures the
code swallows, so they are left out of every model. What the agent, the model and the
matcher answer are choices: the checks show what the code makes of any answer, never
that an answer is good. `note_circuit_open` has no caller, so `circuit_activations` is
always zero. Retry pauses are only a chance for others to move.

Importer and backup read foreign files or copy the database file once, on the user's command; the startup service
talks to the Windows shell; migrations are Alembic's; the web pages and settings tables are queries, templates and
single-row forms over the rows of the parts above; the legacy script is not called. Forms for sources,
exclusions, feeds and proxies write single rows that no check reads. `archive_topic`,
`restore_topic` and `delete_topic` have no route. Of the vendors' adapters only what decides
between an answer, an error and a retry is kept.

Known, and stated by no property:

* Classic: a module whose model failed keeps an "ok" coverage,
  so an empty section reads as if its articles had been analysed, while the run's status and
  error text admit the failure. `_run_module` is documented never to raise,
  but looks up its row in front of its `try` and opens transactions in its handlers.
* Topics: a report does not record the version of the brief it answers. The failure of a usage row's flush
  is swallowed and leaves the session unusable.
* Events: a resolved event that reappears is called new, and so is one that one report left out;
  `merged_urls` keeps the oldest pages; two spellings of an entity are two entities.
* Providers: the migration of the single-provider install runs again once all providers are
  deleted; two `set_default` that overlap leave two defaults; a death between vault and commit
  leaves a credential without a row; deleting the default when no other row is enabled leaves none.
* Agents: an error raised inside a remote pass before its call concludes leaves no usage record; a failure records the whole
  budget; one adapter only insists that a search took place; the readiness of the local engine is judged by the
  route of `topic_analysis` while its calls go to the default provider; a route keeps its model when
  its provider is off; numbers of listed sources and of numbered ones may collide; a local event may
  keep numbers that resolve to nothing; an empty local result is "complete" although a source broke.
* Monitoring: the unique index on names minds case and archived topics while the
  checks mind neither, so a save may fail with a server error; renaming a topic or a query looks for no duplicate;
  a query's proposed priority is not on the page and becomes the default; modules of equal
  order cannot be moved past each other; diagnostics count the queries of switched-off
  topics; budgets drop sources and exclusions without a word.

## 6. Plan

What a continuation would take up: the promises of `ClassicPipeline` and `ResearchPipeline` as refinements of one
abstract report ("a report says only what was looked at"); faults of the provider routers inside a research pass,
with `Providers` and `Agents` composed over one `Engine`; the forms for sources and exclusions, once a check reads them.

## 7. Running the checks

    tlc -config Collection.cfg MCCollection.tla
    tlapm CollectionProofs.tla

Run names, modules and configurations are listed in `PROJECT.json`. The longest runs
(`scheduler`, `topics`, `providers`, `agents`) take one to three minutes each with two workers; most proof modules do too,
and `SurroundingsProofs` takes nine.
