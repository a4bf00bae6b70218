--------------------------- MODULE ClassicPipeline ---------------------------
(***************************************************************************)
(* aios/services/pipeline.py: one Classic monitoring run.  Every module of *)
(* the plan is collected topic by topic, analysed, matched and summarised; *)
(* a failure degrades its own branch; what is left becomes the report.     *)
(*                                                                         *)
(* The question this module asks is what the run may tell its reader: "no  *)
(* news" and "could not look" must stay apart from the answer of a source  *)
(* up to the text of a section, the banner of the report and the status of *)
(* the run.  One step is the work between two checkpoints.  How a topic's  *)
(* queries are spread over the sources is Collection's subject; here one   *)
(* topic's collection is a choice of which sources answered and failed.    *)
(* Log lines, usage rows and source statistics are left out: their         *)
(* failures are swallowed.                                                 *)
(***************************************************************************)
EXTENDS Naturals, FiniteSets, FiniteSetsExt, Sequences

CONSTANTS
    Plans,     \* what build_plan may read: sequences of modules in display order
    TopicsOf,  \* the active topics of each module, in order
    Sources,   \* the collectors of the registry
    MaxReportItems, \* items a section may hold; twice as many are matched
    Idle,      \* sources that are disabled, or have nothing configured to ask
    Faults     \* subset of {"model", "code", "db", "disk"}: the model fails, an
               \* unexpected exception, a transaction fails, a file cannot be written

Set(seq) == {seq[i] : i \in 1 .. Len(seq)}
Modules  == UNION {Set(p) : p \in Plans}
Topics   == UNION {Set(TopicsOf[m]) : m \in Modules}

\* A plan lists a module once, a topic belongs to one module, and a module
\* without a topic that is on does not get into a plan.
ASSUME ClassicAssumption ==
    /\ Plans \subseteq Seq(Modules)
    /\ \A p \in Plans : \A i, j \in 1 .. Len(p) : p[i] = p[j] => i = j
    /\ TopicsOf \in [Modules -> Seq(Topics)]
    /\ \A m \in Modules : Len(TopicsOf[m]) > 0
    /\ \A m, n \in Modules : \A i \in 1 .. Len(TopicsOf[m]), j \in 1 .. Len(TopicsOf[n]) :
          TopicsOf[m][i] = TopicsOf[n][j] => m = n /\ i = j
    /\ MaxReportItems \in Nat \ {0}
    /\ Idle \subseteq Sources
    /\ Faults \subseteq {"model", "code", "db", "disk"}

CollectionStatus == {"ok", "no_candidates", "partial", "failed", "not_attempted"}
ModuleTerminal   == {"completed", "completed_with_warnings", "failed", "skipped"}
ModuleStatus     == {"pending", "collecting", "extracting", "analyzing", "matching"} \cup ModuleTerminal
RunStatus        == {"pending", "running", "completed", "completed_with_errors",
                     "failed", "cancelled"}

\* What became of a topic: "empty" has no candidate, "articles" waits for the
\* model, "mute" is one the model could not analyse, "quiet" one it found
\* nothing in, "found" waits for the matcher, "dropped" ranked below the cut,
\* "lost" could not be recorded.
TopicStage == {"none", "empty", "articles", "mute", "quiet", "found", "dropped",
               "recorded", "lost"}

VARIABLES
    run,        \* the run row: status and cancel_requested
    moduleRun,  \* status of each module's row, "none" before it is planned
    report,     \* the report: filed, its banner, its sections
    plan,       \* the modules of this run, <<>> before they are read
    pc,
    at,         \* index of the module being executed
    next,       \* index of the next topic of the loop at pc
    status,     \* what collection achieved for each topic
    stage,      \* [Topics -> TopicStage]
    sections,   \* the payloads: coverage, what the summary says, items
    answered,   \* sources with a successful request in this run
    failed,     \* sources with a failed request
    refused,    \* sources whose breaker refused a request
    errors,     \* self.errors is not empty
    failures    \* self.collection_failures

dbVars     == <<run, moduleRun, report>>
healthVars == <<answered, failed, refused>>
noteVars   == <<errors, failures>>
vars == <<run, moduleRun, report, plan, pc, at, next, status, stage, sections,
          answered, failed, refused, errors, failures>>

NoReport == [filed |-> FALSE, degraded |-> FALSE, sections |-> <<>>]
NewSection == [coverage |-> "", says |-> "", items |-> {}]

Init ==
    /\ run = [status |-> "pending", cancel |-> FALSE]
    /\ moduleRun = [m \in Modules |-> "none"]
    /\ report = NoReport
    /\ plan = <<>> /\ pc = "begin" /\ at = 1 /\ next = 1
    /\ status = [t \in Topics |-> "not_attempted"]
    /\ stage = [t \in Topics |-> "none"]
    /\ sections = [m \in Modules |-> NewSection]
    /\ answered = {} /\ failed = {} /\ refused = {}
    /\ errors = FALSE /\ failures = {}

Section == [coverage : CollectionStatus \cup {""}, items : SUBSET Topics,
            says : {"", "no_access", "some_access", "no_sources", "no_news",
                    "model_text", "module_failed"}]

TypeOK ==
    /\ run \in [status : RunStatus, cancel : BOOLEAN]
    /\ moduleRun \in [Modules -> ModuleStatus \cup {"none"}]
    /\ report.filed \in BOOLEAN /\ report.degraded \in BOOLEAN
    /\ status \in [Topics -> CollectionStatus]
    /\ stage \in [Topics -> TopicStage]
    /\ sections \in [Modules -> Section]
    /\ answered \subseteq Sources /\ failed \subseteq Sources /\ refused \subseteq failed
    /\ failures \subseteq Topics
    /\ plan \in Plans \cup {<<>>} /\ at \in 1 .. Len(plan) + 1

-----------------------------------------------------------------------------
(***************************************************************************)
(* How collection is judged: the planner's two rules, the health tracker's *)
(* two, and the text of a section without items.                           *)
(***************************************************************************)

\* classify_topic_outcome.
Classify(ok, bad, found) ==
    CASE ok = {} /\ bad = {} -> "not_attempted"
      [] ok = {} /\ bad # {} -> "failed"
      [] ok # {} /\ bad # {} -> "partial"
      [] OTHER               -> IF found THEN "ok" ELSE "no_candidates"

\* The slip of asking for any answer before asking for any failure.
AggregateAnyOk(ts) ==
    LET seen == {status[t] : t \in ts} \ {"not_attempted"}
    IN  CASE seen = {}       -> "not_attempted"
          [] "ok" \in seen   -> "ok"
          [] seen = {"failed"} -> "failed"
          [] seen \cap {"failed", "partial"} # {} -> "partial"
          [] OTHER           -> "no_candidates"

\* aggregate_module_status.
Aggregate(ts) ==
    LET seen == {status[t] : t \in ts} \ {"not_attempted"}
    IN  CASE seen = {}         -> "not_attempted"
          [] seen = {"failed"} -> "failed"
          [] seen # {"failed"} /\ seen \cap {"failed", "partial"} # {} -> "partial"
          [] seen \cap {"failed", "partial"} = {} /\ "ok" \in seen     -> "ok"
          [] OTHER             -> "no_candidates"

\* A source asked and never heard, or refused by its breaker, is broken.
BrokenSource == (failed \ answered) \cup refused # {}

\* impaired_sources: whatever failed once.
Degraded == failed # {} \/ failures # {}

\* empty_section_text, the words under a section without items.
EmptyText(coverage) ==
    CASE coverage = "failed"  -> "no_access"
      [] coverage = "partial" -> "some_access"
      [] OTHER                -> "no_news"

\* The slip of trusting the sources' health alone: a source that answered any
\* other topic is not broken.
FinalStatusByHealth ==
    IF errors \/ BrokenSource THEN "completed_with_errors" ELSE "completed"

FinalStatus ==
    IF errors \/ failures # {} \/ BrokenSource THEN "completed_with_errors" ELSE "completed"

-----------------------------------------------------------------------------
(***************************************************************************)
(* How the run moves on.                                                   *)
(***************************************************************************)

M       == plan[at]
Mine    == TopicsOf[M]
T       == Mine[next]
More    == next <= Len(Mine)
Goto(l) == pc' = l

\* _finish; a transaction that fails there is the run manager's to report.
FinishAs(s) == Goto("done") /\ run' = [run EXCEPT !.status = s]

\* The handler of execute() for anything but a cancellation.
RunFails == FinishAs("failed")

\* _check_cancel inside the module: its row becomes skipped, if it can be written.
Skip ==
    /\ run.cancel
    /\ \/ /\ moduleRun' = [moduleRun EXCEPT ![M] = "skipped"]
          /\ FinishAs("cancelled")
       \/ "db" \in Faults /\ RunFails /\ UNCHANGED moduleRun
    /\ UNCHANGED <<report, plan, at, next, status, stage, sections, healthVars, noteVars>>

Begin ==
    /\ pc = "begin"
    /\ run' = [run EXCEPT !.status = "running"]
    /\ Goto("plan")
    /\ UNCHANGED <<moduleRun, report, plan, at, next, status, stage, sections, healthVars, noteVars>>

\* build_plan and one row per module.  With every module switched off the run is
\* over, without a report; without a ready provider it fails.
PlanRun ==
    /\ pc = "plan"
    /\ \E p \in Plans :
          /\ plan' = p
          /\ moduleRun' = [m \in Modules |-> IF m \in Set(p) THEN "pending" ELSE "none"]
          /\ \/ p = <<>> /\ FinishAs("completed")
             \/ p # <<>> /\ Goto("next") /\ UNCHANGED run
             \/ p # <<>> /\ "model" \in Faults /\ RunFails
    /\ UNCHANGED <<report, at, next, status, stage, sections, healthVars, noteVars>>

\* The checkpoint in front of every module and of the report.
NextModule ==
    /\ pc = "next"
    /\ IF run.cancel THEN FinishAs("cancelled") /\ UNCHANGED moduleRun
       ELSE IF at > Len(plan) THEN Goto("synthesize") /\ UNCHANGED <<run, moduleRun>>
       ELSE /\ Goto("collect")
            /\ moduleRun' = [moduleRun EXCEPT ![M] = "collecting"]
            /\ UNCHANGED run
    /\ next' = 1
    /\ UNCHANGED <<report, plan, at, status, stage, sections, healthVars, noteVars>>

\* _module_run_id is read in front of the try block of _run_module.
ModuleRowUnread ==
    /\ pc = "next" /\ "db" \in Faults
    /\ ~run.cancel /\ at <= Len(plan)
    /\ RunFails
    /\ UNCHANGED <<moduleRun, report, plan, at, next, status, stage, sections, healthVars, noteVars>>

-----------------------------------------------------------------------------
(***************************************************************************)
(* _run_module.                                                            *)
(***************************************************************************)

Asked == Sources \ Idle

\* A topic asked of the sources: which answered, which failed, whether they
\* found anything; only then is the rest of the chain left unasked.  An answer
\* out of the cache is not news of the source's health, a refusal of its
\* breaker is a failure.
CollectTopic ==
    /\ pc = "collect" /\ ~run.cancel /\ More
    /\ \E ok \in SUBSET Asked, bad \in SUBSET Asked, found \in BOOLEAN :
       \E live \in SUBSET ok, open \in SUBSET bad :
          /\ IF found THEN ok # {} ELSE ok \cup bad = Asked
          /\ answered' = answered \cup live
          /\ failed' = failed \cup bad
          /\ refused' = refused \cup open
          /\ LET s == Classify(ok, bad, found)
             IN  /\ status' = [status EXCEPT ![T] = s]
                 /\ failures' = IF s = "failed" THEN failures \cup {T} ELSE failures
                 /\ stage' = [stage EXCEPT ![T] = IF found THEN "articles" ELSE "empty"]
                 /\ moduleRun' = IF found THEN [moduleRun EXCEPT ![M] = "extracting"]
                                 ELSE moduleRun
    /\ next' = next + 1
    /\ UNCHANGED <<run, report, pc, plan, at, sections, errors>>

\* The module's coverage is known; without an article nothing is analysed.
CoverModule ==
    /\ pc = "collect" /\ ~More
    /\ LET c    == Aggregate(Set(Mine))
           none == \A t \in Set(Mine) : stage[t] # "articles"
       IN  /\ sections' = [sections EXCEPT ![M] = [NewSection EXCEPT !.coverage = c,
                 !.says = IF ~none THEN "" ELSE IF c = "failed" THEN "no_access"
                          ELSE IF c = "partial" THEN "some_access" ELSE "no_sources"]]
           /\ moduleRun' = [moduleRun EXCEPT ![M] =
                 IF ~none THEN @
                 ELSE IF c \in {"failed", "partial"} THEN "completed_with_warnings"
                 ELSE "completed"]
           /\ IF none THEN Goto("next") /\ at' = at + 1 ELSE Goto("analyse") /\ UNCHANGED at
    /\ next' = 1
    /\ UNCHANGED <<run, report, plan, status, stage, healthVars, noteVars>>

\* The model reads one topic's articles; if it fails, the topic is skipped.
AnalyseTopic ==
    /\ pc = "analyse" /\ ~run.cancel /\ More
    /\ IF stage[T] # "articles" THEN UNCHANGED <<stage, errors>>
       ELSE \/ \E s \in {"found", "quiet"} :
                  stage' = [stage EXCEPT ![T] = s] /\ UNCHANGED errors
            \/ /\ "model" \in Faults
               /\ stage' = [stage EXCEPT ![T] = "mute"]
               /\ errors' = TRUE
    /\ moduleRun' = [moduleRun EXCEPT ![M] = "analyzing"]
    /\ next' = next + 1
    /\ UNCHANGED <<run, report, pc, plan, at, status, sections, healthVars, failures>>

\* Some n of a set, or all of it if there are fewer: the head of a ranking.
Best(S, n) == kSubset(IF Cardinality(S) < n THEN Cardinality(S) ELSE n, S)

\* The candidates are ranked and cut at twice the size of the section.
StartMatching ==
    /\ pc = "analyse" /\ ~run.cancel /\ ~More
    /\ LET found == {t \in Set(Mine) : stage[t] = "found"}
       IN  \E kept \in Best(found, 2 * MaxReportItems) :
              stage' = [t \in Topics |-> IF t \in found \ kept THEN "dropped" ELSE stage[t]]
    /\ moduleRun' = [moduleRun EXCEPT ![M] = "matching"]
    /\ Goto("match")
    /\ next' = 1
    /\ UNCHANGED <<run, report, plan, at, status, sections, healthVars, noteVars>>

\* _record_one for one candidate: recorded, or its transaction rolled back.
MatchTopic ==
    /\ pc = "match" /\ More
    /\ IF stage[T] # "found" THEN UNCHANGED <<stage, errors>>
       ELSE /\ ~run.cancel
            /\ \/ stage' = [stage EXCEPT ![T] = "recorded"] /\ UNCHANGED errors
               \/ /\ Faults \cap {"db", "code"} # {}
                  /\ stage' = [stage EXCEPT ![T] = "lost"]
                  /\ errors' = TRUE
    /\ next' = next + 1
    /\ UNCHANGED <<dbVars, pc, plan, at, status, sections, healthVars, failures>>

Recorded == {t \in Set(Mine) : stage[t] = "recorded"}
HasText  == \E t \in Set(Mine) : stage[t] \in {"recorded", "lost"}

\* The slip of filling the payload once the summary is there.
KeepItemsLater ==
    /\ pc = "match" /\ ~More
    /\ Goto("summarise")
    /\ UNCHANGED <<dbVars, plan, at, next, status, stage, sections, healthVars, noteVars>>

\* The loop is over; the best of its items are the section's, before the summary.
KeepItems ==
    /\ pc = "match" /\ ~More
    /\ \E items \in Best(Recorded, MaxReportItems) :
          sections' = [sections EXCEPT ![M].items = items]
    /\ Goto("summarise")
    /\ UNCHANGED <<dbVars, plan, at, next, status, stage, healthVars, noteVars>>

\* analyze_module and the end of the module's row; no candidate, no model call.
Summarise ==
    /\ pc = "summarise"
    /\ sections' = [sections EXCEPT ![M].says = IF HasText THEN "model_text" ELSE "no_news"]
    /\ moduleRun' = [moduleRun EXCEPT ![M] =
          IF sections[M].coverage = "partial" THEN "completed_with_warnings" ELSE "completed"]
    /\ Goto("next")
    /\ at' = at + 1
    /\ UNCHANGED <<run, report, plan, next, status, stage, healthVars, noteVars>>

\* An exception in the try block: the module is failed, its section kept.  The
\* matching loop catches what is raised inside it, but for its transactions.
ModuleFails ==
    /\ pc \in {"collect", "analyse", "match", "summarise"}
    /\ "db" \in Faults \/ ("code" \in Faults /\ pc # "match")
    /\ errors' = TRUE
    /\ moduleRun' = [moduleRun EXCEPT ![M] = "failed"]
    /\ sections' = [sections EXCEPT ![M].says = "module_failed"]
    /\ Goto("next")
    /\ at' = at + 1
    /\ UNCHANGED <<run, report, plan, next, status, stage, healthVars, failures>>

\* The handler's own transaction fails as well, and so the run.
ModuleHandlerFails ==
    /\ pc \in {"collect", "analyse", "match", "summarise"} /\ "db" \in Faults
    /\ errors' = TRUE
    /\ RunFails
    /\ UNCHANGED <<moduleRun, report, plan, at, next, status, stage, sections, healthVars, failures>>

\* The checkpoints: each topic, the analysis and its topics, the matching and
\* each candidate.  Behind the last candidate nobody looks.
SkipModule ==
    /\ \/ pc = "collect" /\ More
       \/ pc = "analyse"
       \/ pc = "match" /\ More /\ stage[T] = "found"
    /\ Skip

\* A transaction of execute() or of a checkpoint between the modules fails.
TransactionFails ==
    /\ pc \in {"begin", "plan", "next", "synthesize", "publish", "export", "finish"}
    /\ "db" \in Faults
    /\ RunFails
    /\ UNCHANGED <<moduleRun, report, plan, at, next, status, stage, sections, healthVars, noteVars>>

-----------------------------------------------------------------------------
(***************************************************************************)
(* The report and the end.                                                 *)
(***************************************************************************)

Synthesize ==
    /\ pc = "synthesize"
    /\ \/ UNCHANGED errors
       \/ "model" \in Faults /\ errors' = TRUE
    /\ Goto("publish")
    /\ UNCHANGED <<dbVars, plan, at, next, status, stage, sections, healthVars, failures>>

PersistReport ==
    /\ pc = "publish"
    /\ report' = [filed |-> TRUE, degraded |-> Degraded, sections |-> sections]
    /\ Goto("export")
    /\ UNCHANGED <<run, moduleRun, plan, at, next, status, stage, sections, healthVars, noteVars>>

Export ==
    /\ pc = "export"
    /\ \/ Goto("finish") /\ UNCHANGED run
       \/ "disk" \in Faults /\ RunFails
    /\ UNCHANGED <<moduleRun, report, plan, at, next, status, stage, sections, healthVars, noteVars>>

Finish ==
    /\ pc = "finish"
    /\ FinishAs(FinalStatus)
    /\ UNCHANGED <<moduleRun, report, plan, at, next, status, stage, sections, healthVars, noteVars>>

\* A user asks to stop; the run manager sets the row and the flag.
Cancel ==
    /\ run.status \in {"pending", "running"} /\ ~run.cancel
    /\ run' = [run EXCEPT !.cancel = TRUE]
    /\ UNCHANGED <<moduleRun, report, pc, plan, at, next, status, stage, sections, healthVars, noteVars>>

Step ==
    \/ Begin \/ PlanRun \/ NextModule \/ ModuleRowUnread
    \/ CollectTopic \/ CoverModule \/ AnalyseTopic \/ StartMatching \/ MatchTopic
    \/ KeepItems \/ Summarise \/ ModuleFails \/ ModuleHandlerFails \/ SkipModule
    \/ TransactionFails \/ Synthesize \/ PersistReport \/ Export \/ Finish

Next == Step \/ Cancel

Spec == Init /\ [][Next]_vars

-----------------------------------------------------------------------------
(***************************************************************************)
(* Properties.                                                             *)
(***************************************************************************)

\* The module completed without a warning and its section says that there was
\* nothing new.
Silent(m) ==
    /\ moduleRun[m] = "completed" /\ report.sections[m].items = {}
    /\ EmptyText(report.sections[m].coverage) = "no_news"

\* report_generator.py:236-238 promises that "no qualifying news" and "could not
\* look" never read alike.  Whatever failed, as long as a source was there to be
\* asked: a silent module has had an answer for every topic, and what a section
\* admits, the banner of the report admits.
HonestSilence ==
    report.filed => \A m \in Set(plan) :
       /\ Silent(m) /\ Asked # {} =>
             \A t \in Set(TopicsOf[m]) : status[t] \in {"ok", "no_candidates"}
       /\ report.sections[m].coverage \in {"failed", "partial"} => report.degraded

\* pipeline.py:425, "only claim there was no news when the sources actually
\* answered", with every source switched off or without anything to ask.
NoNewsWasAnswered ==
    report.filed => \A m \in Set(plan) :
       Silent(m) => \A t \in Set(TopicsOf[m]) : status[t] \in {"ok", "no_candidates"}

\* pipeline.py:941-946: a completed run has heard from some source about every
\* topic it asked about, and no failure cost it an analysis or a candidate.
CompletedIsComplete ==
    run.status = "completed" =>
       \A t \in Topics : /\ status[t] # "failed"
                         /\ stage[t] \notin {"articles", "mute", "found", "lost"}

\* Whatever befalls one module: its section holds observations recorded for it,
\* and all of them or MaxReportItems, unless the module failed before it had any.
ItemsReachReport ==
    report.filed => \A m \in Set(plan) :
       \/ report.sections[m].items \in
             Best({t \in Set(TopicsOf[m]) : stage[t] = "recorded"}, MaxReportItems)
       \/ moduleRun[m] = "failed" /\ report.sections[m].items = {}
=============================================================================
