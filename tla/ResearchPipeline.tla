-------------------------- MODULE ResearchPipeline --------------------------
(***************************************************************************)
(* aios/services/research_pipeline.py: one Research Agent run, from its    *)
(* row to its report, while a user may cancel it or delete its report and  *)
(* its topic may disappear.                                                *)
(*                                                                         *)
(* One step is one database transaction ("short transactions": the         *)
(* pipeline commits at every checkpoint), the agent's call, or the write   *)
(* of the exported files.  What the agent answers and which known event    *)
(* the matcher picks are choices.  Progress notes, log lines and usage     *)
(* records are left out: each has a transaction of its own whose failure   *)
(* is swallowed.                                                           *)
(***************************************************************************)
EXTENDS Naturals, FiniteSets

CONSTANTS
    Sources,    \* source ids an agent may use in its answer
    Urls,       \* normalised urls, the identity of an article
    UrlOf,      \* the url behind each source id; two ids may share one
    MaxEvents,  \* bound on the events of one answer
    Faults      \* which of "disk", "db", "kill", "topic" may strike: the files or a
                \* transaction fail, the process dies, the topic is deleted

ASSUME ResearchAssumption ==
    /\ IsFiniteSet(Sources)
    /\ UrlOf \in [Sources -> Urls]
    /\ MaxEvents \in Nat
    /\ Faults \subseteq {"disk", "db", "kill", "topic"}

Coverage == {"complete", "partial", "failed"}
Terminal == {"completed", "completed_with_errors", "failed", "cancelled"}
Active   == {"pending", "running"}

Positions == 1 .. MaxEvents     \* places in the agent's list of events
EventIds  == 0 .. MaxEvents     \* 0 is an event an earlier run created

NoReport == [filed |-> FALSE]
NoResult == [sources |-> {}, cites |-> <<>>, coverage |-> "failed"]
NoTotals == [events |-> 0, new |-> 0, items |-> 0]

VARIABLES
    \* --- the database
    run,        \* the run row: status, coverage, cancel, topic (is its reference set), totals
    topicAlive, \* the research topic exists
    articles,   \* urls with an article row
    count,      \* [EventIds -> Nat]: observation_count, 0 when the event does not exist
    inTopic,    \* events whose research_topic_id is this topic
    obs,        \* observations: [id, event, by, links]
    report,     \* the report row of this run
    \* --- the memory of the pipeline
    pc,
    at,         \* position of the event being handled
    result,     \* the agent's answer
    recorded,   \* what _record_event returned so far: [obs, event, state]
    errors,     \* self.errors is not empty
    verdict,    \* status and coverage _finish was called with
    struck      \* history: storage failed, or the process died, in this run

dbVars  == <<run, topicAlive, articles, count, inTopic, obs, report>>
memVars == <<pc, at, result, recorded, errors, verdict, struck>>
vars    == <<run, topicAlive, articles, count, inTopic, obs, report,
             pc, at, result, recorded, errors, verdict, struck>>

\* The topic may have been researched before: then event 0 is there, with one
\* observation and its article.
Init ==
    /\ \E past \in Urls \cup {"nothing"} :
          /\ articles = {past} \ {"nothing"}
          /\ count = [e \in EventIds |-> IF e = 0 /\ past # "nothing" THEN 1 ELSE 0]
          /\ inTopic = IF past = "nothing" THEN {} ELSE {0}
          /\ obs = IF past = "nothing" THEN {}
                   ELSE {[id |-> 0, event |-> 0, by |-> "past", links |-> {past}]}
    /\ run = [status |-> "pending", coverage |-> "", cancel |-> FALSE, topic |-> TRUE,
              totals |-> NoTotals]
    /\ topicAlive = TRUE
    /\ report = NoReport
    /\ pc = "queued" /\ at = 1 /\ result = NoResult /\ recorded = {} /\ errors = FALSE
    /\ verdict = [status |-> "", coverage |-> ""]
    /\ struck = FALSE

-----------------------------------------------------------------------------
(***************************************************************************)
(* How the pipeline moves on.                                              *)
(***************************************************************************)

Goto(l) == pc' = l

\* _finish(s, coverage=c) is called; its transaction is the step Finish.
EndWith(s, c) ==
    /\ Goto("finish")
    /\ verdict' = [status |-> s, coverage |-> c]

\* The handler of execute() for any exception but the cancellation.
Fail == EndWith("failed", "failed")

\* Storage fails: a transaction is rolled back, or a file is not written.
Strike(fault) == fault \in Faults /\ struck' = TRUE

\* The slip of a cancellation that returns without closing the row.
CheckThenReturns(l) ==
    IF run.cancel THEN Goto("done") /\ UNCHANGED verdict ELSE Goto(l) /\ UNCHANGED verdict

\* _check_cancel raises ResearchRunCancelled, or the run goes on at l.
CheckThen(l) ==
    IF run.cancel THEN EndWith("cancelled", "") ELSE Goto(l) /\ UNCHANGED verdict

\* The first transaction of execute(); the old status is not looked at.
Begin ==
    /\ pc = "queued"
    /\ run' = [run EXCEPT !.status = "running"]
    /\ IF run.topic THEN Goto("load") /\ UNCHANGED verdict ELSE Fail
    /\ UNCHANGED <<topicAlive, articles, count, inTopic, obs, report,
                   at, result, recorded, errors, struck>>

\* Reads the topic and its settings.
LoadTopic ==
    /\ pc = "load"
    /\ IF topicAlive THEN Goto("check") /\ UNCHANGED verdict ELSE Fail
    /\ UNCHANGED <<dbVars, at, result, recorded, errors, struck>>

CheckBeforeAgent ==
    /\ pc = "check"
    /\ \/ CheckThen("agent") /\ UNCHANGED struck
       \/ Strike("db") /\ Fail
    /\ UNCHANGED <<dbVars, at, result, recorded, errors>>

\* build_agent and agent.run: an answer, or ResearchAgentUnavailable,
\* ResearchError or any other exception.
AskAgent ==
    /\ pc = "agent"
    /\ \/ /\ Fail
          /\ UNCHANGED result
       \/ /\ \E n \in 0 .. MaxEvents :
               \E s \in SUBSET Sources, c \in [1 .. n -> SUBSET Sources], v \in Coverage :
                  result' = [sources |-> s, cites |-> c, coverage |-> v]
          /\ Goto("judge")
          /\ UNCHANGED verdict
    /\ UNCHANGED <<dbVars, at, recorded, errors, struck>>

\* The slip of an empty answer that is published whatever its coverage.
JudgeIgnoresCoverage ==
    /\ pc = "judge"
    /\ CheckThen("sources")
    /\ UNCHANGED <<dbVars, at, result, recorded, errors, struck>>

\* The second checkpoint and the test of coverage.is_failed.
Judge ==
    /\ pc = "judge"
    /\ \/ /\ IF ~run.cancel /\ result.coverage = "failed" THEN Fail ELSE CheckThen("sources")
          /\ UNCHANGED struck
       \/ Strike("db") /\ Fail
    /\ UNCHANGED <<dbVars, at, result, recorded, errors>>

\* _persist_sources: one transaction, an article per url that has none.
StoreSources ==
    /\ pc = "sources"
    /\ \/ /\ articles' = articles \cup {UrlOf[s] : s \in result.sources}
          /\ Goto("event")
          /\ UNCHANGED <<verdict, struck>>
       \/ /\ Strike("db")
          /\ Fail
          /\ UNCHANGED articles
    /\ UNCHANGED <<run, topicAlive, count, inTopic, obs, report,
                   at, result, recorded, errors>>

-----------------------------------------------------------------------------
(***************************************************************************)
(* The loop over the agent's events.                                       *)
(***************************************************************************)

Count == Cardinality(DOMAIN result.cites)

\* The checkpoint before an event is outside the loop's own try block.
NextEvent ==
    /\ pc = "event"
    /\ \/ /\ IF at > Count THEN Goto("persist") /\ UNCHANGED verdict ELSE CheckThen("record")
          /\ UNCHANGED struck
       \/ Strike("db") /\ at <= Count /\ Fail
    /\ UNCHANGED <<dbVars, at, result, recorded, errors>>

\* The articles behind the source ids the event cites and the answer lists.
Linked == {UrlOf[s] : s \in result.cites[at] \cap result.sources}

Advance == at' = at + 1 /\ Goto("event")

\* No traceable evidence: the event is not recorded.
SkipEvent ==
    /\ pc = "record"
    /\ Linked = {}
    /\ Advance
    /\ UNCHANGED <<dbVars, result, recorded, errors, verdict, struck>>

\* _candidate_events of a topic that is gone finds nothing: the foreign keys
\* of its events were set to NULL.
Candidates == {e \in inTopic : count[e] > 0}

FreshId == CHOOSE e \in EventIds \ {0} :
              /\ count[e] = 0
              /\ \A f \in EventIds \ {0} : count[f] = 0 => e <= f

\* The slip of an observation whose evidence is linked only for a new event.
ObserveUnlinked(e, state) ==
    /\ obs' = obs \cup {[id |-> at, event |-> e, by |-> "run",
                         links |-> IF state = "new" THEN Linked ELSE {}]}
    /\ recorded' = recorded \cup {[obs |-> at, event |-> e, state |-> state]}
    /\ count' = [count EXCEPT ![e] = @ + 1]

\* add_observation, link_sources, observation_count + 1, and the item the
\* report will show.
Observe(e, state) ==
    /\ obs' = obs \cup {[id |-> at, event |-> e, by |-> "run", links |-> Linked]}
    /\ recorded' = recorded \cup {[obs |-> at, event |-> e, state |-> state]}
    /\ count' = [count EXCEPT ![e] = @ + 1]

UpdateEvent ==
    /\ pc = "record"
    /\ Linked # {}
    /\ \E e \in Candidates : Observe(e, "updated")
    /\ Advance
    /\ UNCHANGED <<run, topicAlive, articles, inTopic, report, result, errors, verdict, struck>>

\* A new event refers to the topic, so its insert fails once that is gone.
NewEvent ==
    /\ pc = "record"
    /\ Linked # {}
    /\ topicAlive
    /\ Observe(FreshId, "new")
    /\ inTopic' = inTopic \cup {FreshId}
    /\ Advance
    /\ UNCHANGED <<run, topicAlive, articles, report, result, errors, verdict, struck>>

\* The transaction is rolled back; the run goes on with the next event.
RecordFails ==
    /\ pc = "record"
    /\ Linked # {}
    /\ (~topicAlive /\ UNCHANGED struck) \/ Strike("db")
    /\ errors' = TRUE
    /\ Advance
    /\ UNCHANGED <<dbVars, result, recorded, verdict>>

-----------------------------------------------------------------------------
(***************************************************************************)
(* Publication.                                                            *)
(***************************************************************************)

\* The first transaction of _publish: persist_report.  The report row refers
\* to the topic.
PersistReport ==
    /\ pc = "persist"
    /\ \/ /\ topicAlive
          /\ report' = [filed |-> TRUE, items |-> recorded, coverage |-> result.coverage,
                        degraded |-> result.coverage = "partial" \/ errors]
          /\ Goto("export")
          /\ UNCHANGED <<verdict, struck>>
       \/ /\ (~topicAlive /\ UNCHANGED struck) \/ Strike("db")
          /\ Fail
          /\ UNCHANGED report
    /\ UNCHANGED <<run, topicAlive, articles, count, inTopic, obs,
                   at, result, recorded, errors>>

\* The second transaction of _publish: the report is read back, unless the
\* user has deleted it, and its files are written.
ExportReport ==
    /\ pc = "export"
    /\ \/ Goto("mark") /\ UNCHANGED <<verdict, struck>>
       \/ Strike("disk") /\ report.filed /\ Fail
       \/ Strike("db") /\ Fail
    /\ UNCHANGED <<dbVars, at, result, recorded, errors>>

\* The slip of a mark_run that insists on its topic.
MarkTopicStrict ==
    /\ pc = "mark"
    /\ IF ~topicAlive THEN Fail
       ELSE EndWith(IF errors \/ result.coverage = "partial"
                    THEN "completed_with_errors" ELSE "completed", result.coverage)
    /\ UNCHANGED <<dbVars, at, result, recorded, errors, struck>>

\* mark_run, and the status _persist decides on.
MarkTopic ==
    /\ pc = "mark"
    /\ \/ /\ EndWith(IF errors \/ result.coverage = "partial"
                     THEN "completed_with_errors" ELSE "completed", result.coverage)
          /\ UNCHANGED struck
       \/ Strike("db") /\ Fail
    /\ UNCHANGED <<dbVars, at, result, recorded, errors>>

Touched == {o.event : o \in {x \in obs : x.by = "run"}}

\* The slip of counting as new whatever this run touched.
TotalsAllNew ==
    [events |-> Cardinality(Touched),
     new    |-> Cardinality(Touched),
     items  |-> IF report.filed THEN Cardinality(report.items) ELSE 0]

Totals ==
    [events |-> Cardinality(Touched),
     new    |-> Cardinality({e \in Touched : count[e] = 1}),
     items  |-> IF report.filed THEN Cardinality(report.items) ELSE 0]

\* _finish: an empty coverage leaves the column alone.
Finish ==
    /\ pc = "finish"
    /\ run' = [run EXCEPT !.status = verdict.status,
                          !.coverage = IF verdict.coverage = "" THEN @ ELSE verdict.coverage,
                          !.totals = Totals]
    /\ Goto("done")
    /\ UNCHANGED <<topicAlive, articles, count, inTopic, obs, report,
                   at, result, recorded, errors, verdict, struck>>

\* The transaction of a _finish that would have completed the run raises: it
\* was called inside execute()'s try block, so the run fails instead.
FinishRaises ==
    /\ pc = "finish"
    /\ Strike("db")
    /\ verdict.status \in {"completed", "completed_with_errors"}
    /\ Fail
    /\ UNCHANGED <<dbVars, at, result, recorded, errors>>

-----------------------------------------------------------------------------
(***************************************************************************)
(* The user and the operating system.                                      *)
(***************************************************************************)

Cancel ==
    /\ run.status \in Active
    /\ run' = [run EXCEPT !.cancel = TRUE]
    /\ UNCHANGED <<topicAlive, articles, count, inTopic, obs, report, memVars>>

\* delete_topic: every reference to the topic becomes NULL, nothing else goes.
\* No page offers it; execute() allows for it and the tests do it.
DeleteTopic ==
    /\ "topic" \in Faults
    /\ topicAlive
    /\ topicAlive' = FALSE
    /\ inTopic' = {}
    /\ run' = [run EXCEPT !.topic = FALSE]
    /\ UNCHANGED <<articles, count, obs, report, memVars>>

\* reports_repo.delete_report: "only the publication goes".
DeleteReport ==
    /\ report.filed
    /\ report' = NoReport
    /\ UNCHANGED <<run, topicAlive, articles, count, inTopic, obs, memVars>>

\* The pipeline is no more: its memory is gone, the database stays.
Abandon ==
    /\ Goto("dead") /\ struck' = TRUE
    /\ at' = 1 /\ result' = NoResult /\ recorded' = {} /\ errors' = FALSE
    /\ verdict' = [status |-> "", coverage |-> ""]
    /\ UNCHANGED dbVars

\* The process is killed between two transactions.
Kill ==
    /\ "kill" \in Faults
    /\ pc \notin {"done", "dead"}
    /\ Abandon

\* A transaction outside execute()'s try block raises: the exception leaves
\* the pipeline for RunManager._execute.
Escape ==
    /\ "db" \in Faults
    /\ \/ pc \in {"queued", "load"}
       \/ pc = "finish" /\ verdict.status \in {"cancelled", "failed"}
    /\ Abandon

\* The handler of RunManager._execute, or reset_stale_runs at the next start.
Recover ==
    /\ pc = "dead"
    /\ run.status \in Active
    /\ run' = [run EXCEPT !.status = "failed"]
    /\ UNCHANGED <<topicAlive, articles, count, inTopic, obs, report, memVars>>

-----------------------------------------------------------------------------
Step ==
    \/ Begin \/ LoadTopic \/ CheckBeforeAgent \/ AskAgent \/ Judge \/ StoreSources
    \/ NextEvent \/ SkipEvent \/ UpdateEvent \/ NewEvent \/ RecordFails
    \/ PersistReport \/ ExportReport \/ MarkTopic \/ Finish \/ FinishRaises

User == Cancel \/ DeleteTopic \/ DeleteReport

Next == Step \/ User \/ Kill \/ Escape \/ Recover

Spec == Init /\ [][Next]_vars

\* The worker thread keeps going; users and crashes owe nothing.
FairSpec == Spec /\ WF_vars(Step)

-----------------------------------------------------------------------------
(***************************************************************************)
(* Properties.                                                             *)
(***************************************************************************)

Observations == [id : EventIds, event : EventIds, by : {"past", "run"}, links : SUBSET Urls]
Items == [obs : Positions, event : EventIds, state : {"new", "updated"}]

\* The rows and the pipeline's memory keep their shape.
TypeOK ==
    /\ run \in [status : Active \cup Terminal, coverage : Coverage \cup {""},
                cancel : BOOLEAN, topic : BOOLEAN,
                totals : [events : Nat, new : Nat, items : Nat]]
    /\ topicAlive \in BOOLEAN
    /\ articles \subseteq Urls
    /\ count \in [EventIds -> Nat]
    /\ inTopic \subseteq EventIds
    /\ obs \subseteq Observations
    /\ recorded \subseteq Items
    /\ errors \in BOOLEAN /\ struck \in BOOLEAN
    /\ at \in 1 .. MaxEvents + 1
    /\ report = NoReport \/ (report.filed /\ report.items \subseteq Items)

\* The evidence chain: every observation rests on at least one stored
\* article, and every item of a report on an observation of its own event
\* ("a report item that cannot be sourced is not published").
EvidenceChain ==
    /\ \A o \in obs : o.links # {} /\ o.links \subseteq articles
    /\ report.filed =>
          \A i \in report.items : \E o \in obs : o.id = i.obs /\ o.event = i.event
    /\ \A e \in EventIds : count[e] = Cardinality({o \in obs : o.event = e})

\* A run that was cancelled, or that failed for any other reason than storage,
\* leaves no report behind.
OnlyFinishedRunsReport ==
    /\ run.status = "cancelled" => ~report.filed
    /\ run.status = "failed" /\ ~struck => ~report.filed

\* "An event whose only observation is this run's is new today": the run
\* counts exactly the events it created and has observed once.
NewIsFirstSeen ==
    pc = "done" =>
        run.totals.new =
            Cardinality({i.event : i \in {x \in recorded :
                x.state = "new" /\ \A y \in recorded : y.event = x.event => y = x}})

\* The run row and the report row agree on coverage, and a run that lost an
\* event or looked only partly does not call itself completed.
CoverageAgrees ==
    pc = "done" /\ run.status \in {"completed", "completed_with_errors"} =>
        /\ run.coverage \in {"complete", "partial"}
        /\ report.filed => /\ report.coverage = run.coverage
                           /\ report.degraded <=> run.status = "completed_with_errors"

\* "A failed research run never produces an empty 'no news' report."
FailedHasNoEmptyReport ==
    run.status = "failed" => ~(report.filed /\ report.items = {})

\* The run ends, whatever the agent answers, the user deletes and storage
\* refuses, unless the pipeline itself is lost.
RunTerminates == run.status = "pending" ~> run.status \in Terminal \/ pc = "dead"
=============================================================================
