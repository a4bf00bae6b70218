------------------------------ MODULE Scheduler ------------------------------
(***************************************************************************)
(* aios/services/scheduler.py: the daily jobs, rebuilt by reload() from    *)
(* the settings row of Classic monitoring and from the research topics     *)
(* that are switched on, and what a job does when it fires.                *)
(*                                                                         *)
(* Two routes save a schedule and then call reload().  Both are plain      *)
(* functions, so the web server runs them in a thread pool: any number of  *)
(* reload() calls may overlap, and no lock orders them.  One step is one   *)
(* database transaction or one call of APScheduler, which takes its own    *)
(* lock.  The jobs live in memory; the rows survive the process.           *)
(***************************************************************************)
EXTENDS Naturals, FiniteSets

CONSTANTS
  Topics,         \* research topics that exist
  Requests,       \* threads of the web server
  Boot,           \* the thread of start(): it reloads before any request
  Classic,        \* JOB_ID, the one job of Classic monitoring
  Times,          \* the times parse_hhmm accepts
  BadTime,        \* a stored text it refuses
  ClassicDefault, \* "06:00"
  TopicDefault,   \* "08:00"
  None,
  Faults,         \* subset of {"read", "list"}: transactions that may fail
  MaxSaves,       \* bound: schedules saved
  MaxCrashes      \* bound: times the process dies

ASSUME SchedulerAssumption ==
  /\ ClassicDefault \in Times
  /\ TopicDefault \in Times
  /\ BadTime \notin Times
  /\ None \notin Times
  /\ Boot \notin Requests
  /\ Classic \notin Topics
  /\ None \notin Topics \cup {Classic}
  /\ MaxSaves \in Nat /\ MaxCrashes \in Nat

VARIABLES
  setting,  \* scheduler_enabled and scheduler_time
  topic,    \* schedule_enabled (of a topic not archived), schedule_time
  jobs,     \* the job table: the time each job fires at, or None
  pc,       \* where each thread is in reload()
  seen,     \* the settings each thread has read
  todo,     \* the topics each thread has yet to install, with their times
  firing,   \* where each fired job is
  active,   \* the job whose run occupies the run manager
  offered,  \* history: the topic was switched on at some time since it fired
  failed,   \* history: a read of reload() has failed in this process
  saves, crashes

rows == <<setting, topic, saves>>
reloading == <<pc, seen, todo>>
running == <<firing, active, offered>>
vars == <<setting, topic, jobs, pc, seen, todo, firing, active, offered,
          failed, saves, crashes>>

Threads == Requests \cup {Boot}
JobIds == Topics \cup {Classic}
Schedule == [on : BOOLEAN, time : Times \cup {BadTime}]
NothingSeen == [on |-> FALSE, time |-> BadTime]
NothingTodo == [t \in Topics |-> None]

\* parse_hhmm with the fallback both callers give it.
Parsed(text, default) == IF text \in Times THEN text ELSE default

TypeOK ==
  /\ setting \in Schedule
  /\ topic \in [Topics -> Schedule]
  /\ jobs \in [JobIds -> Times \cup {None}]
  /\ pc \in [Threads -> {"idle", "read", "clear", "list", "install"}]
  /\ seen \in [Threads -> Schedule]
  /\ todo \in [Threads -> [Topics -> Times \cup {None}]]
  /\ firing \in [JobIds -> {"idle", "check", "start"}]
  /\ active \in JobIds \cup {None}
  /\ offered \in [Topics -> BOOLEAN]
  /\ failed \in BOOLEAN
  /\ saves \in 0..MaxSaves
  /\ crashes \in 0..MaxCrashes

\* A process starts: an empty table, and reload() before the first request.
Init ==
  /\ setting \in Schedule
  /\ topic \in [Topics -> [on : BOOLEAN, time : {TopicDefault, BadTime}]]
  /\ jobs = [j \in JobIds |-> None]
  /\ pc = [th \in Threads |-> IF th = Boot THEN "read" ELSE "idle"]
  /\ seen = [th \in Threads |-> NothingSeen]
  /\ todo = [th \in Threads |-> NothingTodo]
  /\ firing = [j \in JobIds |-> "idle"]
  /\ active = None
  /\ offered = [t \in Topics |-> FALSE]
  /\ failed = FALSE
  /\ saves = 0
  /\ crashes = 0

-----------------------------------------------------------------------------
(* The two routes that save a schedule.                                     *)

Served(th) == /\ th \in Requests
              /\ pc[th] = "idle"
              /\ pc[Boot] = "idle"
              /\ saves < MaxSaves

SaveClassic(th) ==
  /\ Served(th)
  /\ \E on \in BOOLEAN, time \in Times : setting' = [on |-> on, time |-> time]
  /\ saves' = saves + 1
  /\ pc' = [pc EXCEPT ![th] = "read"]
  /\ UNCHANGED <<topic, jobs, seen, todo, running, failed, crashes>>

SaveTopic(th) ==
  /\ Served(th)
  /\ \E t \in Topics, on \in BOOLEAN, time \in Times :
       /\ topic' = [topic EXCEPT ![t] = [on |-> on, time |-> time]]
       /\ offered' = [offered EXCEPT ![t] = @ \/ on]
  /\ saves' = saves + 1
  /\ pc' = [pc EXCEPT ![th] = "read"]
  /\ UNCHANGED <<setting, jobs, seen, todo, firing, active, failed, crashes>>

-----------------------------------------------------------------------------
(* reload(): settings, clear, topics, one job per topic, the Classic job.   *)

\* Mistake: returns as soon as Classic monitoring is found to be off.
ReadSettingsReturnsEarly(th) ==
  /\ pc[th] = "read"
  /\ seen' = [seen EXCEPT ![th] = setting]
  /\ pc' = [pc EXCEPT ![th] = IF setting.on THEN "clear" ELSE "idle"]
  /\ UNCHANGED <<rows, jobs, todo, running, failed, crashes>>

ReadSettings(th) ==
  /\ pc[th] = "read"
  /\ seen' = [seen EXCEPT ![th] = setting]
  /\ pc' = [pc EXCEPT ![th] = "clear"]
  /\ UNCHANGED <<rows, jobs, todo, running, failed, crashes>>

\* The first read raises: the request fails with the table untouched.
ReadFails(th) ==
  /\ "read" \in Faults
  /\ pc[th] = "read"
  /\ th \in Requests
  /\ pc' = [pc EXCEPT ![th] = "idle"]
  /\ failed' = TRUE
  /\ UNCHANGED <<rows, jobs, seen, todo, running, crashes>>

Clear(th) ==
  /\ pc[th] = "clear"
  /\ jobs' = [j \in JobIds |-> None]
  /\ pc' = [pc EXCEPT ![th] = "list"]
  /\ UNCHANGED <<rows, seen, todo, running, failed, crashes>>

\* scheduled_topics with their times; the order of the jobs is left open.
Listed == [t \in Topics |-> IF topic[t].on
                            THEN Parsed(topic[t].time, TopicDefault) ELSE None]

ListTopics(th) ==
  /\ pc[th] = "list"
  /\ todo' = [todo EXCEPT ![th] = Listed]
  /\ pc' = [pc EXCEPT ![th] = "install"]
  /\ UNCHANGED <<rows, jobs, seen, running, failed, crashes>>

\* The second read raises: it is swallowed, and no topic gets its job.
ListFails(th) ==
  /\ "list" \in Faults
  /\ pc[th] = "list"
  /\ pc' = [pc EXCEPT ![th] = "install"]
  /\ failed' = TRUE
  /\ UNCHANGED <<rows, jobs, seen, todo, running, crashes>>

InstallTopic(th) ==
  /\ pc[th] = "install"
  /\ \E t \in Topics :
       /\ todo[th][t] # None
       /\ jobs' = [jobs EXCEPT ![t] = todo[th][t]]
       /\ todo' = [todo EXCEPT ![th][t] = None]
  /\ UNCHANGED <<rows, pc, seen, running, failed, crashes>>

\* The end of reload(): the Classic job, if the first read found it enabled.
InstallClassic(th) ==
  /\ pc[th] = "install"
  /\ todo[th] = NothingTodo
  /\ jobs' = IF seen[th].on
             THEN [jobs EXCEPT ![Classic] = Parsed(seen[th].time, ClassicDefault)]
             ELSE jobs
  /\ pc' = [pc EXCEPT ![th] = "idle"]
  /\ seen' = [seen EXCEPT ![th] = NothingSeen]
  /\ UNCHANGED <<rows, todo, running, failed, crashes>>

\* Mistake: lists the topics with the settings, before the table is cleared.
ReloadListsFirst(th) ==
  \/ /\ pc[th] = "read"
     /\ seen' = [seen EXCEPT ![th] = setting]
     /\ todo' = [todo EXCEPT ![th] = Listed]
     /\ pc' = [pc EXCEPT ![th] = "clear"]
     /\ UNCHANGED <<rows, jobs, running, failed, crashes>>
  \/ /\ pc[th] = "clear"
     /\ jobs' = [j \in JobIds |-> None]
     /\ pc' = [pc EXCEPT ![th] = "install"]
     /\ UNCHANGED <<rows, seen, todo, running, failed, crashes>>
  \/ InstallTopic(th) \/ InstallClassic(th)

Reload(th) ==
  \/ ReadSettings(th) \/ ReadFails(th) \/ Clear(th) \/ ListTopics(th)
  \/ ListFails(th) \/ InstallTopic(th) \/ InstallClassic(th)

-----------------------------------------------------------------------------
(* A job fires in a thread of APScheduler (coalesce, max_instances = 1).    *)

Fire(j) ==
  /\ jobs[j] # None
  /\ firing[j] = "idle"
  /\ firing' = [firing EXCEPT ![j] = IF j = Classic THEN "start" ELSE "check"]
  /\ offered' = IF j = Classic THEN offered
                ELSE [offered EXCEPT ![j] = topic[j].on]
  /\ UNCHANGED <<rows, jobs, reloading, active, failed, crashes>>

\* Mistake: trusts that an installed job is a job still wanted.
CheckTopicTrusting(t) ==
  /\ firing[t] = "check"
  /\ firing' = [firing EXCEPT ![t] = "start"]
  /\ UNCHANGED <<rows, jobs, reloading, active, offered, failed, crashes>>

\* _scheduled_research_job reads the topic again and skips one switched off.
CheckTopic(t) ==
  /\ firing[t] = "check"
  /\ firing' = [firing EXCEPT ![t] = IF topic[t].on THEN "start" ELSE "idle"]
  /\ UNCHANGED <<rows, jobs, reloading, active, offered, failed, crashes>>

\* The engine is not ready, or a transaction raised: the day is skipped.
SkipTopic(t) ==
  /\ firing[t] # "idle"
  /\ firing' = [firing EXCEPT ![t] = "idle"]
  /\ UNCHANGED <<rows, jobs, reloading, active, offered, failed, crashes>>

\* start_run refuses while a run is active: the job logs and skips.
StartRun(j) ==
  /\ firing[j] = "start"
  /\ firing' = [firing EXCEPT ![j] = "idle"]
  /\ active' = IF active = None THEN j ELSE active
  /\ UNCHANGED <<rows, jobs, reloading, offered, failed, crashes>>

RunEnds ==
  /\ active # None
  /\ active' = None
  /\ UNCHANGED <<rows, jobs, reloading, firing, offered, failed, crashes>>

\* The process dies and a new one starts: the rows are all that is left.
Crash ==
  /\ crashes < MaxCrashes
  /\ crashes' = crashes + 1
  /\ jobs' = [j \in JobIds |-> None]
  /\ pc' = [th \in Threads |-> IF th = Boot THEN "read" ELSE "idle"]
  /\ seen' = [th \in Threads |-> NothingSeen]
  /\ todo' = [th \in Threads |-> NothingTodo]
  /\ firing' = [j \in JobIds |-> "idle"]
  /\ active' = None
  /\ failed' = FALSE
  /\ UNCHANGED <<rows, offered>>

Next ==
  \/ \E th \in Requests : SaveClassic(th) \/ SaveTopic(th)
  \/ \E th \in Threads : Reload(th)
  \/ \E j \in JobIds : Fire(j) \/ StartRun(j)
  \/ \E t \in Topics : CheckTopic(t) \/ SkipTopic(t)
  \/ RunEnds
  \/ Crash

Spec == Init /\ [][Next]_vars

\* A request that was accepted and the start-up are run to their end.
LiveSpec == Spec /\ \A th \in Threads : WF_vars(Reload(th))

-----------------------------------------------------------------------------
(* Properties.                                                              *)

AtRest == \A th \in Threads : pc[th] = "idle"

\* However the reloads overlapped: once none is left and none has failed, every
\* topic that is switched on has a job.  reload() clears before it lists, so the
\* last one to clear lists what every earlier one has committed.
NoTopicForgotten ==
  AtRest /\ ~failed => \A t \in Topics : topic[t].on => jobs[t] # None

\* _scheduled_research_job: a job left behind by an overtaken reload() never
\* starts a run of a topic that has been off ever since the job fired.
StaleJobIsHarmless ==
  [][\A t \in Topics : active # t /\ active' = t => offered[t]]_vars

\* A topic that stays switched on gets its job, across crashes and reloads,
\* unless the read that should have found it failed.
ScheduledTopicGetsJob ==
  \A t \in Topics : topic[t].on ~> (jobs[t] # None \/ ~topic[t].on \/ failed)
=============================================================================
