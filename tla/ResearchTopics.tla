---------------------------- MODULE ResearchTopics ----------------------------
(***************************************************************************)
(* The requests that write research topics: aios/routers/simple.py over    *)
(* aios/repositories/research_topics.py, with the session that get_db      *)
(* opens for each request and closes after its handler has returned.       *)
(*                                                                         *)
(* Coroutine handlers run on the event loop, one at a time: they await     *)
(* nothing after the form, so the model's answer and SQLite's write lock   *)
(* are both waited for while the loop stands still.  Plain handlers run in *)
(* a thread pool.  Either way the session is closed in the pool by a call  *)
(* which the event loop must make.  SQLite has one writer: the first       *)
(* UPDATE or INSERT takes the lock, and the commit gives it back.          *)
(***************************************************************************)
EXTENDS Naturals, FiniteSets, Sequences

CONSTANTS
  Coroutines,  \* requests served on the event loop
  Pooled,      \* requests served in the thread pool
  Ids, First,  \* ids of topics, and of the one that is there
  Names, Texts,
  FirstBriefs, \* the briefs that topic may have
  None,
  Kinds        \* which coroutine handlers are called

VARIABLES
  db,      \* what is committed: topics, their revisions, the active topic
  draft,   \* what the holder of the lock has flushed
  lock,    \* who holds SQLite's write lock
  loop,    \* the coroutine handler the event loop runs
  pc, job  \* where each request is, and what it was asked

vars == <<db, draft, lock, loop, pc, job>>

Requests == Coroutines \cup Pooled
Briefs == [name : Names, text : Texts]
Topic == [name : Names, text : Texts, version : Nat \ {0}, scheduled : BOOLEAN]
Revision == [topic : Ids, version : Nat \ {0}, brief : Briefs]
Database == [topic : [Ids -> Topic \cup {None}], revisions : SUBSET Revision,
             active : Ids \cup {None}]
Job == [kind : {"none", "refine", "create", "edit", "revise", "load", "schedule"},
        id : Ids \cup {None}, seen : Topic \cup {None}, brief : Briefs \cup {None},
        on : BOOLEAN, ok : BOOLEAN]
NoJob == [kind |-> "none", id |-> None, seen |-> None, brief |-> None,
          on |-> FALSE, ok |-> TRUE]

ASSUME TopicsAssumption ==
  /\ Coroutines \cap Pooled = {}
  /\ None \notin Requests \cup Ids \cup Names \cup Texts
  /\ None \notin Topic /\ None \notin Briefs
  /\ First \in Ids
  /\ FirstBriefs \subseteq Briefs
  /\ Kinds \subseteq {"refine", "create", "edit", "revise"}

BriefOf(row) == [name |-> row.name, text |-> row.text]
Exists(data, t) == data.topic[t] # None
Taken(data) == {data.topic[t].name : t \in {u \in Ids : Exists(data, u)}}

TypeOK ==
  /\ db \in Database
  /\ draft \in Database
  /\ lock \in Requests \cup {None}
  /\ loop \in Coroutines \cup {None}
  /\ pc \in [Requests ->
       {"idle", "mark", "model", "decide", "write", "commit", "start",
        "returned", "teardown", "closing", "done"}]
  /\ job \in [Requests -> Job]

\* A database with one topic, which the home page shows or does not.
Init ==
  /\ \E b \in FirstBriefs, a \in BOOLEAN :
       db = [topic |-> [u \in Ids |->
               IF u = First THEN [name |-> b.name, text |-> b.text,
                              version |-> 1, scheduled |-> FALSE]
                        ELSE None],
             revisions |-> {},
             active |-> IF a THEN First ELSE None]
  /\ draft = db
  /\ lock = None
  /\ loop = None
  /\ pc = [c \in Requests |-> "idle"]
  /\ job = [r \in Requests |-> NoJob]

-----------------------------------------------------------------------------
(* The session.                                                             *)

MayWrite(c) == lock \in {None, c}
Base(c) == IF lock = c THEN draft ELSE db

Goto(c, where) == pc' = [pc EXCEPT ![c] = where]

\* The handler raises.  A flush that failed has rolled its transaction back.
Raises(c) ==
  /\ job' = [job EXCEPT ![c].ok = FALSE]
  /\ lock' = IF lock = c THEN None ELSE lock
  /\ draft' = IF lock = c THEN db ELSE draft
  /\ Goto(c, "returned")

Flush(c, data, next) ==
  /\ MayWrite(c)
  /\ draft' = data
  /\ lock' = c
  /\ Goto(c, next)

\* Mistake: the connection waits for the lock without a limit.
BusyTimeoutNever(c) == FALSE /\ UNCHANGED vars

\* busy_timeout: "database is locked".
BusyTimeout(c) ==
  /\ pc[c] \in {"mark", "write", "start"}
  /\ ~MayWrite(c) \/ (pc[c] = "start" /\ lock # None)
  /\ Raises(c)
  /\ UNCHANGED <<db, loop>>

\* The handler is left; a coroutine gives the event loop back.
Return(c) ==
  /\ c \in Requests
  /\ pc[c] = "returned"
  /\ loop' = IF loop = c THEN None ELSE loop
  /\ job' = [job EXCEPT ![c] = [NoJob EXCEPT !.kind = job[c].kind, !.ok = job[c].ok]]
  /\ Goto(c, "teardown")
  /\ UNCHANGED <<db, draft, lock>>

\* The event loop sends the rest of get_db to the pool.
Teardown(c) ==
  /\ pc[c] = "teardown"
  /\ loop = None
  /\ Goto(c, "closing")
  /\ UNCHANGED <<db, draft, lock, loop, job>>

\* get_db commits, or rolls back what an exception interrupted.
Close(c) ==
  /\ pc[c] = "closing"
  /\ db' = IF lock = c /\ job[c].ok THEN draft ELSE db
  /\ draft' = IF lock = c THEN db' ELSE draft
  /\ lock' = IF lock = c THEN None ELSE lock
  /\ job' = [job EXCEPT ![c] = NoJob]
  /\ Goto(c, "done")
  /\ UNCHANGED <<loop>>

-----------------------------------------------------------------------------
(* The handlers.                                                            *)

\* unique_name: the wanted name, or a suffixed one that nobody has.
UniqueName(data, wanted) ==
  IF wanted \notin Taken(data) THEN {wanted} ELSE Names \ Taken(data)

\* A rename onto another topic's name is dropped.
Renamed(data, seen, wanted) ==
  IF wanted \in Taken(data) THEN seen.name ELSE wanted

Receive(c, kind, t, b) ==
  /\ c \in Coroutines
  /\ pc[c] = "idle"
  /\ loop = None
  /\ loop' = c
  /\ job' = [job EXCEPT ![c] = [NoJob EXCEPT !.kind = kind, !.id = t, !.brief = b,
                                 !.seen = IF t = None THEN None ELSE db.topic[t]]]
  /\ UNCHANGED <<db, draft, lock>>

\* refine_topic: the active topic is cleared before the model is asked.
Refine(c) == Receive(c, "refine", None, None) /\ Goto(c, "mark")

Mark(c) ==
  /\ pc[c] = "mark"
  /\ IF db.active = None
       THEN Goto(c, "model") /\ UNCHANGED <<draft, lock>>
       ELSE Flush(c, [db EXCEPT !.active = None], "model")
  /\ UNCHANGED <<db, loop, job>>

\* revise_topic: an unknown topic is a 404, a known one is read and sent off.
Revise(c, t) ==
  /\ Receive(c, "revise", t, None)
  /\ Goto(c, IF Exists(db, t) THEN "model" ELSE "returned")

\* Bound: an id is left for each request that may create a topic.
RoomToCreate ==
  Cardinality({c \in Coroutines :
                 /\ job[c].kind \in {"create", "edit"}
                 /\ lock = c \/ (job[c].brief # None /\ job[c].seen = None)})
    < Cardinality({t \in Ids : ~Exists(db, t)})

\* save_topic ("create") leaves the commit to get_db; save_edited_topic and
\* start_research ("edit") commit themselves.
Save(c, kind, t, b) ==
  /\ RoomToCreate \/ (t # None /\ db.topic[t] # None)
  /\ Receive(c, kind, t, b)
  /\ Goto(c, "decide")

\* What a validated answer makes of the brief.  A revision keeps the parts the
\* answer leaves out; a refinement is a preview in the page, stored nowhere.
Answers(kind) == IF kind = "revise" THEN Briefs ELSE {None}

\* _call: an answer that validates, or BriefGenerationError.
ModelAnswers(c) ==
  /\ pc[c] = "model"
  /\ \/ \E b \in Answers(job[c].kind) :
          job' = [job EXCEPT ![c].brief = b] /\ Goto(c, "write")
     \/ Goto(c, "returned") /\ UNCHANGED job
  /\ UNCHANGED <<db, draft, lock, loop>>

\* The name is settled by a query, outside any transaction.
Decide(c) ==
  /\ pc[c] = "decide"
  /\ \E n \in IF job[c].seen = None
                THEN UniqueName(db, job[c].brief.name)
                ELSE {Renamed(db, job[c].seen, job[c].brief.name)} :
       job' = [job EXCEPT ![c].brief.name = n]
  /\ Goto(c, "write")
  /\ UNCHANGED <<db, draft, lock, loop>>

\* create_topic.
Created(data, t, b) ==
  [topic |-> [data.topic EXCEPT ![t] = [name |-> b.name, text |-> b.text, version |-> 1,
                                        scheduled |-> FALSE]],
   revisions |-> data.revisions,
   active |-> t]

\* Mistake: every column is written back from the object that was loaded.
EditedWholeRow(data, t, seen, b) ==
  [data EXCEPT !.topic[t] = [name |-> b.name, text |-> b.text,
                             version |-> seen.version + 1,
                             scheduled |-> seen.scheduled],
               !.revisions = @ \cup {[topic |-> t, version |-> seen.version,
                                      brief |-> BriefOf(seen)]},
               !.active = t]

\* update_topic: the brief that was loaded becomes a revision, and the columns
\* that differ from what was loaded are written.
Edited(data, t, seen, b) ==
  [topic |-> [data.topic EXCEPT ![t] =
                [name |-> IF b.name = seen.name THEN @.name ELSE b.name,
                 text |-> IF b.text = seen.text THEN @.text ELSE b.text,
                 version |-> seen.version + 1,
                 scheduled |-> @.scheduled]],
   revisions |-> data.revisions \cup {[topic |-> t, version |-> seen.version,
                                       brief |-> BriefOf(seen)]},
   active |-> t]

\* Mistake: no unique constraint over the revisions of a topic.
ConflictsByNameOnly(data, t, seen, b) ==
  b.name \in {data.topic[u].name : u \in {v \in Ids \ {t} : Exists(data, v)}}

\* uq_research_topic_name and uq_research_revision_version.
Conflicts(data, t, seen, b) ==
  \/ b.name \in {data.topic[u].name : u \in {v \in Ids \ {t} : Exists(data, v)}}
  \/ /\ seen # None
     /\ \E old \in data.revisions : old.topic = t /\ old.version = seen.version

\* The flush of a new or an edited topic.  revise_topic settles the name here,
\* for its usage rows have taken the lock before.
WriteTopic(c) ==
  LET seen == job[c].seen
      data == Base(c)
      b == IF job[c].kind = "revise"
             THEN [job[c].brief EXCEPT !.name = Renamed(data, seen, @)]
             ELSE job[c].brief
  IN
  /\ pc[c] = "write"
  /\ job[c].kind \in {"create", "edit", "revise"}
  /\ MayWrite(c)
  /\ \E t \in IF seen # None THEN {job[c].id} ELSE {u \in Ids : ~Exists(data, u)} :
       IF Conflicts(data, t, seen, b)
         THEN Raises(c)
         ELSE /\ Flush(c, IF seen = None THEN Created(data, t, b)
                                         ELSE Edited(data, t, seen, b),
                       IF job[c].kind = "edit" THEN "commit" ELSE "returned")
              /\ job' = [job EXCEPT ![c].id = t]
  /\ UNCHANGED <<db, loop>>

\* record_usage of a refine that was answered.
WriteUsage(c) ==
  /\ pc[c] = "write"
  /\ job[c].kind = "refine"
  /\ Flush(c, Base(c), "returned")
  /\ UNCHANGED <<db, loop, job>>

\* Mistake: the run is started inside the request's own transaction.
CommitOmitted(c) ==
  /\ pc[c] = "commit"
  /\ Goto(c, "start") \/ Goto(c, "returned")
  /\ UNCHANGED <<db, draft, lock, loop, job>>

\* session.commit() in the handler, which may go on to start a run.
Commit(c) ==
  /\ pc[c] = "commit"
  /\ db' = draft
  /\ lock' = None
  /\ Goto(c, "start") \/ Goto(c, "returned")
  /\ UNCHANGED <<draft, loop, job>>

\* _start_research: start_run files the run in a transaction of its own, or
\* is refused before it opens one.
StartRun(c) ==
  /\ pc[c] = "start"
  /\ Goto(c, "returned")
  /\ UNCHANGED <<db, draft, lock, loop, job>>

\* save_schedule and load_topic, in the pool: read, then write.
Pick(c, kind, t, on) ==
  /\ c \in Pooled
  /\ pc[c] = "idle"
  /\ job' = [job EXCEPT ![c] = [NoJob EXCEPT !.kind = kind, !.id = t, !.on = on,
                                             !.seen = db.topic[t]]]
  /\ Goto(c, IF Exists(db, t) THEN "write" ELSE "returned")
  /\ UNCHANGED <<db, draft, lock, loop>>

\* set_schedule writes the column if it differs from what was loaded.
WriteSchedule(c) ==
  /\ pc[c] = "write"
  /\ job[c].kind = "schedule"
  /\ Flush(c, [db EXCEPT !.topic[job[c].id].scheduled =
                 IF job[c].on = job[c].seen.scheduled THEN @ ELSE job[c].on],
           "commit")
  /\ UNCHANGED <<db, loop, job>>

WriteActive(c) ==
  /\ pc[c] = "write"
  /\ job[c].kind = "load"
  /\ Flush(c, [db EXCEPT !.active = job[c].id], "returned")
  /\ UNCHANGED <<db, loop, job>>

-----------------------------------------------------------------------------

Ask(c) ==
  \/ "refine" \in Kinds /\ Refine(c)
  \/ "revise" \in Kinds /\ \E t \in Ids : Revise(c, t)
  \/ \E b \in Briefs :
       \/ "create" \in Kinds /\ Save(c, "create", None, b)
       \/ "edit" \in Kinds /\ \E t \in Ids \cup {None} : Save(c, "edit", t, b)
  \/ \E t \in Ids : \/ Pick(c, "load", t, FALSE)
                    \/ \E on \in BOOLEAN : Pick(c, "schedule", t, on)

Proceed(c) ==
  \/ Mark(c) \/ ModelAnswers(c) \/ Decide(c)
  \/ WriteTopic(c) \/ WriteUsage(c) \/ WriteSchedule(c) \/ WriteActive(c)
  \/ Commit(c) \/ StartRun(c) \/ BusyTimeout(c)
  \/ Return(c) \/ Teardown(c) \/ Close(c)

Next == \E c \in Requests : Ask(c) \/ Proceed(c)

Spec == Init /\ [][Next]_vars
LiveSpec == Spec /\ \A c \in Requests : WF_vars(Proceed(c))

-----------------------------------------------------------------------------

BriefAt(data, t, v) ==
  IF v = data.topic[t].version THEN BriefOf(data.topic[t])
  ELSE (CHOOSE old \in data.revisions : old.topic = t /\ old.version = v).brief

HistoryOf(data) ==
  [t \in Ids |-> IF ~Exists(data, t) THEN <<>>
                 ELSE [v \in 1..data.topic[t].version |-> BriefAt(data, t, v)]]

History == INSTANCE TopicHistory WITH history <- HistoryOf(db)

\* No edit is lost and none is rewritten: however edits by form and by
\* conversation overlap, the revisions of a topic and its brief in effect are
\* one sequence that only grows (update_topic and its unique constraint).
KeepsHistory == History!Spec

\* A brief that comes back from the model after a schedule was saved leaves
\* the schedule alone (the columns update_topic writes).
EditsLeaveSchedule ==
  [][\A t \in Ids :
       Exists(db, t) /\ db'.topic[t].scheduled # db.topic[t].scheduled
         => \E c \in Requests : lock = c /\ job[c].kind = "schedule"]_vars

\* A request is never made to wait for a lock that it holds itself: a run is
\* only started once the topic it names is committed (start_research).
NoSelfWait ==
  \A c \in Requests : pc[c] = "start" => lock # c /\ Exists(db, job[c].id)

\* Every request ends.  A handler that waits for the lock keeps the event loop
\* from closing the session that holds it, so this hangs on busy_timeout.
RequestsEnd == \A c \in Requests : pc[c] # "idle" ~> pc[c] = "done"
=============================================================================
