-------------------------- MODULE ResearchTopicsProofs --------------------------
(***************************************************************************)
(* Proofs about ResearchTopics for any number of requests, topics, names   *)
(* and texts, whichever handlers are called.                               *)
(***************************************************************************)
EXTENDS ResearchTopics, TLAPS

-----------------------------------------------------------------------------
(* The inductive invariant.                                                 *)

\* What a handler holds at each of its steps: a topic it has read is there
\* when it writes, and the write lock is its own only from its first write on.
InHandler(c) ==
  LET j == job[c] IN
  /\ pc[c] \in {"idle", "mark", "decide", "start", "done"} => lock # c
  /\ pc[c] = "mark" => j.kind = "refine"
  /\ pc[c] = "model" => \/ j.kind = "refine"
                        \/ j.kind = "revise" /\ j.seen # None /\ lock # c
  /\ pc[c] = "decide" => j.kind \in {"create", "edit"} /\ j.brief # None
  /\ pc[c] = "write" =>
       \/ j.kind = "refine"
       \/ /\ j.kind \in {"create", "edit", "revise"}
          /\ j.brief # None
          /\ j.kind = "revise" => j.seen # None
          /\ lock # c
       \/ j.kind \in {"schedule", "load"} /\ j.seen # None /\ lock # c
  /\ pc[c] = "commit" => lock = c /\ j.id \in Ids /\ Exists(draft, j.id)
  /\ pc[c] = "start" => j.id \in Ids /\ Exists(db, j.id)

Control == \A c \in Requests : InHandler(c)

\* What a request has read of a topic is the topic as it was: an earlier
\* version of it, or the version in effect with the brief in effect.
SeenIsOld ==
  \A c \in Requests : LET seen == job[c].seen  t == job[c].id IN
    seen # None =>
      /\ t \in Ids
      /\ Exists(db, t)
      /\ seen.version <= db.topic[t].version
      /\ seen.version = db.topic[t].version => BriefOf(seen) = BriefOf(db.topic[t])

\* The revisions of a topic are numbered 1, 2, ... up to the version in effect,
\* one revision to each number.
Numbered(data) ==
  /\ \A old \in data.revisions :
       Exists(data, old.topic) /\ old.version < data.topic[old.topic].version
  /\ \A t \in Ids : Exists(data, t) =>
       \A v \in 1..(data.topic[t].version - 1) :
         \E old \in data.revisions : old.topic = t /\ old.version = v
  /\ \A old, other \in data.revisions :
       old.topic = other.topic /\ old.version = other.version => old = other

SameBrief(a, d, t) ==
  /\ Exists(a, t) <=> Exists(d, t)
  /\ Exists(a, t) => /\ d.topic[t].version = a.topic[t].version
                     /\ BriefOf(d.topic[t]) = BriefOf(a.topic[t])

Creates(a, d, t) ==
  /\ ~Exists(a, t)
  /\ Exists(d, t)
  /\ d.topic[t].version = 1
  /\ d.revisions = a.revisions

Edits(a, d, t) ==
  /\ Exists(a, t)
  /\ Exists(d, t)
  /\ d.topic[t].version = a.topic[t].version + 1
  /\ d.revisions = a.revisions \cup {[topic |-> t, version |-> a.topic[t].version,
                                      brief |-> BriefOf(a.topic[t])]}

\* What one transaction may do to the briefs: nothing, or one create, or one
\* edit of the version in effect.
OneWrite(a, d) ==
  \/ d.revisions = a.revisions /\ \A t \in Ids : SameBrief(a, d, t)
  \/ \E t \in Ids : /\ Creates(a, d, t) \/ Edits(a, d, t)
                    /\ \A u \in Ids \ {t} : SameBrief(a, d, u)

SameSchedules(a, d) ==
  \A t \in Ids : Exists(a, t) => d.topic[t].scheduled = a.topic[t].scheduled

\* What the holder of the lock has flushed is one write over what is
\* committed, and touches a schedule only to save one.
DraftIsOneWrite ==
  \A c \in Requests : lock = c =>
    /\ OneWrite(db, draft)
    /\ job[c].kind # "schedule" => SameSchedules(db, draft)

Inv == TypeOK /\ Control /\ SeenIsOld /\ Numbered(db) /\ DraftIsOneWrite

-----------------------------------------------------------------------------
(* What the writes make of a database.                                      *)

LEMMA RowTypes ==
    /\ \A row \in Topic : BriefOf(row) \in Briefs /\ row # None
    /\ \A b \in Briefs : b # None
    /\ NoJob \in Job
    /\ None \notin Ids
BY TopicsAssumption DEF BriefOf, Briefs, Topic, NoJob, Job

LEMMA CreatedWrites ==
    ASSUME NEW data \in Database, NEW t \in Ids, NEW b \in Briefs, ~Exists(data, t)
    PROVE  /\ Created(data, t, b) \in Database
           /\ Exists(Created(data, t, b), t)
           /\ OneWrite(data, Created(data, t, b))
           /\ SameSchedules(data, Created(data, t, b))
<1> DEFINE row == [name |-> b.name, text |-> b.text, version |-> 1, scheduled |-> FALSE]
           new == Created(data, t, b)
<1>1. row \in Topic
  BY DEF Topic, Briefs
<1>2. /\ new.topic = [data.topic EXCEPT ![t] = row]
      /\ new.revisions = data.revisions
  BY DEF Created
<1>3. new \in Database
  BY <1>1 DEF Created, Database
<1>4. new.topic[t] = row /\ \A u \in Ids \ {t} : new.topic[u] = data.topic[u]
  BY <1>2 DEF Database
<1>5. Exists(new, t)
  BY <1>1, <1>4, RowTypes DEF Exists
<1>6. Creates(data, new, t)
  BY <1>2, <1>4, <1>5 DEF Creates
<1>7. \A u \in Ids \ {t} : SameBrief(data, new, u)
  BY <1>4 DEF SameBrief, Exists
<1>8. SameSchedules(data, new)
  BY <1>4 DEF SameSchedules, Exists
<1> QED BY <1>3, <1>5, <1>6, <1>7, <1>8 DEF OneWrite

\* An edit of the version in effect adds that version to the revisions.
LEMMA EditedWrites ==
    ASSUME NEW data \in Database, NEW t \in Ids, NEW seen \in Topic, NEW b \in Briefs,
           Exists(data, t)
    PROVE  /\ Edited(data, t, seen, b) \in Database
           /\ Exists(Edited(data, t, seen, b), t)
           /\ seen.version = data.topic[t].version /\ BriefOf(seen) = BriefOf(data.topic[t])
                => OneWrite(data, Edited(data, t, seen, b))
           /\ SameSchedules(data, Edited(data, t, seen, b))
<1> DEFINE new == Edited(data, t, seen, b)
           old == data.topic[t]
           rev == [topic |-> t, version |-> seen.version, brief |-> BriefOf(seen)]
           row == [name |-> IF b.name = seen.name THEN old.name ELSE b.name,
                   text |-> IF b.text = seen.text THEN old.text ELSE b.text,
                   version |-> seen.version + 1, scheduled |-> old.scheduled]
<1>1. old \in Topic
  BY DEF Exists, Database
<1>2. row \in Topic
  BY <1>1 DEF Topic, Briefs
<1>3. /\ new.topic = [data.topic EXCEPT ![t] = row]
      /\ new.revisions = data.revisions \cup {rev}
  BY DEF Edited
<1>4. rev \in Revision
  BY RowTypes DEF Revision, Topic
<1>5. new \in Database
  BY <1>2, <1>4 DEF Edited, Database
<1>6. new.topic[t] = row /\ \A u \in Ids \ {t} : new.topic[u] = data.topic[u]
  BY <1>3 DEF Database
<1>7. Exists(new, t)
  BY <1>2, <1>6, RowTypes DEF Exists
<1>8. ASSUME seen.version = old.version, BriefOf(seen) = BriefOf(old)
      PROVE  OneWrite(data, new)
  <2>1. Edits(data, new, t)
    BY <1>3, <1>6, <1>7, <1>8 DEF Edits
  <2>2. \A u \in Ids \ {t} : SameBrief(data, new, u)
    BY <1>6 DEF SameBrief, Exists
  <2> QED BY <2>1, <2>2 DEF OneWrite
<1>9. SameSchedules(data, new)
  BY <1>6 DEF SameSchedules
<1> QED BY <1>5, <1>7, <1>8, <1>9

\* Where the revisions are numbered, a brief that was read can only be edited
\* while it is in effect: a later version has left a revision of its number.
LEMMA NoConflictInEffect ==
    ASSUME NEW data \in Database, NEW t \in Ids, NEW seen \in Topic, NEW b,
           Numbered(data), Exists(data, t), seen.version <= data.topic[t].version,
           ~Conflicts(data, t, seen, b)
    PROVE  seen.version = data.topic[t].version
<1>1. data.topic[t].version \in Nat \ {0} /\ seen.version \in Nat \ {0} /\ seen # None
  BY RowTypes DEF Exists, Database, Topic
<1> SUFFICES ASSUME seen.version < data.topic[t].version PROVE FALSE
  BY <1>1
<1>2. seen.version \in 1..(data.topic[t].version - 1)
  BY <1>1
<1> QED BY <1>1, <1>2 DEF Numbered, Conflicts

\* What one transaction leaves of an earlier state of a topic.
LEMMA OneWriteKeeps ==
    ASSUME NEW a \in Database, NEW d \in Database, OneWrite(a, d), NEW t \in Ids, Exists(a, t)
    PROVE  /\ Exists(d, t)
           /\ \/ d.topic[t].version = a.topic[t].version
                 /\ BriefOf(d.topic[t]) = BriefOf(a.topic[t])
              \/ d.topic[t].version = a.topic[t].version + 1
BY DEF OneWrite, Creates, Edits, SameBrief

LEMMA OneWriteNumbers ==
    ASSUME NEW a \in Database, NEW d \in Database, OneWrite(a, d), Numbered(a)
    PROVE  Numbered(d)
<1>1. \A t \in Ids : Exists(a, t) => a.topic[t].version \in Nat \ {0}
  BY DEF Exists, Database, Topic
<1>2. \A old \in a.revisions \cup d.revisions : old.topic \in Ids /\ old.version \in Nat \ {0}
  BY DEF Database, Revision
<1>3. CASE d.revisions = a.revisions /\ \A t \in Ids : SameBrief(a, d, t)
  BY <1>1, <1>2, <1>3 DEF Numbered, SameBrief
<1>4. ASSUME NEW t \in Ids, Creates(a, d, t), \A u \in Ids \ {t} : SameBrief(a, d, u)
      PROVE  Numbered(d)
  <2>1. \A old \in d.revisions : old.topic # t
    BY <1>4 DEF Creates, Numbered
  <2> QED BY <1>1, <1>2, <1>4, <2>1 DEF Numbered, SameBrief, Creates
<1>5. ASSUME NEW t \in Ids, Edits(a, d, t), \A u \in Ids \ {t} : SameBrief(a, d, u)
      PROVE  Numbered(d)
  <2> DEFINE n == a.topic[t].version
             new == [topic |-> t, version |-> n, brief |-> BriefOf(a.topic[t])]
  <2>1. n \in Nat \ {0} /\ d.topic[t].version = n + 1 /\ d.revisions = a.revisions \cup {new}
    BY <1>1, <1>5 DEF Edits
  <2>2. \A old \in d.revisions :
          Exists(d, old.topic) /\ old.version < d.topic[old.topic].version
    <3> SUFFICES ASSUME NEW old \in d.revisions
                 PROVE  Exists(d, old.topic) /\ old.version < d.topic[old.topic].version
      OBVIOUS
    <3>1. CASE old = new
      BY <1>5, <2>1, <3>1 DEF Edits
    <3>2. CASE old \in a.revisions /\ old.topic = t
      BY <1>2, <1>5, <2>1, <3>2 DEF Edits, Numbered
    <3>3. CASE old \in a.revisions /\ old.topic # t
      BY <1>2, <1>5, <3>3 DEF Numbered, SameBrief
    <3> QED BY <2>1, <3>1, <3>2, <3>3
  <2>3. ASSUME NEW u \in Ids, Exists(d, u), NEW v \in 1..(d.topic[u].version - 1)
        PROVE  \E old \in d.revisions : old.topic = u /\ old.version = v
    <3>1. CASE u # t
      BY <1>5, <2>1, <2>3, <3>1 DEF Numbered, SameBrief
    <3>2. CASE u = t /\ v = n
      <4>1. new \in d.revisions /\ new.topic = t /\ new.version = n
        BY <2>1
      <4> QED BY <3>2, <4>1
    <3>3. CASE u = t /\ v # n
      <4>1. v \in 1..(a.topic[t].version - 1)
        BY <2>1, <3>3
      <4> QED BY <1>5, <2>1, <3>3, <4>1 DEF Edits, Numbered
    <3> QED BY <3>1, <3>2, <3>3
  <2>4. \A old \in a.revisions : ~(old.topic = new.topic /\ old.version = new.version)
    BY <1>2, <2>1 DEF Numbered
  <2>5. \A old, other \in d.revisions :
          old.topic = other.topic /\ old.version = other.version => old = other
    BY <2>1, <2>4 DEF Numbered
  <2> QED BY <2>2, <2>3, <2>5 DEF Numbered
<1> QED BY <1>3, <1>4, <1>5 DEF OneWrite

-----------------------------------------------------------------------------
(* The invariant holds.                                                     *)

LEMMA InitInv == Init => Inv
<1> SUFFICES ASSUME Init PROVE Inv
  OBVIOUS
<1>1. TypeOK
  BY TopicsAssumption, RowTypes DEF Init, TypeOK, Database, Topic, Briefs
<1>2. Control /\ SeenIsOld
  BY RowTypes, TopicsAssumption DEF Init, Control, InHandler, SeenIsOld, NoJob
<1>3. Numbered(db)
  <2>1. db.revisions = {} /\ \A t \in Ids : Exists(db, t) => db.topic[t].version = 1
    BY DEF Init, Exists
  <2> QED BY <2>1 DEF Numbered
<1>4. DraftIsOneWrite
  BY TopicsAssumption DEF Init, DraftIsOneWrite
<1> QED BY <1>1, <1>2, <1>3, <1>4 DEF Inv

\* What is committed changes only when the holder of the lock commits.
LEMMA CommitOnly ==
    ASSUME Control, NEW c \in Requests, Ask(c) \/ Proceed(c)
    PROVE  db' = db \/ (lock = c /\ db' = draft)
BY DEF Control, InHandler, Ask, Proceed, Refine, Revise, Save, Receive, Pick, Mark, ModelAnswers, Decide,
       WriteTopic, WriteUsage, WriteSchedule, WriteActive, Commit, StartRun, BusyTimeout,
       Return, Teardown, Close

\* The flush of a topic is one write over what is committed.
LEMMA TopicIsOneWrite ==
    ASSUME Inv, NEW c \in Requests, WriteTopic(c), ~Raises(c)
    PROVE  /\ draft' \in Database
           /\ lock' = c
           /\ pc'[c] \in {"commit", "returned"}
           /\ job' \in [Requests -> Job]
           /\ \E t \in Ids : /\ job' = [job EXCEPT ![c] = [job[c] EXCEPT !.id = t]]
                             /\ Exists(draft', t)
                             /\ job[c].seen # None => t = job[c].id
           /\ OneWrite(db, draft')
           /\ SameSchedules(db, draft')
<1> DEFINE seen == job[c].seen
           b == IF job[c].kind = "revise"
                  THEN [job[c].brief EXCEPT !.name = Renamed(db, seen, @)]
                  ELSE job[c].brief
<1>1. lock # c /\ job[c].brief \in Briefs /\ (job[c].kind = "revise" => seen # None)
  BY RowTypes DEF Inv, Control, InHandler, TypeOK, Job, WriteTopic
<1>2. Base(c) = db /\ db \in Database /\ seen \in Topic \cup {None}
  BY <1>1 DEF Base, Inv, TypeOK, Job
<1>3. seen # None => /\ job[c].id \in Ids /\ Exists(db, job[c].id)
                     /\ seen.version <= db.topic[job[c].id].version
                     /\ seen.version = db.topic[job[c].id].version
                          => BriefOf(seen) = BriefOf(db.topic[job[c].id])
  BY DEF Inv, SeenIsOld
<1>4. b \in Briefs
  BY <1>1, <1>2 DEF Renamed, Briefs, Topic
<1>5. PICK t \in IF seen # None THEN {job[c].id} ELSE {u \in Ids : ~Exists(db, u)} :
         /\ ~Conflicts(db, t, seen, b)
         /\ Flush(c, IF seen = None THEN Created(db, t, b) ELSE Edited(db, t, seen, b),
                  IF job[c].kind = "edit" THEN "commit" ELSE "returned")
         /\ job' = [job EXCEPT ![c] = [job[c] EXCEPT !.id = t]]
  BY <1>2 DEF WriteTopic
<1>6. pc'[c] \in {"commit", "returned"} /\ lock' = c
  BY <1>5 DEF Flush, Goto, Inv, TypeOK
<1>7. t \in Ids /\ job' \in [Requests -> Job]
  <2>1. t \in Ids
    BY <1>3, <1>5
  <2>2. [job[c] EXCEPT !.id = t] \in Job
    BY <2>1 DEF Job, Inv, TypeOK
  <2> QED BY <1>5, <2>1, <2>2 DEF Inv, TypeOK
<1>8. CASE seen = None
  <2>1. t \in Ids /\ ~Exists(db, t) /\ draft' = Created(db, t, b)
    BY <1>5, <1>8 DEF Flush
  <2> QED BY <1>2, <1>4, <1>5, <1>6, <1>7, <1>8, <2>1, CreatedWrites
<1>9. CASE seen # None
  <2>1. t = job[c].id /\ draft' = Edited(db, t, seen, b)
    BY <1>5, <1>9 DEF Flush
  <2>2. seen.version = db.topic[t].version
    BY <1>2, <1>3, <1>5, <1>9, <2>1, NoConflictInEffect DEF Inv
  <2> QED BY <1>2, <1>3, <1>4, <1>5, <1>6, <1>7, <1>9, <2>1, <2>2, EditedWrites
<1> QED BY <1>8, <1>9

\* The name that is settled is a name.
LEMMA DecideNames ==
    ASSUME Inv, NEW c \in Requests, Decide(c)
    PROVE  /\ job[c].brief \in Briefs
           /\ \E n \in Names : job' = [job EXCEPT ![c].brief.name = n]
<1>1. job[c].brief \in Briefs /\ job[c].seen \in Topic \cup {None}
  BY DEF Decide, Inv, TypeOK, Control, InHandler, Job
<1>2. PICK n : /\ n \in IF job[c].seen = None THEN UniqueName(db, job[c].brief.name)
                       ELSE {Renamed(db, job[c].seen, job[c].brief.name)}
               /\ job' = [job EXCEPT ![c].brief.name = n]
  BY DEF Decide
<1>3. n \in Names
  BY <1>1, <1>2 DEF UniqueName, Renamed, Briefs, Topic
<1> QED BY <1>1, <1>2, <1>3

LEMMA StepTypes ==
    ASSUME Inv, NEW c \in Requests, Ask(c) \/ Proceed(c)
    PROVE  TypeOK'
<1> USE DEF Inv, TypeOK
<1>1. db' \in Database
  BY CommitOnly
<1>2. ASSUME Raises(c), UNCHANGED <<db, loop>> PROVE TypeOK'
  BY <1>2 DEF Raises, Goto, Job
<1>3. ASSUME NEW kind \in {"refine", "revise", "create", "edit"}, NEW t \in Ids \cup {None},
             NEW b \in Briefs \cup {None}, Receive(c, kind, t, b)
      PROVE  /\ job' \in [Requests -> Job] /\ loop' \in Coroutines
             /\ UNCHANGED <<db, draft, lock>>
  <2>1. [NoJob EXCEPT !.kind = kind, !.id = t, !.brief = b,
                      !.seen = IF t = None THEN None ELSE db.topic[t]] \in Job
    BY RowTypes DEF NoJob, Job, Database
  <2> QED BY <1>3, <2>1 DEF Receive
<1>4. CASE Ask(c)
  <2>1. ASSUME Refine(c) PROVE TypeOK'
    BY <2>1, <1>3 DEF Refine, Goto
  <2>2. ASSUME NEW t \in Ids, Revise(c, t) PROVE TypeOK'
    BY <2>2, <1>3 DEF Revise, Goto
  <2>3. ASSUME NEW kind \in {"create", "edit"}, NEW t \in Ids \cup {None}, NEW b \in Briefs,
               Save(c, kind, t, b)
        PROVE  TypeOK'
    BY <2>3, <1>3 DEF Save, Goto
  <2>4. ASSUME NEW kind \in {"load", "schedule"}, NEW t \in Ids, NEW on \in BOOLEAN,
               Pick(c, kind, t, on)
        PROVE  TypeOK'
    <3>1. [NoJob EXCEPT !.kind = kind, !.id = t, !.on = on, !.seen = db.topic[t]] \in Job
      BY RowTypes DEF NoJob, Job, Database
    <3> QED BY <2>4, <3>1 DEF Pick, Goto
  <2> QED BY <1>4, <2>1, <2>2, <2>3, <2>4 DEF Ask
<1>5. CASE Mark(c)
  <2>1. [db EXCEPT !.active = None] \in Database
    BY DEF Database
  <2> QED BY <1>5, <2>1 DEF Mark, Flush, Goto
<1>6. CASE ModelAnswers(c)
  BY <1>6 DEF ModelAnswers, Answers, Goto, Job
<1>7. CASE Decide(c)
  <2>1. PICK n \in Names : job' = [job EXCEPT ![c].brief.name = n]
    BY <1>7, DecideNames
  <2>2. job[c].brief \in Briefs
    BY <1>7, DecideNames
  <2>4. [job[c] EXCEPT !.brief.name = n] \in Job
    BY <2>2 DEF Job, Briefs
  <2>5. job' \in [Requests -> Job]
    BY <2>1, <2>4
  <2> QED BY <1>7, <2>5 DEF Decide, Goto
<1>8. CASE WriteTopic(c)
  <2>1. CASE Raises(c)
    BY <1>2, <1>8, <2>1 DEF WriteTopic
  <2>2. CASE ~Raises(c)
    <3>1. draft' \in Database /\ lock' = c
      BY <1>8, <2>2, TopicIsOneWrite
    <3>3. job' \in [Requests -> Job]
      BY <1>8, <2>2, TopicIsOneWrite
    <3>4. UNCHANGED <<db, loop>> /\ \E where \in {"commit", "returned"} : Goto(c, where)
      BY <1>8, <2>2 DEF WriteTopic, Flush
    <3> QED BY <3>1, <3>3, <3>4 DEF Goto
  <2> QED BY <2>1, <2>2
<1>9. CASE WriteUsage(c)
  BY <1>9 DEF WriteUsage, Flush, Goto, Base
<1>10. CASE WriteSchedule(c)
  <2>1. job[c].seen \in Topic /\ job[c].id \in Ids /\ Exists(db, job[c].id)
    BY <1>10, RowTypes DEF WriteSchedule, Control, InHandler, SeenIsOld, Job
  <2>2. [db EXCEPT !.topic[job[c].id].scheduled =
           IF job[c].on = job[c].seen.scheduled THEN @ ELSE job[c].on] \in Database
    BY <2>1 DEF Database, Exists, Topic, Job
  <2> QED BY <1>10, <2>2 DEF WriteSchedule, Flush, Goto
<1>11. CASE WriteActive(c)
  <2>1. [db EXCEPT !.active = job[c].id] \in Database
    BY DEF Database, Job
  <2> QED BY <1>11, <2>1 DEF WriteActive, Flush, Goto
<1>12. CASE Commit(c)
  BY <1>12 DEF Commit, Goto
<1>13. CASE StartRun(c)
  BY <1>13 DEF StartRun, Goto
<1>14. CASE BusyTimeout(c)
  BY <1>2, <1>14 DEF BusyTimeout
<1>15. CASE Return(c)
  BY <1>15, RowTypes DEF Return, Goto, NoJob, Job
<1>16. CASE Teardown(c)
  BY <1>16 DEF Teardown, Goto
<1>17. CASE Close(c)
  BY <1>17, RowTypes DEF Close, Goto
<1> QED BY <1>4, <1>5, <1>6, <1>7, <1>8, <1>9, <1>10, <1>11, <1>12, <1>13, <1>14, <1>15,
           <1>16, <1>17 DEF Proceed

LEMMA StepControl ==
    ASSUME Inv, NEW c \in Requests, Ask(c) \/ Proceed(c)
    PROVE  Control'
<1> USE DEF Inv, TypeOK, Goto
<1>1. \A t \in Ids : Exists(db, t) => Exists(db', t)
  BY CommitOnly, OneWriteKeeps DEF DraftIsOneWrite
\* The other handlers: the lock is passed on by its holder only.
<1>2. ASSUME NEW d \in Requests, d # c PROVE InHandler(d)'
  <2>1. pc'[d] = pc[d] /\ job'[d] = job[d]
    BY <1>2 DEF Ask, Proceed, Refine, Revise, Save, Receive, Pick, Mark, ModelAnswers, Decide,
       WriteTopic, WriteUsage, WriteSchedule, WriteActive, Commit, StartRun, BusyTimeout,
       Return, Teardown, Close, Raises, Flush
  <2>2. /\ lock = d => lock' = d /\ draft' = draft
        /\ lock # d => lock' # d
    BY <1>2, TopicsAssumption DEF Ask, Proceed, Refine, Revise, Save, Receive, Pick, Mark,
       ModelAnswers, Decide, WriteTopic, WriteUsage, WriteSchedule, WriteActive, Commit,
       StartRun, BusyTimeout, Return, Teardown, Close, Raises, Flush, MayWrite, InHandler,
       Control
  <2> QED BY <1>1, <2>1, <2>2 DEF Control, InHandler, Exists
<1>3. CASE Ask(c)
  <2>1. lock # c
    BY <1>3 DEF Ask, Refine, Revise, Save, Receive, Pick, Control, InHandler
  <2>2. ASSUME Refine(c) PROVE InHandler(c)'
    BY <2>1, <2>2 DEF Refine, Receive, NoJob, InHandler
  <2>3. ASSUME NEW t \in Ids, Revise(c, t) PROVE InHandler(c)'
    BY <2>1, <2>3, RowTypes DEF Revise, Receive, NoJob, InHandler, Exists
  <2>4. ASSUME NEW kind \in {"create", "edit"}, NEW t \in Ids \cup {None}, NEW b \in Briefs,
               Save(c, kind, t, b)
        PROVE  InHandler(c)'
    BY <2>1, <2>4, RowTypes DEF Save, Receive, NoJob, InHandler
  <2>5. ASSUME NEW kind \in {"load", "schedule"}, NEW t \in Ids, NEW on \in BOOLEAN,
               Pick(c, kind, t, on)
        PROVE  InHandler(c)'
    BY <2>1, <2>5 DEF Pick, NoJob, InHandler, Exists
  <2>6. InHandler(c)'
    BY <1>3, <2>2, <2>3, <2>4, <2>5 DEF Ask
  <2> QED BY <1>2, <2>6 DEF Control
<1>4. CASE Mark(c)
  <2>1. InHandler(c)'
    BY <1>4 DEF Mark, Flush, InHandler, Control
  <2> QED BY <1>2, <2>1 DEF Control
<1>5. CASE ModelAnswers(c)
  <2>1. InHandler(c)'
    BY <1>5, RowTypes DEF ModelAnswers, Answers, InHandler, Control, Job
  <2> QED BY <1>2, <2>1 DEF Control
<1>6. CASE Decide(c)
  <2>1. pc'[c] = "write" /\ lock' = lock /\ pc[c] = "decide"
    BY <1>6 DEF Decide
  <2>2. job[c].brief \in Briefs /\ job[c].kind \in {"create", "edit"} /\ lock # c
    BY <2>1 DEF Control, InHandler, Job
  <2>3. PICK n \in Names : job' = [job EXCEPT ![c].brief.name = n]
    BY <1>6, DecideNames
  <2>4. job'[c].kind = job[c].kind /\ job'[c].brief = [job[c].brief EXCEPT !.name = n]
    BY <2>3 DEF Job
  <2>5. job'[c].brief # None
    <3>1. [job[c].brief EXCEPT !.name = n] \in Briefs
      BY <2>2 DEF Briefs
    <3> QED BY <2>4, <3>1, RowTypes
  <2>6. InHandler(c)'
    BY <2>1, <2>2, <2>4, <2>5 DEF InHandler
  <2> QED BY <1>2, <2>6 DEF Control
<1>7. CASE WriteTopic(c)
  <2>1. CASE Raises(c)
    BY <1>2, <1>7, <2>1 DEF Raises, InHandler, Control
  <2>2. CASE ~Raises(c)
    <3>1. PICK t \in Ids : /\ job' = [job EXCEPT ![c] = [job[c] EXCEPT !.id = t]]
                           /\ Exists(draft', t)
      BY <1>7, <2>2, TopicIsOneWrite
    <3>2. job'[c].id = t
      BY <3>1 DEF Job
    <3>3. lock' = c /\ pc'[c] \in {"commit", "returned"}
      BY <1>7, <2>2, TopicIsOneWrite
    <3>4. InHandler(c)'
      BY <3>1, <3>2, <3>3 DEF InHandler, Exists
    <3> QED BY <1>2, <3>4 DEF Control
  <2> QED BY <2>1, <2>2
<1>8. CASE WriteUsage(c) \/ WriteActive(c) \/ StartRun(c) \/ BusyTimeout(c) \/ Return(c) \/ Teardown(c)
  <2>1. pc'[c] \in {"returned", "teardown", "closing"}
    BY <1>8 DEF WriteUsage, WriteActive, StartRun, BusyTimeout, Return, Teardown, Flush, Raises
  <2>2. InHandler(c)'
    BY <2>1 DEF InHandler
  <2> QED BY <1>2, <2>2 DEF Control
<1>9. CASE WriteSchedule(c)
  <2>1. /\ pc'[c] = "commit" /\ lock' = c /\ job' = job
        /\ draft' = [db EXCEPT !.topic[job[c].id].scheduled =
                        IF job[c].on = job[c].seen.scheduled THEN @ ELSE job[c].on]
    BY <1>9 DEF WriteSchedule, Flush
  <2>2. job[c].id \in Ids /\ Exists(db, job[c].id)
    BY <1>9, RowTypes DEF WriteSchedule, Control, InHandler, SeenIsOld, Job
  <2>3. draft'.topic[job[c].id] \in Topic
    BY <2>1, <2>2 DEF Exists, Database, Topic, Job
  <2>4. InHandler(c)'
    BY <2>1, <2>2, <2>3, RowTypes DEF InHandler, Exists
  <2> QED BY <1>2, <2>4 DEF Control
<1>10. CASE Commit(c)
  <2>1. InHandler(c)'
    BY <1>10, TopicsAssumption DEF Commit, InHandler, Control, Exists
  <2> QED BY <1>2, <2>1 DEF Control
<1>11. CASE Close(c)
  <2>1. InHandler(c)'
    BY <1>11, TopicsAssumption DEF Close, InHandler
  <2> QED BY <1>2, <2>1 DEF Control
<1> QED BY <1>3, <1>4, <1>5, <1>6, <1>7, <1>8, <1>9, <1>10, <1>11 DEF Proceed

LEMMA StepSeen ==
    ASSUME Inv, NEW c \in Requests, Ask(c) \/ Proceed(c)
    PROVE  SeenIsOld'
<1> DEFINE Old(data, seen, t) ==
             seen # None => /\ t \in Ids
                            /\ Exists(data, t)
                            /\ seen.version <= data.topic[t].version
                            /\ seen.version = data.topic[t].version
                                 => BriefOf(seen) = BriefOf(data.topic[t])
<1>1. ASSUME NEW seen \in Topic \cup {None}, NEW t, Old(db, seen, t) PROVE Old(db', seen, t)
  <2>1. CASE db' = db
    BY <1>1, <2>1
  <2>2. CASE db' # db /\ seen # None
    <3>1. OneWrite(db, db') /\ db \in Database /\ db' \in Database
      BY <2>2, CommitOnly DEF Inv, TypeOK, DraftIsOneWrite
    <3>2. /\ Exists(db', t)
          /\ \/ db'.topic[t].version = db.topic[t].version
                /\ BriefOf(db'.topic[t]) = BriefOf(db.topic[t])
             \/ db'.topic[t].version = db.topic[t].version + 1
      BY <1>1, <2>2, <3>1, OneWriteKeeps
    <3>3. seen.version \in Nat /\ db.topic[t].version \in Nat
      BY <1>1, <2>2, <3>1 DEF Exists, Database, Topic
    <3> QED BY <1>1, <2>2, <3>2, <3>3
  <2> QED BY <2>1, <2>2
<1>2. ASSUME NEW d \in Requests PROVE Old(db', job'[d].seen, job'[d].id)
  <2>1. job[d].seen \in Topic \cup {None} /\ Old(db, job[d].seen, job[d].id)
    BY DEF Inv, TypeOK, Job, SeenIsOld
  <2>2. CASE job'[d].seen = job[d].seen /\ (job[d].seen # None => job'[d].id = job[d].id)
    BY <1>1, <2>1, <2>2
  <2>3. CASE job'[d].seen = None
    BY <2>3
  <2>4. CASE /\ job'[d].seen # None /\ job'[d].id \in Ids /\ db' = db
             /\ job'[d].seen = db.topic[job'[d].id]
    <3>1. db.topic[job'[d].id] \in Topic
      BY <2>4 DEF Inv, TypeOK, Database
    <3> QED BY <2>4, <3>1 DEF Exists, Topic
  <2>5. CASE d # c
    BY <2>2, <2>5 DEF Ask, Proceed, Refine, Revise, Save, Receive, Pick, Mark, ModelAnswers,
       Decide, WriteTopic, WriteUsage, WriteSchedule, WriteActive, Commit, StartRun,
       BusyTimeout, Return, Teardown, Close, Raises, Flush, Inv, TypeOK
  <2>6. CASE d = c /\ Ask(c)
    <3>1. ASSUME NEW kind, NEW t \in Ids \cup {None}, NEW b, Receive(c, kind, t, b)
          PROVE  Old(db', job'[d].seen, job'[d].id)
      <4>1. job'[c].id = t /\ job'[c].seen = IF t = None THEN None ELSE db.topic[t]
        BY <3>1 DEF Receive, NoJob, Inv, TypeOK
      <4> QED BY <2>3, <2>4, <2>6, <3>1, <4>1 DEF Receive
    <3>2. ASSUME NEW kind, NEW t \in Ids, NEW on, Pick(c, kind, t, on)
          PROVE  Old(db', job'[d].seen, job'[d].id)
      <4>1. job'[c].id = t /\ job'[c].seen = db.topic[t]
        BY <3>2 DEF Pick, NoJob, Inv, TypeOK
      <4> QED BY <2>3, <2>4, <2>6, <3>2, <4>1 DEF Pick
    <3> HIDE DEF Old
    <3> QED BY <2>6, <3>1, <3>2 DEF Ask, Refine, Revise, Save
  <2>7. CASE d = c /\ ModelAnswers(c)
    BY <2>2, <2>7 DEF ModelAnswers, Inv, TypeOK, Job
  <2>8. CASE d = c /\ Decide(c)
    <3>1. PICK n \in Names : job' = [job EXCEPT ![c].brief.name = n]
      BY <2>8, DecideNames
    <3> QED BY <2>2, <2>8, <3>1 DEF Inv, TypeOK, Job
  <2>9. CASE d = c /\ WriteTopic(c) /\ ~Raises(c)
    <3>1. PICK t \in Ids : /\ job' = [job EXCEPT ![c] = [job[c] EXCEPT !.id = t]]
                           /\ job[c].seen # None => t = job[c].id
      BY <2>9, TopicIsOneWrite
    <3> QED BY <2>2, <2>9, <3>1 DEF Inv, TypeOK, Job
  <2>10. CASE d = c /\ Raises(c)
    BY <2>2, <2>10 DEF Raises, Inv, TypeOK, Job
  <2>11. CASE d = c /\ (Return(c) \/ Close(c))
    <3>1. job'[c].seen = None
      <4>1. [NoJob EXCEPT !.kind = job[c].kind, !.ok = job[c].ok].seen = None
        BY DEF NoJob
      <4>2. NoJob.seen = None
        BY DEF NoJob
      <4> QED BY <2>11, <4>1, <4>2 DEF Return, Close, Inv, TypeOK
    <3> QED BY <2>3, <2>11, <3>1
  <2>12. CASE d = c /\ job' = job
    BY <2>2, <2>12
  <2>13. Ask(c) \/ ModelAnswers(c) \/ Decide(c) \/ WriteTopic(c) \/ Raises(c) \/ Return(c)
           \/ Close(c) \/ job' = job
    BY DEF Proceed, Mark, WriteUsage, WriteSchedule, WriteActive, Commit, StartRun,
       BusyTimeout, Teardown
  <2> HIDE DEF Old
  <2> QED BY <2>5, <2>6, <2>7, <2>8, <2>9, <2>10, <2>11, <2>12, <2>13
<1> QED BY <1>2 DEF SeenIsOld

LEMMA StepDraft ==
    ASSUME Inv, NEW c \in Requests, Ask(c) \/ Proceed(c)
    PROVE  DraftIsOneWrite'
<1> USE DEF Inv, TypeOK
<1>1. OneWrite(db, db) /\ SameSchedules(db, db)
  BY DEF OneWrite, SameBrief, SameSchedules
<1>2. CASE lock' = lock /\ draft' = draft /\ db' = db /\ \A d \in Requests : job'[d].kind = job[d].kind
  BY <1>2 DEF DraftIsOneWrite
<1>3. CASE lock' = None
  BY <1>3, TopicsAssumption DEF DraftIsOneWrite
<1>4. CASE Raises(c) /\ db' = db
  BY <1>2, <1>3, <1>4, TopicsAssumption DEF Raises, Job
<1>5. CASE Ask(c)
  BY <1>5 DEF DraftIsOneWrite, Ask, Refine, Revise, Save, Receive, Pick, Control, InHandler
<1>6. CASE Mark(c)
  BY <1>1, <1>2, <1>6 DEF Mark, Flush, DraftIsOneWrite, OneWrite, SameBrief, SameSchedules,
     Exists, Database
<1>7. CASE ModelAnswers(c)
  BY <1>2, <1>7 DEF ModelAnswers, Job
<1>8. CASE Decide(c)
  BY <1>8, DecideNames DEF Decide, DraftIsOneWrite, Job
<1>9. CASE WriteTopic(c) /\ ~Raises(c)
  BY <1>9, TopicIsOneWrite DEF WriteTopic, DraftIsOneWrite
<1>10. CASE WriteUsage(c)
  BY <1>1, <1>10 DEF WriteUsage, Flush, Base, DraftIsOneWrite
<1>11. CASE WriteSchedule(c)
  <2>1. job[c].id \in Ids /\ Exists(db, job[c].id)
    BY <1>11, RowTypes DEF WriteSchedule, Control, InHandler, SeenIsOld, Job
  <2>2. /\ lock' = c /\ db' = db /\ job' = job /\ job[c].kind = "schedule"
        /\ draft' = [db EXCEPT !.topic[job[c].id].scheduled =
                       IF job[c].on = job[c].seen.scheduled THEN @ ELSE job[c].on]
    BY <1>11 DEF WriteSchedule, Flush
  <2>3. db.topic[job[c].id] \in Topic
    BY <2>1 DEF Exists, Database
  <2>4. /\ draft'.revisions = db.revisions
        /\ \A t \in Ids \ {job[c].id} : draft'.topic[t] = db.topic[t]
        /\ draft'.topic[job[c].id].version = db.topic[job[c].id].version
        /\ BriefOf(draft'.topic[job[c].id]) = BriefOf(db.topic[job[c].id])
        /\ draft'.topic[job[c].id] \in Topic
    BY <2>1, <2>2, <2>3 DEF Database, Topic, BriefOf, Job
  <2>5. OneWrite(db, draft')
    BY <2>1, <2>4, RowTypes DEF OneWrite, SameBrief, Exists
  <2> QED BY <2>2, <2>5 DEF DraftIsOneWrite
<1>12. CASE WriteActive(c)
  BY <1>1, <1>12 DEF WriteActive, Flush, DraftIsOneWrite, OneWrite, SameBrief, SameSchedules,
     Exists, Database
<1>13. CASE Commit(c)
  BY <1>3, <1>13 DEF Commit
<1>14. CASE StartRun(c) \/ Teardown(c)
  BY <1>2, <1>14 DEF StartRun, Teardown
<1>15. CASE Return(c)
  BY <1>2, <1>15 DEF Return, NoJob
<1>16. CASE Close(c)
  BY <1>3, <1>16, TopicsAssumption DEF Close, DraftIsOneWrite
<1> QED BY <1>4, <1>5, <1>6, <1>7, <1>8, <1>9, <1>10, <1>11, <1>12, <1>13, <1>14, <1>15, <1>16
       DEF Proceed, BusyTimeout, WriteTopic

LEMMA NextInv == Inv /\ [Next]_vars => Inv'
<1>1. ASSUME Inv, NEW c \in Requests, Ask(c) \/ Proceed(c) PROVE Inv'
  <2>1. TypeOK' /\ Control' /\ SeenIsOld' /\ DraftIsOneWrite'
    BY <1>1, StepTypes, StepControl, StepSeen, StepDraft
  <2>2. Numbered(db')
    BY <1>1, CommitOnly, OneWriteNumbers DEF Inv, TypeOK, DraftIsOneWrite
  <2> QED BY <2>1, <2>2 DEF Inv
<1>2. ASSUME Inv, UNCHANGED vars PROVE Inv'
  BY <1>2 DEF vars, Inv, TypeOK, Control, InHandler, SeenIsOld, DraftIsOneWrite
<1> QED BY <1>1, <1>2 DEF Next

\* What the other theorems follow from: who holds the write lock, what a request has
\* loaded is an older brief of its topic, and a draft is one write ahead of the base.
THEOREM ResearchTopicsInvariant == Spec => []Inv
BY InitInv, NextInv, PTL DEF Spec

\* The requests, the topics and their revisions keep their types.
THEOREM ResearchTopicsTypes == Spec => []TypeOK
<1>1. Inv => TypeOK
  BY DEF Inv
<1> QED BY ResearchTopicsInvariant, <1>1, PTL

-----------------------------------------------------------------------------
(* What follows from it.                                                    *)

\* simple.py, start_research: the run it starts opens a transaction of its own, and
\* the request holds none then; the topic the run names is committed.
THEOREM NoRequestWaitsForItself == Spec => []NoSelfWait
<1>1. Inv => NoSelfWait
  BY DEF Inv, Control, InHandler, NoSelfWait
<1> QED BY ResearchTopicsInvariant, <1>1, PTL

LEMMA StepLeavesSchedule ==
    ASSUME Inv, [Next]_vars
    PROVE  \A t \in Ids :
             Exists(db, t) /\ db'.topic[t].scheduled # db.topic[t].scheduled
               => \E c \in Requests : lock = c /\ job[c].kind = "schedule"
<1>1. ASSUME NEW c \in Requests, Ask(c) \/ Proceed(c)
      PROVE  db' = db \/ (lock = c /\ db' = draft)
  BY <1>1, CommitOnly DEF Inv
<1> QED BY <1>1 DEF Next, vars, Inv, DraftIsOneWrite, SameSchedules

\* research_topics.py, update_topic: only save_schedule changes the schedule of a
\* topic that is there, whatever an edit had loaded before.
THEOREM OnlySaveScheduleReschedules == Spec => EditsLeaveSchedule
<1>1. Inv /\ [Next]_vars =>
        [\A t \in Ids :
           Exists(db, t) /\ db'.topic[t].scheduled # db.topic[t].scheduled
             => \E c \in Requests : lock = c /\ job[c].kind = "schedule"]_vars
  BY StepLeavesSchedule
<1> QED BY ResearchTopicsInvariant, <1>1, PTL DEF Spec, EditsLeaveSchedule

-----------------------------------------------------------------------------
(* The topics implement TopicHistory.                                       *)

LEMMA RevisionAt ==
    ASSUME NEW data \in Database, Numbered(data), NEW old \in data.revisions
    PROVE  BriefAt(data, old.topic, old.version) = old.brief
<1>1. old.version < data.topic[old.topic].version /\ old.version \in Nat /\ old.topic \in Ids
  BY DEF Numbered, Database, Revision
<1>2. data.topic[old.topic].version \in Nat
  BY <1>1 DEF Numbered, Database, Exists, Topic
<1>3. (CHOOSE r \in data.revisions : r.topic = old.topic /\ r.version = old.version) = old
  BY DEF Numbered
<1>4. old.version # data.topic[old.topic].version
  BY <1>1, <1>2
<1> QED BY <1>3, <1>4 DEF BriefAt

\* A topic whose brief and revisions are the same has the same history.
LEMMA SameHistory ==
    ASSUME NEW a \in Database, NEW d \in Database, Numbered(a), Numbered(d),
           NEW t \in Ids, SameBrief(a, d, t), a.revisions \subseteq d.revisions
    PROVE  HistoryOf(d)[t] = HistoryOf(a)[t]
<1>1. CASE ~Exists(a, t)
  BY <1>1 DEF HistoryOf, SameBrief
<1>2. CASE Exists(a, t)
  <2> DEFINE n == a.topic[t].version
  <2>1. n \in Nat \ {0} /\ d.topic[t].version = n /\ Exists(d, t)
    BY <1>2 DEF SameBrief, Exists, Database, Topic
  <2>2. ASSUME NEW v \in 1..n PROVE BriefAt(d, t, v) = BriefAt(a, t, v)
    <3>1. CASE v = n
      BY <1>2, <2>1, <3>1 DEF SameBrief, BriefAt
    <3>2. CASE v # n
      <4>1. v \in 1..(n - 1)
        BY <2>1, <3>2
      <4>2. PICK old \in a.revisions : old.topic = t /\ old.version = v
        BY <1>2, <4>1 DEF Numbered
      <4> QED BY <4>2, RevisionAt
    <3> QED BY <3>1, <3>2
  <2> QED BY <1>2, <2>1, <2>2 DEF HistoryOf
<1> QED BY <1>1, <1>2

LEMMA OneWriteIsHistoryStep ==
    ASSUME NEW a \in Database, NEW d \in Database, Numbered(a), OneWrite(a, d)
    PROVE  \/ HistoryOf(d) = HistoryOf(a)
           \/ \E t \in Ids, b \in Briefs :
                \/ HistoryOf(a)[t] = <<>> /\ HistoryOf(d) = [HistoryOf(a) EXCEPT ![t] = <<b>>]
                \/ HistoryOf(a)[t] # <<>>
                   /\ HistoryOf(d) = [HistoryOf(a) EXCEPT ![t] = Append(HistoryOf(a)[t], b)]
<1>1. Numbered(d)
  BY OneWriteNumbers
<1>2. CASE d.revisions = a.revisions /\ \A t \in Ids : SameBrief(a, d, t)
  <2>1. \A t \in Ids : HistoryOf(d)[t] = HistoryOf(a)[t]
    BY <1>1, <1>2, SameHistory
  <2> QED BY <2>1 DEF HistoryOf
<1>3. ASSUME NEW t \in Ids, Creates(a, d, t), \A u \in Ids \ {t} : SameBrief(a, d, u)
      PROVE  /\ BriefOf(d.topic[t]) \in Briefs
             /\ HistoryOf(a)[t] = <<>>
             /\ HistoryOf(d) = [HistoryOf(a) EXCEPT ![t] = <<BriefOf(d.topic[t])>>]
  <2>1. \A u \in Ids \ {t} : HistoryOf(d)[u] = HistoryOf(a)[u]
    BY <1>1, <1>3, SameHistory DEF Creates
  <2>2. HistoryOf(a)[t] = <<>>
    BY <1>3 DEF Creates, HistoryOf
  <2>3. HistoryOf(d)[t] = <<BriefOf(d.topic[t])>>
    BY <1>3 DEF Creates, HistoryOf, BriefAt
  <2>4. BriefOf(d.topic[t]) \in Briefs
    BY <1>3, RowTypes DEF Creates, Exists, Database
  <2> QED BY <2>1, <2>2, <2>3, <2>4 DEF HistoryOf
<1>4. ASSUME NEW t \in Ids, Edits(a, d, t), \A u \in Ids \ {t} : SameBrief(a, d, u)
      PROVE  /\ BriefOf(d.topic[t]) \in Briefs
             /\ HistoryOf(a)[t] # <<>>
             /\ HistoryOf(d) =
                  [HistoryOf(a) EXCEPT ![t] = Append(HistoryOf(a)[t], BriefOf(d.topic[t]))]
  <2> DEFINE n == a.topic[t].version
             before == [v \in 1..n |-> BriefAt(a, t, v)]
             after == [v \in 1..(n + 1) |-> BriefAt(d, t, v)]
             new == [topic |-> t, version |-> n, brief |-> BriefOf(a.topic[t])]
  <2>1. \A u \in Ids \ {t} : HistoryOf(d)[u] = HistoryOf(a)[u]
    BY <1>1, <1>4, SameHistory DEF Edits
  <2>2. n \in Nat \ {0} /\ d.topic[t].version = n + 1
    BY <1>4 DEF Edits, Exists, Database, Topic
  <2>3. HistoryOf(a)[t] = before /\ HistoryOf(d)[t] = after
    BY <1>4, <2>2 DEF Edits, HistoryOf
  <2>4. ASSUME NEW v \in 1..n PROVE BriefAt(d, t, v) = BriefAt(a, t, v)
    <3>1. CASE v = n
      <4>1. new \in d.revisions /\ new.topic = t /\ new.version = n
        BY <1>4 DEF Edits
      <4>2. BriefAt(d, t, n) = BriefOf(a.topic[t])
        BY <1>1, <4>1, RevisionAt
      <4> QED BY <3>1, <4>2 DEF BriefAt
    <3>2. CASE v # n
      <4>1. v \in 1..(n - 1)
        BY <2>2, <3>2
      <4>2. PICK old \in a.revisions : old.topic = t /\ old.version = v
        BY <1>4, <4>1 DEF Numbered, Edits
      <4>3. old \in d.revisions
        BY <1>4, <4>2 DEF Edits
      <4> QED BY <1>1, <4>2, <4>3, RevisionAt
    <3> QED BY <3>1, <3>2
  <2>5. BriefAt(d, t, n + 1) = BriefOf(d.topic[t])
    BY <2>2 DEF BriefAt
  <2>6. BriefOf(d.topic[t]) \in Briefs /\ \A v \in 1..n : BriefAt(a, t, v) \in Briefs
    <3>1. d.topic[t] \in Topic /\ a.topic[t] \in Topic
      BY <1>4 DEF Edits, Exists, Database
    <3>2. ASSUME NEW v \in 1..(n - 1) PROVE BriefAt(a, t, v) \in Briefs
      <4>1. PICK old \in a.revisions : old.topic = t /\ old.version = v
        BY <1>4, <3>2 DEF Numbered, Edits
      <4> QED BY <4>1, RevisionAt DEF Database, Revision
    <3>3. BriefAt(a, t, n) \in Briefs
      BY <3>1, RowTypes DEF BriefAt
    <3> QED BY <2>2, <3>1, <3>2, <3>3, RowTypes
  <2>7. after = Append(before, BriefOf(d.topic[t])) /\ before # <<>>
    <3>1. before \in Seq(Briefs) /\ Len(before) = n
      BY <2>2, <2>6
    <3>2. after \in Seq(Briefs) /\ Len(after) = n + 1
      BY <2>2, <2>4, <2>5, <2>6
    <3> QED BY <2>2, <2>4, <2>5, <2>6, <3>1, <3>2
  <2> QED BY <2>1, <2>3, <2>6, <2>7 DEF HistoryOf
<1> QED BY <1>2, <1>3, <1>4 DEF OneWrite

\* The history of the topics starts as a history and takes its steps.
LEMMA InitHistory == Init => History!Init
<1> SUFFICES ASSUME Init PROVE HistoryOf(db) \in [Ids -> {<<>>} \cup {<<b>> : b \in Briefs}]
  BY DEF History!Init
<1>1. \A t \in Ids : Exists(db, t) => db.topic[t].version = 1 /\ BriefOf(db.topic[t]) \in Briefs
  <2>1. \A t \in Ids : Exists(db, t) => db.topic[t].version = 1
    BY DEF Init, Exists
  <2> QED BY <2>1, RowTypes, InitInv DEF Inv, TypeOK, Database, Exists
<1>2. \A t \in Ids : Exists(db, t) => HistoryOf(db)[t] = <<BriefOf(db.topic[t])>>
  BY <1>1 DEF HistoryOf, BriefAt
<1>3. \A t \in Ids : ~Exists(db, t) => HistoryOf(db)[t] = <<>>
  BY DEF HistoryOf
<1> QED BY <1>1, <1>2, <1>3 DEF HistoryOf

LEMMA NextHistory ==
    ASSUME Inv, Inv', [Next]_vars
    PROVE  [History!Next]_(HistoryOf(db))
<1>1. CASE db' = db
  BY <1>1
<1>2. CASE db' # db
  <2>1. db \in Database /\ db' \in Database /\ Numbered(db) /\ OneWrite(db, db')
    <3>1. \A c \in Requests : Ask(c) \/ Proceed(c) => db' = db \/ (lock = c /\ db' = draft)
      BY CommitOnly DEF Inv
    <3> QED BY <1>2, <3>1 DEF Next, vars, Inv, TypeOK, DraftIsOneWrite
  <2>2. HistoryOf(db)' = HistoryOf(db')
    BY DEF HistoryOf, BriefAt, Exists
  <2> QED BY <2>1, <2>2, OneWriteIsHistoryStep DEF History!Next, History!Create, History!Edit
<1> QED BY <1>1, <1>2

\* research_topics.py, update_topic: however edits by form and by conversation
\* overlap, the briefs of a topic are one sequence that only grows.
THEOREM TopicsKeepTheirHistory == Spec => KeepsHistory
<1>1. Inv /\ Inv' /\ [Next]_vars => [History!Next]_(HistoryOf(db))
  BY NextHistory
<1> QED BY InitHistory, ResearchTopicsInvariant, <1>1, PTL DEF Spec, KeepsHistory, History!Spec
=============================================================================
