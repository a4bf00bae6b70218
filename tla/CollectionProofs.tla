--------------------------- MODULE CollectionProofs ---------------------------
(***************************************************************************)
(* Proofs about Collection, for any topics and queries, any sources and    *)
(* feeds, any number of workers and any thresholds.                        *)
(***************************************************************************)
EXTENDS Collection, FiniteSetTheorems, TLAPS

-----------------------------------------------------------------------------
(* The inductive invariant.                                                 *)

Replies == [kind : Counted, items : 0..1]
Stages == {"queued", "lookup", "check", "feed", "call", "sent", "judge", "note",
           "store", "done"}
Tasks == [pc : Stages, at : Nat \ {0}, tries : Nat \ {0}, feed : Nat \ {0},
          lost : Nat, answer : Replies \cup {None}, outcome : Outcomes]
Breakers == [failures : Nat, open : BOOLEAN, over : BOOLEAN]

Types ==
  /\ plan \in Plans
  /\ current \in 1..Len(Topics) + 1
  /\ task \in [Queries -> Tasks]
  /\ seen \in [Keys -> Outcomes \cup {None}]
  /\ cache \in [Sources \X Keys -> Answers \cup {None}]
  /\ noted \in [Sources -> SUBSET Counted]
  /\ status \in [1..Len(Topics) -> TopicStatus \cup {None}]
  /\ heard \subseteq Sources \X Keys \X (0..1)
  /\ missed \subseteq 1..Len(Topics)
  /\ askedBy \in [Keys -> SUBSET (1..Len(Topics))]

Bad == {"failed", "circuit_open"}
Unfed(s) == s = Rss /\ plan.feeds = <<>>

\* The feeds are not taken away while an answer they gave is still remembered.
FeedsStay ==
  \A p \in Plans, k \in Keys : p.feeds = <<>> => <<Rss, k>> \notin Remembered

\* An outcome says no more than the sources said, and the counters know what failed.
GoodOutcome(o, k) ==
  /\ o.found > 0 => o.ok # {}
  /\ o.ok # {} => \E h \in heard : h[2] = k /\ (o.found = 0 => h[3] = 0)
  /\ o.ok \cup o.failed \subseteq Range(plan.order)
  /\ \A s \in o.failed : noted[s] \cap Bad # {}
  /\ FeedsStay => \A s \in o.ok : ~Unfed(s)

\* Only a query whose sources are all without feeds comes to nothing at all.
Through(o) ==
  o.ok = {} /\ o.failed = {} => \A s \in Range(plan.order) : Unfed(s)

AtSource(t) ==
  /\ t.at \in 1..Len(plan.order)
  /\ t.outcome.ok = {} /\ t.outcome.failed = {} =>
       \A j \in 1..t.at - 1 : Unfed(plan.order[j])
GoodAnswer(q, s, a) ==
  /\ a \in Replies
  /\ a.kind = "ok" => <<s, Key(q), a.items>> \in heard
  /\ a.kind # "ok" => a.items = 0
  /\ a.kind = "not_configured" <=> Unfed(s)
GoodTask(q, t) ==
  /\ GoodOutcome(t.outcome, Key(q))
  /\ t.at \in 1..Len(plan.order) \cup {1}
  /\ t.pc = "queued" => t = Idle
  /\ t.pc \notin {"queued", "store", "done"} => AtSource(t)
  /\ t.pc = "feed" => plan.order[t.at] = Rss
  /\ t.pc \in {"call", "sent"} /\ plan.order[t.at] = Rss => t.feed <= Len(plan.feeds)
  /\ t.pc \in {"judge", "note"} => GoodAnswer(q, plan.order[t.at], t.answer)
  /\ t.pc \in {"store", "done"} => Through(t.outcome)
  /\ t.pc = "done" => seen[Key(q)] # None
TasksAreGood == \A q \in Queries : GoodTask(q, task[q])

\* A source without feeds is never asked, so its breaker never counts.
BreakersAreGood ==
  /\ breaker \in [Sources -> Breakers]
  /\ BreakerRefuses
  /\ plan.feeds = <<>> => breaker[Rss].failures = 0

CacheIsHeard ==
  \A e \in Sources \X Keys : cache[e] # None =>
    /\ <<e[1], e[2], cache[e].items>> \in heard
    /\ FeedsStay => ~Unfed(e[1])
SeenIsGood ==
  \A k \in Keys : seen[k] # None => GoodOutcome(seen[k], k) /\ Through(seen[k])

NotedFits ==
  \A s \in Sources :
    /\ "not_configured" \in noted[s] => Unfed(s)
    /\ Unfed(s) => noted[s] \subseteq {"not_configured"}
    /\ noted[s] \cap Bad # {} => missed # {}

\* The topics before the current one are through, those after it untouched.
InOrder ==
  /\ \A i \in DOMAIN Topics : i < current => \A q \in Topics[i] : task[q].pc = "done"
  /\ \A i \in DOMAIN Topics : i > current => \A q \in Topics[i] : task[q].pc = "queued"

\* What a topic missed its status admits, or one of its queries still carries.
Degraded(i) == status[i] \in {"collection_failed", "partial_collection"}
MissedIsTold ==
  \A i \in missed :
    /\ i <= current
    /\ i < current => Degraded(i)
    /\ i = current => \E q \in Topics[i] : task[q].outcome.failed # {}

Backed(i) ==
  \A q \in Topics[i] :
    \E h \in heard : h[2] = Key(q) /\ (status[i] = "no_candidates" => h[3] = 0)
StatusIsBacked ==
  \A i \in 1..Len(Topics) :
    /\ i >= current => status[i] = None
    /\ Degraded(i) => \E s \in Sources : noted[s] \cap Bad # {}
    /\ FeedsStay /\ status[i] \in {"ok", "no_candidates"} => Backed(i)

AskedOnce ==
  \A k \in Keys :
    /\ \A i, j \in askedBy[k] : i = j
    /\ \A i \in askedBy[k] :
         i <= current /\ \E q \in Topics[i] : Key(q) = k /\ task[q].pc # "queued"

Inv ==
  /\ Types /\ TasksAreGood /\ BreakersAreGood /\ CacheIsHeard /\ SeenIsGood
  /\ NotedFits /\ InOrder /\ MissedIsTold /\ StatusIsBacked /\ AskedOnce

-----------------------------------------------------------------------------
(* Constants: topics, queries and plans.                                    *)

LEMMA TopicsAreTyped ==
  /\ Len(Topics) \in Nat
  /\ DOMAIN Topics = 1..Len(Topics)
  /\ \A i \in DOMAIN Topics : Topics[i] \subseteq Queries
BY CollectionAssumption

LEMMA QueryHasTopic ==
  ASSUME NEW q \in Queries
  PROVE  \E i \in 1..Len(Topics) : q \in Topics[i]
BY TopicsAreTyped DEF Queries, Range

LEMMA QueryHasOneTopic ==
  ASSUME NEW i \in 1..Len(Topics), NEW j \in 1..Len(Topics),
         NEW q \in Topics[i], q \in Topics[j]
  PROVE  i = j
BY CollectionAssumption, TopicsAreTyped

LEMMA KeyIsKey == \A q \in Queries : Key(q) \in Keys
BY CollectionAssumption DEF Key

LEMMA PlanFacts ==
  ASSUME NEW p \in Plans
  PROVE  /\ p.order \in Seq(Sources) /\ Len(p.order) \in Nat
         /\ DOMAIN p.order = 1..Len(p.order)
         /\ Range(p.order) \subseteq Sources
         /\ \A i \in 1..Len(p.order) : p.order[i] \in Sources /\ p.order[i] \in Range(p.order)
         /\ p.order = <<>> <=> Len(p.order) = 0
         /\ Len(p.feeds) \in Nat
         /\ p.feeds = <<>> <=> Len(p.feeds) = 0
<1>1. p.order \in Seq(Sources) /\ p.feeds \in Seq(Range(p.feeds))
  BY CollectionAssumption
<1>2. /\ Len(p.order) \in Nat /\ DOMAIN p.order = 1..Len(p.order)
      /\ p.order = <<>> <=> Len(p.order) = 0
      /\ \A i \in 1..Len(p.order) : p.order[i] \in Sources
  BY <1>1
<1>3. Len(p.feeds) \in Nat /\ (p.feeds = <<>> <=> Len(p.feeds) = 0)
  BY <1>1
<1>4. Range(p.order) \subseteq Sources
      /\ \A i \in 1..Len(p.order) : p.order[i] \in Range(p.order)
  BY <1>2 DEF Range
<1> QED BY <1>1, <1>2, <1>3, <1>4

-----------------------------------------------------------------------------
(* What is heard and noted is not forgotten.                                *)

Grows ==
  /\ plan' = plan
  /\ heard \subseteq heard'
  /\ \A s \in Sources : noted[s] \subseteq noted'[s]
  /\ \A k \in Keys : seen[k] # None => seen'[k] # None

LEMMA OutcomeStays ==
  ASSUME Types, Grows, NEW o, NEW k, GoodOutcome(o, k)
  PROVE  GoodOutcome(o, k)'
<1>1. \A s \in o.failed : s \in Sources
  BY PlanFacts DEF GoodOutcome, Types
<1>2. \A s \in o.failed : noted'[s] \cap Bad # {}
  BY <1>1 DEF GoodOutcome, Grows
<1> QED BY <1>2 DEF GoodOutcome, Grows, Unfed

LEMMA ThroughStays ==
  ASSUME Grows, NEW o, Through(o)
  PROVE  Through(o)'
BY DEF Through, Grows, Unfed

LEMMA TaskStays ==
  ASSUME Types, Grows, NEW q \in Queries, NEW t \in Tasks, GoodTask(q, t)
  PROVE  GoodTask(q, t)'
<1>1. GoodOutcome(t.outcome, Key(q))'
  BY OutcomeStays DEF GoodTask, Key
<1>2. AtSource(t) => AtSource(t)'
  BY DEF AtSource, Grows, Unfed
<1>3. \A s : GoodAnswer(q, s, t.answer) => GoodAnswer(q, s, t.answer)'
  BY DEF GoodAnswer, Grows, Unfed, Key
<1>4. Through(t.outcome) => Through(t.outcome)'
  BY ThroughStays
<1>5. seen[Key(q)] # None => seen'[Key(q)] # None
  BY KeyIsKey DEF Grows
<1>6. plan' = plan
  BY DEF Grows
<1> QED BY <1>1, <1>2, <1>3, <1>4, <1>5, <1>6 DEF GoodTask, Key

\* One query moves on, the others stay where they are.
LEMMA TasksStay ==
  ASSUME Types, TasksAreGood, Grows, NEW q \in Queries, NEW w \in Tasks,
         task' = [task EXCEPT ![q] = w], GoodTask(q, w)'
  PROVE  TasksAreGood' /\ task' \in [Queries -> Tasks]
<1>1. task' \in [Queries -> Tasks] /\ task'[q] = w
      /\ \A p \in Queries \ {q} : task'[p] = task[p]
  BY DEF Types
<1>2. ASSUME NEW p \in Queries PROVE GoodTask(p, task[p])'
  <2>1. CASE p = q
    <3>1. task'[p] = w
      BY <1>1, <2>1
    <3>2. GoodTask(p, w)'
      BY <2>1
    <3> QED BY <3>1, <3>2 DEF GoodTask
  <2>2. CASE p # q
    <3>1. PICK t \in Tasks : t = task[p]
      BY DEF Types
    <3>2. GoodTask(p, t)'
      BY <3>1, TaskStays DEF TasksAreGood
    <3>3. task'[p] = t
      BY <1>1, <2>2, <3>1
    <3> QED BY <3>2, <3>3 DEF GoodTask
  <2> QED BY <2>1, <2>2
<1> QED BY <1>1, <1>2 DEF TasksAreGood

LEMMA TasksFreeze ==
  ASSUME Types, TasksAreGood, Grows, task' = task
  PROVE  TasksAreGood'
<1> SUFFICES ASSUME NEW q \in Queries PROVE GoodTask(q, task[q])'
  BY DEF TasksAreGood
<1>1. PICK t \in Tasks : t = task[q]
  BY DEF Types
<1>2. GoodTask(q, t)' /\ task'[q] = t
  BY <1>1, TaskStays DEF TasksAreGood
<1> QED BY <1>2 DEF GoodTask

LEMMA CacheStays ==
  ASSUME Grows, CacheIsHeard, cache' = cache
  PROVE  CacheIsHeard'
BY DEF Grows, CacheIsHeard, Unfed

LEMMA SeenStays ==
  ASSUME Types, Grows, SeenIsGood, seen' = seen
  PROVE  SeenIsGood'
<1> SUFFICES ASSUME NEW k \in Keys, seen[k] # None
             PROVE  (GoodOutcome(seen[k], k) /\ Through(seen[k]))'
  BY DEF SeenIsGood
<1>1. PICK o : o = seen[k]
  OBVIOUS
<1>2. GoodOutcome(o, k)' /\ Through(o)'
  BY <1>1, OutcomeStays, ThroughStays DEF SeenIsGood
<1>3. seen'[k] = o
  BY <1>1
<1> QED BY <1>2, <1>3 DEF GoodOutcome, Through

-----------------------------------------------------------------------------
(* A step of one query, in the topic being collected.                       *)

LEMMA CurrentTopic ==
  ASSUME Types, InOrder, NEW q \in Queries, task[q].pc \notin {"queued", "done"}
  PROVE  current \in 1..Len(Topics) /\ q \in Topics[current]
<1>1. PICK i \in 1..Len(Topics) : q \in Topics[i]
  BY QueryHasTopic
<1>2. i \in DOMAIN Topics /\ current \in Nat
  BY TopicsAreTyped DEF Types
<1>3. ~(i < current) /\ ~(i > current)
  BY <1>1, <1>2 DEF InOrder
<1> QED BY <1>1, <1>2, <1>3

Acts(q) ==
  /\ current \in 1..Len(Topics)
  /\ q \in Topics[current]
  /\ task[q].pc # "done"
  /\ task'[q].pc # "queued"
  /\ \A p \in Queries \ {q} : task'[p] = task[p]
  /\ task[q].outcome.failed \subseteq task'[q].outcome.failed
  /\ UNCHANGED <<plan, current, status>>

LEMMA ActsKeepOrder ==
  ASSUME Types, InOrder, NEW q \in Queries, Acts(q)
  PROVE  InOrder'
<1>1. ASSUME NEW i \in DOMAIN Topics, i # current, NEW p \in Topics[i]
      PROVE  task'[p] = task[p]
  <2>1. p # q
    BY <1>1, QueryHasOneTopic, TopicsAreTyped DEF Acts
  <2>2. p \in Queries
    BY <1>1, TopicsAreTyped
  <2> QED BY <2>1, <2>2 DEF Acts
<1>2. current' = current /\ current \in Nat /\ \A i \in DOMAIN Topics : i \in Nat
  BY TopicsAreTyped DEF Acts, Types
<1>3. ASSUME NEW i \in DOMAIN Topics, i < current, NEW p \in Topics[i]
      PROVE  task'[p].pc = "done"
  BY <1>1, <1>2, <1>3 DEF InOrder
<1>4. ASSUME NEW i \in DOMAIN Topics, i > current, NEW p \in Topics[i]
      PROVE  task'[p].pc = "queued"
  BY <1>1, <1>2, <1>4 DEF InOrder
<1> QED BY <1>2, <1>3, <1>4 DEF InOrder

LEMMA StatusStays ==
  ASSUME Types, Grows, StatusIsBacked, UNCHANGED <<current, status>>
  PROVE  StatusIsBacked'
<1> SUFFICES ASSUME NEW i \in 1..Len(Topics)
             PROVE  /\ i >= current => status[i] = None
                    /\ Degraded(i) => \E s \in Sources : noted'[s] \cap Bad # {}
                    /\ FeedsStay /\ status[i] \in {"ok", "no_candidates"} => Backed(i)'
  BY DEF StatusIsBacked, Degraded
<1>1. Backed(i) => Backed(i)'
  BY DEF Backed, Grows, Key
<1>2. (\E s \in Sources : noted[s] \cap Bad # {}) => \E s \in Sources : noted'[s] \cap Bad # {}
  BY DEF Grows
<1> QED BY <1>1, <1>2 DEF StatusIsBacked

LEMMA ActsKeepMissed ==
  ASSUME Types, MissedIsTold, NEW q \in Queries, Acts(q),
         \/ missed' = missed
         \/ missed' = missed \cup {current} /\ task'[q].outcome.failed # {}
  PROVE  MissedIsTold' /\ missed' \subseteq 1..Len(Topics)
<1>1. current \in 1..Len(Topics) /\ missed \subseteq 1..Len(Topics)
  BY DEF Types, Acts
<1>2. missed' \subseteq 1..Len(Topics) /\ current \in Nat
  <2>1. missed' \subseteq missed \cup {current}
    OBVIOUS
  <2> QED BY <1>1, <2>1, TopicsAreTyped
<1>0. current' = current /\ status' = status
  BY DEF Acts
<1> SUFFICES ASSUME NEW i \in missed'
             PROVE  /\ i <= current
                    /\ i < current => Degraded(i)
                    /\ i = current => \E p \in Topics[i] : task'[p].outcome.failed # {}
  BY <1>0, <1>2 DEF MissedIsTold, Degraded
<1>3. CASE i \in missed
  <2>1. \A p \in Topics[i] : task[p].outcome.failed # {} => task'[p].outcome.failed # {}
    BY <1>3, TopicsAreTyped DEF Acts, Types
  <2> QED BY <1>3, <2>1 DEF MissedIsTold
<1>4. CASE i \notin missed
  BY <1>2, <1>4 DEF Acts
<1> QED BY <1>3, <1>4

LEMMA ActsKeepAsked ==
  ASSUME Types, AskedOnce, NEW q \in Queries, Acts(q), askedBy' = askedBy
  PROVE  AskedOnce'
<1>1. ASSUME NEW k \in Keys, NEW i \in askedBy[k]
      PROVE  \E p \in Topics[i] : Key(p) = k /\ task'[p].pc # "queued"
  <2>1. PICK p \in Topics[i] : Key(p) = k /\ task[p].pc # "queued"
    BY <1>1 DEF AskedOnce
  <2>2. p \in Queries
    BY TopicsAreTyped DEF Types
  <2>3. task'[p].pc # "queued"
    BY <2>1, <2>2 DEF Acts
  <2> QED BY <2>1, <2>3
<1> QED BY <1>1 DEF AskedOnce, Acts, Key

\* What a step of a query leaves to be shown.
LEMMA ActsKeepInv ==
  ASSUME Inv, Grows, NEW q \in Queries, NEW w \in Tasks, Acts(q),
         task' = [task EXCEPT ![q] = w], GoodTask(q, w)',
         seen' \in [Keys -> Outcomes \cup {None}], SeenIsGood',
         cache' \in [Sources \X Keys -> Answers \cup {None}], CacheIsHeard',
         noted' \in [Sources -> SUBSET Counted], NotedFits',
         heard' \subseteq Sources \X Keys \X (0..1),
         askedBy' \in [Keys -> SUBSET (1..Len(Topics))], AskedOnce',
         BreakersAreGood',
         \/ missed' = missed
         \/ missed' = missed \cup {current} /\ task'[q].outcome.failed # {}
  PROVE  Inv'
<1>1. TasksAreGood' /\ task' \in [Queries -> Tasks]
  BY TasksStay DEF Inv
<1>2. InOrder'
  BY ActsKeepOrder DEF Inv
<1>3. StatusIsBacked'
  BY StatusStays DEF Inv, Acts
<1>4. MissedIsTold' /\ missed' \subseteq 1..Len(Topics)
  BY ActsKeepMissed DEF Inv
<1>5. UNCHANGED <<plan, current, status>>
  BY DEF Acts
<1>6. Types'
  BY <1>1, <1>4, <1>5 DEF Inv, Types
<1> QED BY <1>1, <1>2, <1>3, <1>4, <1>6 DEF Inv

\* A step that only moves a query, or gathers an answer for it.
LEMMA MovesKeepInv ==
  ASSUME Inv, NEW q \in Queries, NEW w \in Tasks, Acts(q),
         task' = [task EXCEPT ![q] = w], GoodTask(q, w)',
         UNCHANGED <<plan, seen, cache, noted, missed, askedBy>>,
         heard \subseteq heard', heard' \subseteq Sources \X Keys \X (0..1),
         BreakersAreGood'
  PROVE  Inv'
<1>1. Grows
  BY DEF Grows
<1>2. CacheIsHeard' /\ SeenIsGood'
  BY <1>1, CacheStays, SeenStays DEF Inv
<1>3. NotedFits'
  BY DEF Inv, NotedFits, Unfed
<1>4. AskedOnce'
  BY ActsKeepAsked DEF Inv
<1>5. /\ seen' \in [Keys -> Outcomes \cup {None}]
      /\ cache' \in [Sources \X Keys -> Answers \cup {None}]
      /\ noted' \in [Sources -> SUBSET Counted]
      /\ askedBy' \in [Keys -> SUBSET (1..Len(Topics))]
  BY DEF Inv, Types
<1> QED BY <1>1, <1>2, <1>3, <1>4, <1>5, ActsKeepInv

LEMMA BreakersStay ==
  ASSUME BreakersAreGood, UNCHANGED <<plan, breaker>>
  PROVE  BreakersAreGood'
BY DEF BreakersAreGood, BreakerRefuses

-----------------------------------------------------------------------------
(* An answer joins the outcome of its query.                                *)

LEMMA SourceFacts ==
  ASSUME Types, NEW q \in Queries, AtSource(task[q])
  PROVE  /\ Source(q) = plan.order[task[q].at]
         /\ Source(q) \in Sources
         /\ Source(q) \in Range(plan.order)
BY PlanFacts DEF Types, AtSource, Source

\* What one answer makes of an outcome.
Joined(o, s, kind, items) ==
  [ok     |-> IF kind = "ok" THEN o.ok \cup {s} ELSE o.ok,
   failed |-> IF kind \in {"failed", "circuit_open"} THEN o.failed \cup {s} ELSE o.failed,
   found  |-> o.found + items]

LEMMA JoinedIsGood ==
  ASSUME Types, Grows, NEW o \in Outcomes, NEW k \in Keys, GoodOutcome(o, k),
         NEW s \in Range(plan.order), NEW kind \in Counted, NEW items \in 0..1,
         kind = "ok" => <<s, k, items>> \in heard' /\ (FeedsStay => ~Unfed(s)),
         kind # "ok" => items = 0,
         kind \in Bad => noted'[s] \cap Bad # {}
  PROVE  Joined(o, s, kind, items) \in Outcomes /\ GoodOutcome(Joined(o, s, kind, items), k)'
<1> DEFINE n == Joined(o, s, kind, items)
<1>1. s \in Sources /\ o.found \in Nat /\ o.ok \subseteq Sources /\ o.failed \subseteq Sources
  BY PlanFacts DEF Types, Outcomes
<1>2. n \in Outcomes
  BY <1>1 DEF Joined, Outcomes
<1>3. /\ n.ok = IF kind = "ok" THEN o.ok \cup {s} ELSE o.ok
      /\ n.failed = IF kind \in Bad THEN o.failed \cup {s} ELSE o.failed
      /\ n.found = o.found + items
  BY DEF Joined, Bad
<1> HIDE DEF n
<1>4. GoodOutcome(o, k)'
  BY OutcomeStays
<1>5. n.found > 0 => n.ok # {}
  BY <1>1, <1>3 DEF GoodOutcome
<1>6. n.ok # {} => \E h \in heard' : h[2] = k /\ (n.found = 0 => h[3] = 0)
  <2>1. CASE kind = "ok"
    <3>1. <<s, k, items>> \in heard' /\ (n.found = 0 => items = 0)
      BY <1>1, <1>3, <2>1
    <3> QED BY <3>1
  <2>2. CASE kind # "ok"
    <3>1. n.ok = o.ok /\ n.found = o.found
      BY <1>1, <1>3, <2>2
    <3> QED BY <1>4, <3>1 DEF GoodOutcome
  <2> QED BY <2>1, <2>2
<1>7. n.ok \cup n.failed \subseteq Range(plan'.order)
  BY <1>3, <1>4 DEF GoodOutcome, Grows
<1>8. \A x \in n.failed : noted'[x] \cap Bad # {}
  BY <1>3, <1>4 DEF GoodOutcome
<1>9. FeedsStay => \A x \in n.ok : ~Unfed(x)'
  BY <1>3, <1>4 DEF GoodOutcome, Unfed, Grows
<1> QED BY <1>2, <1>5, <1>6, <1>7, <1>8, <1>9 DEF GoodOutcome, n

LEMMA AppendedIsGood ==
  ASSUME Inv, Grows, NEW q \in Queries, AtSource(task[q]),
         NEW kind \in Counted, NEW items \in 0..1,
         kind = "ok" => <<Source(q), Key(q), items>> \in heard' /\ (FeedsStay => ~Unfed(Source(q))),
         kind # "ok" => items = 0,
         kind \in Bad => noted'[Source(q)] \cap Bad # {},
         kind = "not_configured" => Unfed(Source(q)),
         NEW w, w = Appended(q, kind, items)
  PROVE  /\ w \in Tasks /\ GoodTask(q, w)'
         /\ w.pc \in {"lookup", "store"}
         /\ task[q].outcome.failed \subseteq w.outcome.failed
         /\ kind \in Bad => w.outcome.failed # {}
<1>1. PICK s, o, a : s = Source(q) /\ o = task[q].outcome /\ a = task[q].at
  OBVIOUS
<1>2. PICK n : n = Joined(o, s, kind, items)
  OBVIOUS
<1>3. PICK last \in BOOLEAN : last <=> n.found >= MinCandidates \/ a = Len(plan.order)
  OBVIOUS
<1>4. PICK at : at = IF last THEN a ELSE a + 1
  OBVIOUS
<1>5. w = [Idle EXCEPT !.pc = IF last THEN "store" ELSE "lookup", !.at = at, !.outcome = n]
  BY <1>1, <1>2, <1>3, <1>4 DEF Appended, Joined
<1>6. /\ Types /\ GoodTask(q, task[q]) /\ task[q] \in Tasks
      /\ plan' = plan /\ Key(q) \in Keys
  BY KeyIsKey DEF Inv, Types, TasksAreGood, Grows
<1>7. o \in Outcomes /\ GoodOutcome(o, Key(q))
  BY <1>6, <1>1 DEF Tasks, GoodTask
<1>8. /\ s = plan.order[a] /\ s \in Range(plan.order)
      /\ a \in 1..Len(plan.order) /\ Len(plan.order) \in Nat
      /\ DOMAIN plan.order = 1..Len(plan.order)
  BY <1>6, <1>1, SourceFacts, PlanFacts DEF AtSource, Types
<1>9. n \in Outcomes /\ GoodOutcome(n, Key(q))'
  BY <1>6, <1>7, <1>8, <1>1, <1>2, JoinedIsGood
<1>10. /\ n.ok = IF kind = "ok" THEN o.ok \cup {s} ELSE o.ok
      /\ n.failed = IF kind \in Bad THEN o.failed \cup {s} ELSE o.failed
  BY <1>2 DEF Joined, Bad
<1>11. n.found \in Nat /\ MinCandidates \in Nat \ {0}
  BY <1>9, CollectionAssumption DEF Outcomes
<1>12. n.ok = {} /\ n.failed = {} => \A j \in 1..a : Unfed(plan.order[j])
  <2> SUFFICES ASSUME n.ok = {}, n.failed = {}, NEW j \in 1..a
               PROVE  Unfed(plan.order[j])
    OBVIOUS
  <2>1. o.ok = {} /\ o.failed = {} /\ kind = "not_configured"
    BY <1>10 DEF Counted, Bad
  <2>2. CASE j = a
    BY <1>8, <1>1, <2>1, <2>2
  <2>3. CASE j # a
    BY <1>8, <1>1, <2>1, <2>3 DEF AtSource
  <2> QED BY <2>2, <2>3
<1>13. n.found > 0 => n.ok # {}
  BY <1>9 DEF GoodOutcome
<1>14. /\ w.pc = IF last THEN "store" ELSE "lookup"
       /\ w.at = at /\ w.outcome = n
       /\ w.tries = 1 /\ w.feed = 1 /\ w.lost = 0 /\ w.answer = None
  BY <1>5 DEF Idle
<1>15. at \in 1..Len(plan.order) /\ (~last => at = a + 1)
  BY <1>8, <1>3, <1>4
<1>16. w \in Tasks
  <2>1. at \in Nat \ {0}
    BY <1>8, <1>15
  <2>2. PICK pc \in Stages : pc = IF last THEN "store" ELSE "lookup"
    BY DEF Stages
  <2>3. w = [pc |-> pc, at |-> at, tries |-> 1, feed |-> 1, lost |-> 0,
             answer |-> None, outcome |-> n]
    BY <1>5, <2>2 DEF Idle
  <2> QED BY <1>9, <2>1, <2>3 DEF Tasks
<1>17. last => Through(n)'
  <2> SUFFICES ASSUME last, n.ok = {}, n.failed = {}, NEW x \in Range(plan.order)
               PROVE  Unfed(x)
    BY <1>6 DEF Through, Unfed
  <2>1. a = Len(plan.order)
    BY <1>11, <1>13, <1>3
  <2>2. PICK j \in 1..Len(plan.order) : x = plan.order[j]
    BY <1>8 DEF Range
  <2> QED BY <1>12, <2>1, <2>2
<1>18. ~last => AtSource(w)'
  <2> SUFFICES ASSUME ~last PROVE AtSource(w)'
    OBVIOUS
  <2>1. w.at - 1 = a /\ w.at \in 1..Len(plan.order)
    BY <1>8, <1>14, <1>15
  <2> QED BY <1>6, <1>12, <1>14, <2>1 DEF AtSource, Unfed
<1>19. GoodTask(q, w)'
  <2>1. GoodOutcome(w.outcome, Key(q))'
    BY <1>9, <1>14
  <2>2. w.pc \in {"lookup", "store"} /\ (w.pc = "lookup" <=> ~last)
    BY <1>14
  <2>3. w.pc = "store" => Through(w.outcome)'
    BY <1>14, <1>17, <2>2
  <2>4. w.at \in 1..Len(plan'.order)
    BY <1>6, <1>14, <1>15
  <2> QED BY <1>18, <2>1, <2>2, <2>3, <2>4 DEF GoodTask, Key
<1>20. o.failed \subseteq n.failed /\ (kind \in Bad => n.failed # {})
  BY <1>10
<1> QED BY <1>1, <1>14, <1>16, <1>19, <1>20

-----------------------------------------------------------------------------
(* One query at one source.                                                 *)

LEMMA GoesOn ==
  ASSUME Types, InOrder, NEW q \in Queries, task[q].pc \notin {"queued", "done"},
         NEW w, task' = [task EXCEPT ![q] = w], w.pc # "queued",
         task[q].outcome.failed \subseteq w.outcome.failed,
         UNCHANGED <<plan, current, status>>
  PROVE  Acts(q) /\ task'[q] = w
<1>1. task'[q] = w /\ \A p \in Queries \ {q} : task'[p] = task[p]
  BY DEF Types
<1>2. current \in 1..Len(Topics) /\ q \in Topics[current]
  BY CurrentTopic
<1> QED BY <1>1, <1>2 DEF Acts

LEMMA IsReply ==
  ASSUME NEW kind \in Counted, NEW items \in 0..1
  PROVE  [kind |-> kind, items |-> items] \in Replies
BY DEF Replies

Fetching == {"check", "feed", "call", "sent", "judge", "note"}
Quiet == UNCHANGED <<plan, current, status, seen, cache, noted, missed, askedBy>>

\* Until the answer is noted, a fetch changes the place of its query alone.
LEMMA FetchKeepsInv ==
  ASSUME Inv, NEW q \in Queries, NEW w \in Tasks, NEW s, s = Source(q),
         task[q].pc \notin {"queued", "store", "done"},
         task' = [task EXCEPT ![q] = w], w.pc \in Fetching,
         w.at = task[q].at, w.outcome = task[q].outcome,
         w.pc = "feed" => s = Rss,
         w.pc \in {"call", "sent"} /\ s = Rss => w.feed <= Len(plan.feeds),
         w.pc \in {"judge", "note"} => GoodAnswer(q, s, w.answer)',
         Quiet, heard \subseteq heard', heard' \subseteq Sources \X Keys \X (0..1),
         BreakersAreGood'
  PROVE  Inv'
<1>1. PICK t \in Tasks : t = task[q]
  BY DEF Inv, Types
<1>2. /\ Types /\ InOrder /\ GoodTask(q, t) /\ AtSource(t)
      /\ s = plan.order[t.at]
  BY <1>1 DEF Inv, TasksAreGood, GoodTask, Source
<1>3. Grows
  BY DEF Grows, Quiet
<1>4. GoodTask(q, t)' /\ plan' = plan
  BY <1>2, <1>3, TaskStays DEF Quiet
<1>5. AtSource(w)' /\ GoodOutcome(w.outcome, Key(q))'
  BY <1>1, <1>2, <1>4 DEF GoodTask, AtSource, Quiet, Unfed
<1>6. w.pc \notin {"queued", "store", "done"}
  BY DEF Fetching
<1>7. /\ w.pc = "feed" => plan'.order[w.at] = Rss
      /\ w.pc \in {"call", "sent"} /\ plan'.order[w.at] = Rss => w.feed <= Len(plan'.feeds)
      /\ w.pc \in {"judge", "note"} => GoodAnswer(q, plan.order[w.at], w.answer)'
  <2>1. w.at = t.at
    BY <1>1
  <2>2. w.pc \in {"judge", "note"} => GoodAnswer(q, plan.order[w.at], w.answer)'
    BY <1>2, <1>4, <2>1 DEF GoodAnswer
  <2> QED BY <1>2, <1>4, <2>1, <2>2
<1>8. GoodTask(q, w)'
  <2>1. w.at \in 1..Len(plan'.order)
    BY <1>5 DEF AtSource
  <2> QED BY <1>5, <1>6, <1>7, <2>1 DEF GoodTask
<1>9. Acts(q)
  BY <1>2, <1>6, GoesOn DEF Quiet
<1> QED BY <1>8, <1>9, MovesKeepInv DEF Quiet

LEMMA LookupStep ==
  ASSUME Inv, NEW q \in Queries, Lookup(q)
  PROVE  Inv'
<1>1. PICK t \in Tasks : t = task[q]
  BY DEF Inv, Types
<1>2. /\ t.pc = "lookup" /\ GoodTask(q, t) /\ AtSource(t)
      /\ UNCHANGED <<plan, current, shared, seen, status, history>>
  BY <1>1 DEF Inv, TasksAreGood, GoodTask, Lookup
<1>3. /\ UNCHANGED <<plan, current, status, seen, cache, noted, missed, askedBy>>
      /\ UNCHANGED <<breaker, heard>>
  BY <1>2 DEF shared, history
<1>4. Source(q) \in Sources /\ Key(q) \in Keys /\ Types /\ InOrder
  BY <1>1, <1>2, SourceFacts, KeyIsKey DEF Inv
<1>5. BreakersAreGood'
  BY <1>3, BreakersStay DEF Inv
<1>6. CASE cache[<<Source(q), Key(q)>>] # None
  <2>1. PICK n \in 0..1 : n = cache[<<Source(q), Key(q)>>].items
    BY <1>4, <1>6 DEF Types, Answers
  <2>2. <<Source(q), Key(q), n>> \in heard /\ (FeedsStay => ~Unfed(Source(q)))
    BY <1>4, <1>6, <2>1 DEF Inv, CacheIsHeard
  <2>3. PICK w : w = Appended(q, "ok", n)
    OBVIOUS
  <2>4. task' = [task EXCEPT ![q] = w]
    BY <1>6, <2>1, <2>3 DEF Lookup
  <2>5. Grows
    BY <1>3 DEF Grows
  <2>6. /\ w \in Tasks /\ GoodTask(q, w)' /\ w.pc \in {"lookup", "store"}
        /\ t.outcome.failed \subseteq w.outcome.failed
    <3>1. "ok" \in Counted /\ "ok" \notin Bad /\ AtSource(task[q])
      BY <1>1, <1>2 DEF Counted, Bad
    <3> QED BY <1>1, <1>3, <2>2, <2>3, <2>5, <3>1, AppendedIsGood
  <2>7. Acts(q)
    BY <1>1, <1>2, <1>3, <1>4, <2>4, <2>6, GoesOn
  <2>8. heard' \subseteq Sources \X Keys \X (0..1)
    BY <1>3, <1>4 DEF Types
  <2> QED BY <1>3, <1>5, <2>4, <2>6, <2>7, <2>8, MovesKeepInv
<1>7. CASE cache[<<Source(q), Key(q)>>] = None
  <2>1. PICK w : w = [t EXCEPT !.pc = "check"]
    OBVIOUS
  <2>2. task' = [task EXCEPT ![q] = w]
    BY <1>1, <1>7, <2>1 DEF Lookup
  <2>3. w \in Tasks /\ w.pc = "check" /\ w.at = t.at /\ w.outcome = t.outcome
    BY <2>1 DEF Tasks, Stages
  <2>4. heard \subseteq heard' /\ heard' \subseteq Sources \X Keys \X (0..1)
    BY <1>3, <1>4 DEF Types
  <2> QED BY <1>1, <1>2, <1>3, <1>5, <2>2, <2>3, <2>4, FetchKeepsInv DEF Fetching, Quiet
<1> QED BY <1>6, <1>7

LEMMA CheckBreakerStep ==
  ASSUME Inv, NEW q \in Queries, CheckBreaker(q)
  PROVE  Inv'
<1>1. PICK t \in Tasks : t = task[q]
  BY DEF Inv, Types
<1>2. /\ t.pc = "check" /\ AtSource(t) /\ Types
      /\ UNCHANGED <<plan, current, free, seen, cache, feedCache, noted, status, history>>
  BY <1>1 DEF Inv, TasksAreGood, GoodTask, CheckBreaker
<1>3. Quiet /\ heard' = heard /\ plan' = plan
  BY <1>2 DEF Quiet, history
<1>4. PICK s \in Sources : s = Source(q)
  BY <1>1, <1>2, SourceFacts
<1>5. breaker \in [Sources -> Breakers] /\ Threshold[s] \in Nat \ {0} /\ Threshold[Rss] > 0
      /\ breaker' = [breaker EXCEPT ![s] = IF breaker[s].open /\ breaker[s].over
                                           THEN HalfOpen(breaker[s], s) ELSE breaker[s]]
  BY <1>4, CollectionAssumption DEF Inv, BreakersAreGood, CheckBreaker, Sources
<1>6. BreakersAreGood'
  <2>1. CASE breaker[s].open /\ breaker[s].over
    <3>0. HalfOpen(breaker[s], s) \in Breakers
      BY <1>5 DEF Breakers, HalfOpen
    <3>1. PICK b \in Breakers : b = HalfOpen(breaker[s], s)
      BY <3>0
    <3>2. b.failures = Threshold[s] - 1 /\ b.open = FALSE
      BY <3>1 DEF HalfOpen
    <3>3. breaker' = [breaker EXCEPT ![s] = b]
      BY <1>5, <2>1, <3>1
    <3>4. plan.feeds = <<>> => s # Rss
      BY <1>4, <1>5, <2>1 DEF Inv, BreakersAreGood, BreakerRefuses
    <3>5. Rss \in Sources
      BY DEF Sources
    <3>6. breaker' \in [Sources -> Breakers] /\ BreakerRefuses'
      BY <1>5, <3>2, <3>3 DEF Inv, BreakersAreGood, BreakerRefuses
    <3>7. plan.feeds = <<>> => breaker'[Rss].failures = 0
      BY <1>5, <3>3, <3>4, <3>5 DEF Inv, BreakersAreGood
    <3> QED BY <1>3, <3>6, <3>7 DEF BreakersAreGood
  <2>2. CASE ~(breaker[s].open /\ breaker[s].over)
    <3>1. breaker' = breaker
      BY <1>5, <2>2
    <3> QED BY <1>3, <3>1, BreakersStay DEF Inv
  <2> QED BY <2>1, <2>2
<1>7. heard \subseteq heard' /\ heard' \subseteq Sources \X Keys \X (0..1)
  BY <1>2, <1>3 DEF Types
<1>8. CASE breaker[s].open /\ ~breaker[s].over
  <2>1. PICK a \in Replies : a = [kind |-> "circuit_open", items |-> 0]
    BY IsReply DEF Counted
  <2>2. PICK w : w = [t EXCEPT !.pc = "note", !.answer = a]
    OBVIOUS
  <2>3. task' = [task EXCEPT ![q] = w]
    BY <1>1, <1>4, <1>8, <2>1, <2>2 DEF CheckBreaker, Answered
  <2>4. /\ w \in Tasks /\ w.pc = "note" /\ w.at = t.at /\ w.outcome = t.outcome
        /\ w.answer = a
    BY <2>2 DEF Tasks, Stages
  <2>5. ~Unfed(s)
    BY <1>4, <1>5, <1>8 DEF Inv, BreakersAreGood, BreakerRefuses, Unfed
  <2>6. GoodAnswer(q, s, w.answer)'
    <3>1. a.kind = "circuit_open" /\ a.items = 0
      BY <2>1
    <3> QED BY <1>3, <2>4, <2>5, <3>1 DEF GoodAnswer, Unfed
  <2> QED BY <1>4, <1>1, <1>2, <1>3, <1>6, <1>7, <2>3, <2>4, <2>6, FetchKeepsInv DEF Fetching
<1>9. CASE ~(breaker[s].open /\ ~breaker[s].over)
  <2>1. PICK pc \in {"feed", "call"} : pc = IF s = Rss THEN "feed" ELSE "call"
    OBVIOUS
  <2>2. PICK w : w = [t EXCEPT !.pc = pc]
    OBVIOUS
  <2>3. task' = [task EXCEPT ![q] = w]
    BY <1>1, <1>4, <1>9, <2>1, <2>2 DEF CheckBreaker
  <2>4. /\ w \in Tasks /\ w.pc = pc /\ w.at = t.at /\ w.outcome = t.outcome
    BY <2>1, <2>2 DEF Tasks, Stages
  <2> QED BY <1>1, <1>2, <1>3, <1>4, <1>6, <1>7, <2>1, <2>3, <2>4, FetchKeepsInv DEF Fetching
<1> QED BY <1>8, <1>9

LEMMA SendStep ==
  ASSUME Inv, NEW q \in Queries, Send(q)
  PROVE  Inv'
<1>1. PICK t \in Tasks : t = task[q]
  BY DEF Inv, Types
<1>2. /\ t.pc = "call" /\ GoodTask(q, t) /\ AtSource(t) /\ Types
      /\ UNCHANGED <<plan, current, breaker, seen, cache, feedCache, noted, status, history>>
  BY <1>1 DEF Inv, TasksAreGood, GoodTask, Send
<1>3. Quiet /\ UNCHANGED <<plan, breaker, heard>>
  BY <1>2 DEF Quiet, history
<1>4. PICK s : s = Source(q) /\ s = plan.order[t.at]
  BY <1>1, <1>2, SourceFacts
<1>5. PICK w : w = [t EXCEPT !.pc = "sent"]
  OBVIOUS
<1>6. task' = [task EXCEPT ![q] = w]
  BY <1>1, <1>5 DEF Send
<1>7. /\ w \in Tasks /\ w.pc = "sent" /\ w.at = t.at /\ w.outcome = t.outcome
      /\ w.feed = t.feed
  BY <1>5 DEF Tasks, Stages
<1>8. s = Rss => w.feed <= Len(plan.feeds)
  BY <1>2, <1>4, <1>7 DEF GoodTask
<1>9. BreakersAreGood' /\ heard \subseteq heard' /\ heard' \subseteq Sources \X Keys \X (0..1)
  BY <1>2, <1>3, BreakersStay DEF Inv, Types
<1> QED BY <1>1, <1>2, <1>3, <1>4, <1>6, <1>7, <1>8, <1>9, FetchKeepsInv DEF Fetching

LEMMA ReplyStep ==
  ASSUME Inv, NEW q \in Queries, Reply(q)
  PROVE  Inv'
<1>1. PICK t \in Tasks : t = task[q]
  BY DEF Inv, Types
<1>2. /\ t.pc = "sent" /\ AtSource(t) /\ Types
      /\ UNCHANGED <<plan, current, breaker, seen, cache, feedCache, noted, status, missed, askedBy>>
  BY <1>1 DEF Inv, TasksAreGood, GoodTask, Reply
<1>3. Quiet /\ UNCHANGED <<plan, breaker>> /\ BreakersAreGood'
  BY <1>2, BreakersStay DEF Quiet, Inv
<1>4. PICK s \in Sources : s = Source(q) /\ s # Rss
  BY <1>1, <1>2, SourceFacts DEF Reply
<1>5. CASE \E n \in 0..1 : /\ task' = Answered(q, "ok", n, "judge")
                           /\ heard' = heard \cup {<<s, Key(q), n>>}
  <2>1. PICK n \in 0..1 : /\ task' = Answered(q, "ok", n, "judge")
                          /\ heard' = heard \cup {<<s, Key(q), n>>}
    BY <1>5
  <2>2. PICK a \in Replies : a = [kind |-> "ok", items |-> n]
    BY IsReply DEF Counted
  <2>3. PICK w : w = [t EXCEPT !.pc = "judge", !.answer = a]
    OBVIOUS
  <2>4. task' = [task EXCEPT ![q] = w]
    BY <1>1, <2>1, <2>2, <2>3 DEF Answered
  <2>5. /\ w \in Tasks /\ w.pc = "judge" /\ w.at = t.at /\ w.outcome = t.outcome
        /\ w.answer = a
    BY <2>3 DEF Tasks, Stages
  <2>6. heard \subseteq heard' /\ heard' \subseteq Sources \X Keys \X (0..1)
    BY <1>2, <1>4, <2>1, KeyIsKey DEF Types
  <2>7. GoodAnswer(q, s, w.answer)'
    <3>1. a.kind = "ok" /\ a.items = n
      BY <2>2
    <3> QED BY <1>4, <2>1, <2>5, <3>1 DEF GoodAnswer, Unfed, Key
  <2> QED BY <1>1, <1>2, <1>3, <1>4, <2>4, <2>5, <2>6, <2>7, FetchKeepsInv DEF Fetching
<1>6. CASE task' = [task EXCEPT ![q].pc = "call", ![q].tries = @ + 1] /\ heard' = heard
  <2>1. PICK w : w = [t EXCEPT !.pc = "call", !.tries = t.tries + 1]
    OBVIOUS
  <2>2. task' = [task EXCEPT ![q] = w]
    BY <1>1, <1>6, <2>1
  <2>3. t.tries + 1 \in Nat \ {0}
    BY DEF Tasks
  <2>4. w \in Tasks /\ w.pc = "call" /\ w.at = t.at /\ w.outcome = t.outcome
    BY <2>1, <2>3 DEF Tasks, Stages
  <2>5. heard \subseteq heard' /\ heard' \subseteq Sources \X Keys \X (0..1)
    BY <1>2, <1>6 DEF Types
  <2> QED BY <1>1, <1>2, <1>3, <1>4, <2>2, <2>4, <2>5, FetchKeepsInv DEF Fetching
<1>7. CASE \E pc \in {"judge", "note"} : task' = Answered(q, "failed", 0, pc) /\ heard' = heard
  <2>1. PICK pc \in {"judge", "note"} : task' = Answered(q, "failed", 0, pc) /\ heard' = heard
    BY <1>7
  <2>2. PICK a \in Replies : a = [kind |-> "failed", items |-> 0]
    BY IsReply DEF Counted
  <2>3. PICK w : w = [t EXCEPT !.pc = pc, !.answer = a]
    OBVIOUS
  <2>4. task' = [task EXCEPT ![q] = w]
    BY <1>1, <2>1, <2>2, <2>3 DEF Answered
  <2>5. /\ w \in Tasks /\ w.pc = pc /\ w.at = t.at /\ w.outcome = t.outcome
        /\ w.answer = a
    BY <2>3 DEF Tasks, Stages
  <2>6. heard \subseteq heard' /\ heard' \subseteq Sources \X Keys \X (0..1)
    BY <1>2, <2>1 DEF Types
  <2>7. GoodAnswer(q, s, w.answer)'
    <3>1. a.kind = "failed" /\ a.items = 0
      BY <2>2
    <3> QED BY <1>4, <2>5, <3>1 DEF GoodAnswer, Unfed
  <2> QED BY <1>1, <1>2, <1>3, <1>4, <2>4, <2>5, <2>6, <2>7, FetchKeepsInv DEF Fetching
<1> QED BY <1>4, <1>5, <1>6, <1>7 DEF Reply

LEMMA NextFeedStep ==
  ASSUME Inv, NEW q \in Queries, NextFeed(q)
  PROVE  Inv'
<1>1. PICK t \in Tasks : t = task[q]
  BY DEF Inv, Types
<1>2. /\ t.pc = "feed" /\ GoodTask(q, t) /\ AtSource(t) /\ Types
      /\ t.feed <= Len(plan.feeds)
      /\ UNCHANGED <<plan, current, shared, seen, status, history>>
  BY <1>1 DEF Inv, TasksAreGood, GoodTask, NextFeed
<1>3. Quiet /\ UNCHANGED <<plan, breaker, heard>>
  BY <1>2 DEF Quiet, history, shared
<1>4. Source(q) = Rss
  BY <1>1, <1>2, SourceFacts DEF GoodTask
<1>5. BreakersAreGood' /\ heard \subseteq heard' /\ heard' \subseteq Sources \X Keys \X (0..1)
  BY <1>2, <1>3, BreakersStay DEF Inv, Types
<1>6. CASE plan.feeds[t.feed] \in feedCache
  <2>1. PICK w : w = [t EXCEPT !.feed = t.feed + 1]
    OBVIOUS
  <2>2. task' = [task EXCEPT ![q] = w]
    <3>1. task' = [task EXCEPT ![q] = [task[q] EXCEPT !.feed = task[q].feed + 1]]
      BY <1>1, <1>6 DEF NextFeed
    <3> QED BY <1>1, <2>1, <3>1
  <2>3. t.feed + 1 \in Nat \ {0}
    BY DEF Tasks
  <2>4. w \in Tasks /\ w.pc = "feed" /\ w.at = t.at /\ w.outcome = t.outcome
    BY <1>2, <2>1, <2>3 DEF Tasks
  <2> QED BY <1>1, <1>2, <1>3, <1>4, <1>5, <2>2, <2>4, FetchKeepsInv DEF Fetching
<1>7. CASE plan.feeds[t.feed] \notin feedCache
  <2>1. PICK w : w = [t EXCEPT !.pc = "call"]
    OBVIOUS
  <2>2. task' = [task EXCEPT ![q] = w]
    BY <1>1, <1>7, <2>1 DEF NextFeed
  <2>3. /\ w \in Tasks /\ w.pc = "call" /\ w.at = t.at /\ w.outcome = t.outcome
        /\ w.feed = t.feed
    BY <2>1 DEF Tasks, Stages
  <2> QED BY <1>1, <1>2, <1>3, <1>4, <1>5, <2>2, <2>3, FetchKeepsInv DEF Fetching
<1> QED BY <1>6, <1>7

LEMMA FeedReplyStep ==
  ASSUME Inv, NEW q \in Queries, FeedReply(q)
  PROVE  Inv'
<1>1. PICK t \in Tasks : t = task[q]
  BY DEF Inv, Types
<1>2. /\ t.pc = "sent" /\ GoodTask(q, t) /\ AtSource(t) /\ Types /\ Source(q) = Rss
      /\ UNCHANGED <<plan, current, breaker, seen, cache, noted, status, history>>
  BY <1>1 DEF Inv, TasksAreGood, GoodTask, FeedReply
<1>3. Quiet /\ UNCHANGED <<plan, breaker, heard>>
  BY <1>2 DEF Quiet, history
<1>4. BreakersAreGood' /\ heard \subseteq heard' /\ heard' \subseteq Sources \X Keys \X (0..1)
  BY <1>2, <1>3, BreakersStay DEF Inv, Types
<1>5. ~Unfed(Rss)
  <2>1. t.feed <= Len(plan.feeds)
    BY <1>1, <1>2, SourceFacts DEF GoodTask
  <2> QED BY <1>2, <2>1, PlanFacts DEF Unfed, Types, Tasks
<1>6. CASE \E lost \in Nat : task' = [task EXCEPT ![q] = [t EXCEPT !.pc = "feed",
                                        !.feed = t.feed + 1, !.lost = lost]]
  <2>1. PICK lost \in Nat : task' = [task EXCEPT ![q] = [t EXCEPT !.pc = "feed",
                                        !.feed = t.feed + 1, !.lost = lost]]
    BY <1>6
  <2>2. PICK w : w = [t EXCEPT !.pc = "feed", !.feed = t.feed + 1, !.lost = lost]
    OBVIOUS
  <2>3. t.feed + 1 \in Nat \ {0}
    BY DEF Tasks
  <2>4. w \in Tasks /\ w.pc = "feed" /\ w.at = t.at /\ w.outcome = t.outcome
    BY <2>2, <2>3 DEF Tasks, Stages
  <2> QED BY <1>1, <1>2, <1>3, <1>4, <2>1, <2>2, <2>4, FetchKeepsInv DEF Fetching
<1>7. CASE task' = Answered(q, "failed", 0, "note")
  <2>1. PICK a \in Replies : a = [kind |-> "failed", items |-> 0]
    BY IsReply DEF Counted
  <2>2. PICK w : w = [t EXCEPT !.pc = "note", !.answer = a]
    OBVIOUS
  <2>3. task' = [task EXCEPT ![q] = w]
    BY <1>1, <1>7, <2>1, <2>2 DEF Answered
  <2>4. /\ w \in Tasks /\ w.pc = "note" /\ w.at = t.at /\ w.outcome = t.outcome
        /\ w.answer = a
    BY <2>2 DEF Tasks, Stages
  <2>5. GoodAnswer(q, Rss, w.answer)'
    <3>1. a.kind = "failed" /\ a.items = 0
      BY <2>1
    <3> QED BY <1>3, <1>5, <2>4, <3>1 DEF GoodAnswer, Unfed
  <2> QED BY <1>1, <1>2, <1>3, <1>4, <2>3, <2>4, <2>5, FetchKeepsInv DEF Fetching
<1>8. CASE \/ task' = [task EXCEPT ![q].pc = "feed", ![q].feed = @ + 1]
           \/ task' = [task EXCEPT ![q].pc = "feed", ![q].feed = @ + 1, ![q].lost = @ + 1]
  <2>1. t.lost \in Nat /\ t.lost + 1 \in Nat
    BY DEF Tasks
  <2>2. [t EXCEPT !.pc = "feed", !.feed = t.feed + 1] =
          [t EXCEPT !.pc = "feed", !.feed = t.feed + 1, !.lost = t.lost]
    BY DEF Tasks
  <2>3. CASE task' = [task EXCEPT ![q].pc = "feed", ![q].feed = @ + 1]
    <3>1. task' = [task EXCEPT ![q] = [t EXCEPT !.pc = "feed", !.feed = t.feed + 1]]
      BY <1>1, <2>3
    <3> QED BY <1>6, <2>1, <2>2, <3>1
  <2>4. CASE task' = [task EXCEPT ![q].pc = "feed", ![q].feed = @ + 1, ![q].lost = @ + 1]
    <3>1. task' = [task EXCEPT ![q] = [t EXCEPT !.pc = "feed", !.feed = t.feed + 1,
                                                !.lost = t.lost + 1]]
      BY <1>1, <2>4
    <3> QED BY <1>6, <2>1, <3>1
  <2> QED BY <1>8, <2>3, <2>4
<1> QED BY <1>7, <1>8 DEF FeedReply

LEMMA FeedsDoneStep ==
  ASSUME Inv, NEW q \in Queries, FeedsDone(q)
  PROVE  Inv'
<1>1. PICK t \in Tasks : t = task[q]
  BY DEF Inv, Types
<1>2. /\ t.pc = "feed" /\ GoodTask(q, t) /\ AtSource(t) /\ Types
      /\ UNCHANGED <<plan, current, shared, seen, status, missed, askedBy>>
  BY <1>1 DEF Inv, TasksAreGood, GoodTask, FeedsDone
<1>3. Quiet /\ UNCHANGED <<plan, breaker>> /\ BreakersAreGood'
  BY <1>2, BreakersStay DEF Quiet, shared, Inv
<1>4. Source(q) = Rss /\ Rss \in Sources /\ Key(q) \in Keys
  BY <1>1, <1>2, SourceFacts, KeyIsKey DEF GoodTask
<1>5. \E kind \in Counted, n \in 0..1 :
        /\ task' = Answered(q, kind, n, "judge")
        /\ kind = "ok" => heard' = heard \cup {<<Rss, Key(q), n>>}
        /\ kind # "ok" => n = 0 /\ heard' = heard
        /\ kind = "not_configured" <=> Unfed(Rss)
  <2>1. CASE /\ plan.feeds = <<>>
             /\ task' = Answered(q, "not_configured", 0, "judge")
             /\ heard' = heard
    BY <2>1 DEF Counted, Unfed
  <2>2. CASE /\ plan.feeds # <<>>
             /\ task' = Answered(q, "failed", 0, "judge")
             /\ heard' = heard
    BY <2>2 DEF Counted, Unfed
  <2>3. CASE /\ t.lost < Len(plan.feeds)
             /\ \E n \in 0..1 : /\ task' = Answered(q, "ok", n, "judge")
                                /\ heard' = heard \cup {<<Rss, Key(q), n>>}
    <3>1. ~Unfed(Rss)
      BY <1>2, <2>3, PlanFacts DEF Unfed, Types, Tasks
    <3> QED BY <2>3, <3>1 DEF Counted
  <2> QED BY <1>1, <2>1, <2>2, <2>3 DEF FeedsDone
<1>6. PICK kind \in Counted, n \in 0..1 :
        /\ task' = Answered(q, kind, n, "judge")
        /\ kind = "ok" => heard' = heard \cup {<<Rss, Key(q), n>>}
        /\ kind # "ok" => n = 0 /\ heard' = heard
        /\ kind = "not_configured" <=> Unfed(Rss)
  BY <1>5
<1>7. PICK a \in Replies : a = [kind |-> kind, items |-> n]
  BY IsReply
<1>8. PICK w : w = [t EXCEPT !.pc = "judge", !.answer = a]
  OBVIOUS
<1>9. task' = [task EXCEPT ![q] = w]
  BY <1>1, <1>6, <1>7, <1>8 DEF Answered
<1>10. /\ w \in Tasks /\ w.pc = "judge" /\ w.at = t.at /\ w.outcome = t.outcome
       /\ w.answer = a
  BY <1>8 DEF Tasks, Stages
<1>11. heard \subseteq heard' /\ heard' \subseteq Sources \X Keys \X (0..1)
  BY <1>2, <1>4, <1>6 DEF Types
<1>12. GoodAnswer(q, Rss, w.answer)'
  <2>1. a.kind = kind /\ a.items = n
    BY <1>7
  <2> QED BY <1>3, <1>6, <1>10, <2>1 DEF GoodAnswer, Unfed, Key
<1> QED BY <1>1, <1>2, <1>3, <1>4, <1>9, <1>10, <1>11, <1>12, FetchKeepsInv DEF Fetching

LEMMA JudgeStep ==
  ASSUME Inv, NEW q \in Queries, Judge(q)
  PROVE  Inv'
<1>1. PICK t \in Tasks : t = task[q]
  BY DEF Inv, Types
<1>2. /\ t.pc = "judge" /\ GoodTask(q, t) /\ AtSource(t) /\ Types
      /\ UNCHANGED <<plan, current, free, seen, cache, feedCache, noted, status, history>>
  BY <1>1 DEF Inv, TasksAreGood, GoodTask, Judge
<1>3. Quiet /\ UNCHANGED <<plan, heard>>
  BY <1>2 DEF Quiet, history
<1>4. PICK s \in Sources : s = Source(q) /\ s = plan.order[t.at]
  BY <1>1, <1>2, SourceFacts
<1>5. GoodAnswer(q, s, t.answer)
  BY <1>2, <1>4 DEF GoodTask
<1>6. PICK kind \in Counted : kind = t.answer.kind /\ (kind = "not_configured" <=> Unfed(s))
  BY <1>5 DEF GoodAnswer, Replies
<1>7. PICK b \in Breakers : b = breaker[s] /\ (b.open <=> b.failures >= Threshold[s])
  BY DEF Inv, BreakersAreGood, BreakerRefuses
<1>8. PICK r : r = Recorded(b, s, kind)
  OBVIOUS
<1>9. breaker' = [breaker EXCEPT ![s] = r]
  BY <1>1, <1>4, <1>6, <1>7, <1>8 DEF Judge
<1>10. /\ r \in Breakers /\ (r.open <=> r.failures >= Threshold[s])
       /\ b.failures = 0 /\ Unfed(s) => r.failures = 0
  <2>1. Threshold[s] \in Nat \ {0} /\ b.failures \in Nat /\ b.open \in BOOLEAN /\ b.over \in BOOLEAN
    BY CollectionAssumption DEF Breakers
  <2>2. CASE kind = "ok"
    <3>1. r = [failures |-> 0, open |-> FALSE, over |-> FALSE]
      BY <1>8, <2>2 DEF Recorded
    <3> QED BY <2>1, <3>1 DEF Breakers
  <2>3. CASE kind = "failed"
    <3>1. PICK op \in BOOLEAN : op = (b.open \/ b.failures + 1 >= Threshold[s])
      OBVIOUS
    <3>2. r = [b EXCEPT !.failures = b.failures + 1, !.open = op]
      BY <1>8, <2>3, <3>1 DEF Recorded
    <3>3. b.failures + 1 \in Nat
      BY <2>1
    <3>4. r \in Breakers /\ r.failures = b.failures + 1 /\ r.open = op
      BY <3>2, <3>3 DEF Breakers
    <3>5. op <=> b.failures + 1 >= Threshold[s]
      <4>1. op <=> b.open \/ b.failures + 1 >= Threshold[s]
        BY <3>1, Zenon
      <4>2. b.open => b.failures + 1 >= Threshold[s]
        BY <1>7, <2>1
      <4> QED BY <4>1, <4>2
    <3>6. ~Unfed(s)
      BY <1>6, <2>3
    <3> QED BY <3>4, <3>5, <3>6
  <2>4. CASE kind \notin {"ok", "failed"}
    <3>1. r = b
      BY <1>8, <2>4 DEF Recorded
    <3> QED BY <1>7, <3>1
  <2> QED BY <2>2, <2>3, <2>4
<1>11. BreakersAreGood'
  <2>1. /\ breaker' \in [Sources -> Breakers] /\ breaker'[s] = r
        /\ \A x \in Sources \ {s} : breaker'[x] = breaker[x]
    BY <1>9, <1>10 DEF Inv, BreakersAreGood
  <2>2. BreakerRefuses'
    BY <1>10, <2>1 DEF Inv, BreakersAreGood, BreakerRefuses
  <2>3. plan'.feeds = <<>> => breaker'[Rss].failures = 0
    BY <1>3, <1>7, <1>10, <2>1 DEF Inv, BreakersAreGood, Unfed, Sources
  <2> QED BY <2>1, <2>2, <2>3 DEF BreakersAreGood
<1>12. PICK w : w = [t EXCEPT !.pc = "note"]
  OBVIOUS
<1>13. task' = [task EXCEPT ![q] = w]
  BY <1>1, <1>12 DEF Judge
<1>14. /\ w \in Tasks /\ w.pc = "note" /\ w.at = t.at /\ w.outcome = t.outcome
       /\ w.answer = t.answer
  BY <1>12 DEF Tasks, Stages
<1>15. GoodAnswer(q, s, w.answer)'
  BY <1>3, <1>5, <1>14 DEF GoodAnswer, Unfed, Key
<1>16. heard \subseteq heard' /\ heard' \subseteq Sources \X Keys \X (0..1)
  BY <1>2, <1>3 DEF Types
<1> QED BY <1>1, <1>2, <1>3, <1>4, <1>11, <1>13, <1>14, <1>15, <1>16, FetchKeepsInv DEF Fetching

-----------------------------------------------------------------------------
(* The answer is noted, the outcome kept.                                   *)

LEMMA NoteStep ==
  ASSUME Inv, NEW q \in Queries, Note(q)
  PROVE  Inv'
<1>1. PICK t \in Tasks : t = task[q]
  BY DEF Inv, Types
<1>2. /\ t.pc = "note" /\ GoodTask(q, t) /\ AtSource(t) /\ Types /\ InOrder
      /\ UNCHANGED <<plan, current, free, breaker, seen, feedCache, status, heard, askedBy>>
  BY <1>1 DEF Inv, TasksAreGood, GoodTask, Note
<1>3. PICK s \in Sources : s = Source(q) /\ s = plan.order[t.at]
  BY <1>1, <1>2, SourceFacts
<1>4. PICK kind \in Counted, n \in 0..1 : kind = t.answer.kind /\ n = t.answer.items
  BY <1>2, <1>3 DEF GoodTask, GoodAnswer, Replies
<1>5. /\ kind = "ok" => <<s, Key(q), n>> \in heard /\ ~Unfed(s)
      /\ kind # "ok" => n = 0
      /\ kind = "not_configured" <=> Unfed(s)
  BY <1>2, <1>3, <1>4 DEF GoodTask, GoodAnswer
<1>6. /\ cache' = [cache EXCEPT ![<<s, Key(q)>>] =
                     IF kind = "ok" THEN [items |-> n, lost |-> t.lost > 0]
                     ELSE cache[<<s, Key(q)>>]]
      /\ noted' = [noted EXCEPT ![s] = noted[s] \cup {kind}]
      /\ missed' = IF kind \in Bad THEN missed \cup {current} ELSE missed
      /\ task' = [task EXCEPT ![q] = Appended(q, kind, n)]
  BY <1>1, <1>3, <1>4 DEF Note, Bad
<1>7. /\ noted' \in [Sources -> SUBSET Counted] /\ noted'[s] = noted[s] \cup {kind}
      /\ \A x \in Sources \ {s} : noted'[x] = noted[x]
  BY <1>2, <1>6 DEF Types
<1>8. Grows
  BY <1>2, <1>7 DEF Grows
<1>9. PICK w : w = Appended(q, kind, n)
  OBVIOUS
<1>10. /\ w \in Tasks /\ GoodTask(q, w)' /\ w.pc \in {"lookup", "store"}
       /\ t.outcome.failed \subseteq w.outcome.failed
       /\ kind \in Bad => w.outcome.failed # {}
  <2>1. kind \in Bad => noted'[Source(q)] \cap Bad # {}
    BY <1>3, <1>7
  <2>2. kind = "ok" => /\ <<Source(q), Key(q), n>> \in heard'
                       /\ FeedsStay => ~Unfed(Source(q))
    BY <1>2, <1>3, <1>5
  <2>3. kind = "not_configured" => Unfed(Source(q))
    BY <1>3, <1>5
  <2>4. AtSource(task[q])
    BY <1>1, <1>2
  <2>5. /\ w \in Tasks /\ GoodTask(q, w)' /\ w.pc \in {"lookup", "store"}
        /\ task[q].outcome.failed \subseteq w.outcome.failed
        /\ kind \in Bad => w.outcome.failed # {}
    BY <1>5, <1>8, <1>9, <2>1, <2>2, <2>3, <2>4, AppendedIsGood
  <2> QED BY <1>1, <2>5
<1>11. Acts(q) /\ task'[q] = w
  BY <1>1, <1>2, <1>6, <1>9, <1>10, GoesOn
<1>12. CacheIsHeard' /\ cache' \in [Sources \X Keys -> Answers \cup {None}]
  <2>1. Key(q) \in Keys /\ cache \in [Sources \X Keys -> Answers \cup {None}]
    BY <1>2, KeyIsKey DEF Types
  <2>2. CASE kind = "ok"
    <3>1. PICK a \in Answers : a = [items |-> n, lost |-> t.lost > 0]
      <4>1. [items |-> n, lost |-> t.lost > 0] \in Answers
        <5>1. (t.lost > 0) \in BOOLEAN
          OBVIOUS
        <5> QED BY <5>1 DEF Answers
      <4> QED BY <4>1
    <3>2. a.items = n
      BY <3>1
    <3>3. cache' = [cache EXCEPT ![<<s, Key(q)>>] = a]
      BY <1>6, <2>2, <3>1
    <3>4. cache' \in [Sources \X Keys -> Answers \cup {None}]
      BY <2>1, <3>3
    <3>5. ASSUME NEW e \in Sources \X Keys, cache'[e] # None
          PROVE  /\ <<e[1], e[2], cache'[e].items>> \in heard
                 /\ FeedsStay => ~Unfed(e[1])
      <4>1. CASE e = <<s, Key(q)>>
        <5>1. cache'[e] = a /\ e[1] = s /\ e[2] = Key(q)
          BY <2>1, <3>3, <4>1
        <5> QED BY <1>5, <2>2, <3>2, <5>1
      <4>2. CASE e # <<s, Key(q)>>
        <5>1. cache'[e] = cache[e]
          BY <2>1, <3>3, <4>2
        <5> QED BY <3>5, <5>1 DEF Inv, CacheIsHeard
      <4> QED BY <4>1, <4>2
    <3> QED BY <1>2, <3>4, <3>5 DEF CacheIsHeard, Unfed
  <2>3. CASE kind # "ok"
    <3>1. cache' = cache
      BY <1>6, <2>1, <2>3
    <3> QED BY <1>8, <2>1, <3>1, CacheStays DEF Inv
  <2> QED BY <2>2, <2>3
<1>13. NotedFits'
  <2> SUFFICES ASSUME NEW x \in Sources
               PROVE  /\ "not_configured" \in noted'[x] => Unfed(x)
                      /\ Unfed(x) => noted'[x] \subseteq {"not_configured"}
                      /\ noted'[x] \cap Bad # {} => missed' # {}
    BY <1>2 DEF NotedFits, Unfed
  <2>1. /\ "not_configured" \in noted[x] => Unfed(x)
        /\ Unfed(x) => noted[x] \subseteq {"not_configured"}
        /\ noted[x] \cap Bad # {} => missed # {}
    BY DEF Inv, NotedFits
  <2>2. missed \subseteq missed' /\ (kind \in Bad => missed' # {})
    BY <1>6
  <2>3. CASE x = s
    BY <1>5, <1>7, <2>1, <2>2, <2>3
  <2>4. CASE x # s
    BY <1>7, <2>1, <2>2, <2>4
  <2> QED BY <2>3, <2>4
<1>14. SeenIsGood' /\ BreakersAreGood' /\ AskedOnce'
  BY <1>2, <1>8, <1>11, SeenStays, BreakersStay, ActsKeepAsked DEF Inv
<1>15. /\ seen' \in [Keys -> Outcomes \cup {None}]
       /\ askedBy' \in [Keys -> SUBSET (1..Len(Topics))]
       /\ heard' \subseteq Sources \X Keys \X (0..1)
  BY <1>2 DEF Types
<1>16. \/ missed' = missed
       \/ missed' = missed \cup {current} /\ task'[q].outcome.failed # {}
  BY <1>6, <1>10, <1>11
<1> QED BY <1>6, <1>7, <1>8, <1>9, <1>10, <1>11, <1>12, <1>13, <1>14, <1>15, <1>16, ActsKeepInv

LEMMA StoreStep ==
  ASSUME Inv, NEW q \in Queries, Store(q)
  PROVE  Inv'
<1>1. PICK t \in Tasks : t = task[q]
  BY DEF Inv, Types
<1>2. /\ t.pc = "store" /\ GoodTask(q, t) /\ Types /\ InOrder
      /\ UNCHANGED <<plan, current, shared, status, history>>
  BY <1>1 DEF Inv, TasksAreGood, Store
<1>3. UNCHANGED <<plan, current, status, breaker, cache, noted, heard, missed, askedBy>>
  BY <1>2 DEF shared, history
<1>4. PICK o \in Outcomes : o = t.outcome /\ GoodOutcome(o, Key(q)) /\ Through(o)
  BY <1>2 DEF Tasks, GoodTask
<1>5. o # None /\ Key(q) \in Keys
  BY NoneAssumption, KeyIsKey
<1>6. seen' = [seen EXCEPT ![Key(q)] = o]
  BY <1>1, <1>4 DEF Store
<1>7. /\ seen' \in [Keys -> Outcomes \cup {None}] /\ seen'[Key(q)] = o
      /\ \A k \in Keys \ {Key(q)} : seen'[k] = seen[k]
  BY <1>2, <1>5, <1>6 DEF Types
<1>8. Grows
  BY <1>3, <1>5, <1>7 DEF Grows
<1>9. PICK w : w = [t EXCEPT !.pc = "done"]
  OBVIOUS
<1>10. task' = [task EXCEPT ![q] = w]
  BY <1>1, <1>9 DEF Store
<1>11. w \in Tasks /\ w.pc = "done" /\ w.outcome = o /\ w.at = t.at
  BY <1>4, <1>9 DEF Tasks, Stages
<1>12. GoodOutcome(o, Key(q))' /\ Through(o)'
  BY <1>2, <1>4, <1>8, OutcomeStays, ThroughStays DEF Key
<1>13. GoodTask(q, w)'
  <2>1. w.at \in 1..Len(plan'.order) \cup {1}
    BY <1>2, <1>3, <1>11 DEF GoodTask
  <2> QED BY <1>5, <1>7, <1>11, <1>12, <2>1 DEF GoodTask, Key
<1>14. Acts(q)
  BY <1>1, <1>2, <1>3, <1>4, <1>10, <1>11, GoesOn
<1>15. SeenIsGood'
  <2> SUFFICES ASSUME NEW k \in Keys, seen'[k] # None
               PROVE  (GoodOutcome(seen[k], k) /\ Through(seen[k]))'
    BY DEF SeenIsGood
  <2>1. CASE k = Key(q)
    BY <1>7, <1>12, <2>1 DEF GoodOutcome, Through, Key
  <2>2. CASE k # Key(q)
    <3>1. PICK r : r = seen[k]
      OBVIOUS
    <3>2. seen'[k] = r
      BY <1>7, <2>2, <3>1
    <3>3. GoodOutcome(r, k)' /\ Through(r)'
      BY <1>2, <1>8, <3>1, <3>2, OutcomeStays, ThroughStays DEF Inv, SeenIsGood
    <3> QED BY <3>2, <3>3 DEF GoodOutcome, Through
  <2> QED BY <2>1, <2>2
<1>16. NotedFits'
  BY <1>3 DEF Inv, NotedFits, Unfed
<1>17. CacheIsHeard' /\ BreakersAreGood' /\ AskedOnce'
  BY <1>2, <1>3, <1>8, <1>14, CacheStays, BreakersStay, ActsKeepAsked DEF Inv
<1>18. /\ cache' \in [Sources \X Keys -> Answers \cup {None}]
       /\ noted' \in [Sources -> SUBSET Counted]
       /\ askedBy' \in [Keys -> SUBSET (1..Len(Topics))]
       /\ heard' \subseteq Sources \X Keys \X (0..1)
  BY <1>2, <1>3 DEF Types
<1> QED BY <1>3, <1>7, <1>8, <1>10, <1>11, <1>13, <1>14, <1>15, <1>16, <1>17, <1>18, ActsKeepInv

-----------------------------------------------------------------------------
(* A query is taken up, a topic is closed, time passes.                     *)

LEMMA StartQueryStep ==
  ASSUME Inv, NEW q \in Queries, StartQuery(q)
  PROVE  Inv'
<1>1. PICK t \in Tasks : t = task[q]
  BY DEF Inv, Types
<1>2. /\ t.pc = "queued" /\ GoodTask(q, t) /\ Types /\ t = Idle
      /\ current \in 1..Len(Topics) /\ q \in Topics[current]
      /\ UNCHANGED <<plan, current, shared, seen, status, heard, missed>>
  BY <1>1, TopicsAreTyped DEF Inv, TasksAreGood, GoodTask, StartQuery, Types
<1>3. UNCHANGED <<plan, current, status, breaker, cache, noted, seen, heard, missed>>
  BY <1>2 DEF shared
<1>4. Grows /\ Key(q) \in Keys
  BY <1>3, KeyIsKey DEF Grows
<1>5. ASSUME NEW w \in Tasks, task' = [task EXCEPT ![q] = w], w.pc # "queued",
             t.outcome.failed \subseteq w.outcome.failed
      PROVE  Acts(q) /\ task'[q] = w
  <2>1. task'[q] = w /\ \A p \in Queries \ {q} : task'[p] = task[p]
    BY <1>2, <1>5 DEF Types
  <2> QED BY <1>1, <1>2, <1>3, <1>5, <2>1 DEF Acts
<1>6. heard \subseteq heard' /\ heard' \subseteq Sources \X Keys \X (0..1) /\ BreakersAreGood'
  BY <1>2, <1>3, BreakersStay DEF Types, Inv
<1>7. CASE seen[Key(q)] # None
  <2>1. PICK o \in Outcomes : o = seen[Key(q)]
    BY <1>2, <1>4, <1>7 DEF Types
  <2>2. GoodOutcome(o, Key(q)) /\ Through(o)
    BY <1>4, <1>7, <2>1 DEF Inv, SeenIsGood
  <2>3. PICK w : w = [t EXCEPT !.pc = "done", !.outcome = o]
    OBVIOUS
  <2>4. task' = [task EXCEPT ![q] = w] /\ askedBy' = askedBy
    BY <1>1, <1>7, <2>1, <2>3 DEF StartQuery
  <2>5. w \in Tasks /\ w.pc = "done" /\ w.outcome = o /\ w.at = 1
    BY <1>2, <2>3 DEF Tasks, Stages, Idle
  <2>6. t.outcome.failed \subseteq w.outcome.failed
    BY <1>2, <2>5 DEF Idle, NoOutcome
  <2>7. GoodTask(q, w)'
    <3>1. GoodOutcome(o, Key(q))' /\ Through(o)'
      BY <1>2, <1>4, <2>2, OutcomeStays, ThroughStays DEF Key
    <3> QED BY <1>3, <1>7, <2>5, <3>1 DEF GoodTask, Key
  <2>8. Acts(q)
    BY <1>5, <2>4, <2>5, <2>6
  <2> QED BY <1>3, <1>6, <2>4, <2>5, <2>7, <2>8, MovesKeepInv
<1>8. CASE seen[Key(q)] = None
  <2>1. PICK pc \in {"store", "lookup"} :
          pc = IF plan.order = <<>> THEN "store" ELSE "lookup"
    OBVIOUS
  <2>2. PICK w : w = [t EXCEPT !.pc = pc]
    OBVIOUS
  <2>3. /\ task' = [task EXCEPT ![q] = w]
        /\ askedBy' = [askedBy EXCEPT ![Key(q)] = askedBy[Key(q)] \cup {current}]
    BY <1>1, <1>8, <2>1, <2>2 DEF StartQuery
  <2>4. w \in Tasks /\ w.pc = pc /\ w.at = 1 /\ w.outcome = NoOutcome
    BY <1>2, <2>1, <2>2 DEF Tasks, Stages, Idle
  <2>5. GoodOutcome(NoOutcome, Key(q))'
    BY <1>2, <1>4, OutcomeStays DEF GoodTask, Idle, Key
  <2>6. GoodTask(q, w)'
    <3>1. CASE plan.order = <<>>
      <4>1. Through(NoOutcome)'
        BY <1>2, <1>3, <3>1, PlanFacts DEF Through, Range, Types
      <4> QED BY <2>1, <2>4, <2>5, <3>1, <4>1 DEF GoodTask, Key
    <3>2. CASE plan.order # <<>>
      <4>1. AtSource(w)'
        BY <1>2, <1>3, <2>4, <3>2, PlanFacts DEF AtSource, Types
      <4> QED BY <2>1, <2>4, <2>5, <3>2, <4>1 DEF GoodTask, Key
    <3> QED BY <3>1, <3>2
  <2>7. Acts(q) /\ task'[q] = w
    <3>1. t.outcome.failed \subseteq w.outcome.failed
      BY <1>2, <2>4 DEF Idle
    <3> QED BY <1>5, <2>1, <2>3, <2>4, <3>1
  <2>8. \A i \in askedBy[Key(q)] : i = current
    <3> SUFFICES ASSUME NEW i \in askedBy[Key(q)], i # current
                 PROVE  FALSE
      OBVIOUS
    <3>1. i \in 1..Len(Topics) /\ i <= current
      BY <1>2, <1>4 DEF Inv, AskedOnce, Types
    <3>2. i < current
      BY <1>2, <3>1, TopicsAreTyped
    <3>3. PICK p \in Topics[i] : Key(p) = Key(q)
      BY <1>4 DEF Inv, AskedOnce
    <3>4. task[p].pc = "done" /\ p \in Queries
      BY <3>1, <3>2, TopicsAreTyped DEF Inv, InOrder
    <3>5. seen[Key(p)] # None
      BY <3>4 DEF Inv, TasksAreGood, GoodTask
    <3> QED BY <1>8, <3>3, <3>5
  <2>9. AskedOnce' /\ askedBy' \in [Keys -> SUBSET (1..Len(Topics))]
    <3>1. /\ askedBy' \in [Keys -> SUBSET (1..Len(Topics))]
          /\ askedBy'[Key(q)] = askedBy[Key(q)] \cup {current}
          /\ \A k \in Keys \ {Key(q)} : askedBy'[k] = askedBy[k]
      BY <1>2, <1>4, <2>3 DEF Types
    <3>2. ASSUME NEW k \in Keys
          PROVE  /\ \A i, j \in askedBy'[k] : i = j
                 /\ \A i \in askedBy'[k] : i <= current /\
                      \E p \in Topics[i] : Key(p) = k /\ task'[p].pc # "queued"
      <4>1. CASE k = Key(q)
        <5>1. \A i \in askedBy'[k] : i = current
          BY <2>8, <3>1, <4>1
        <5>2. current <= current /\ Key(q) = k /\ task'[q].pc # "queued"
          BY <1>2, <2>7, <4>1, TopicsAreTyped DEF Acts
        <5> QED BY <1>2, <5>1, <5>2
      <4>2. CASE k # Key(q)
        <5>1. askedBy'[k] = askedBy[k]
          BY <3>1, <4>2
        <5>2. ASSUME NEW i \in askedBy[k]
              PROVE  \E p \in Topics[i] : Key(p) = k /\ task'[p].pc # "queued"
          <6>1. PICK p \in Topics[i] : Key(p) = k /\ task[p].pc # "queued"
            BY DEF Inv, AskedOnce
          <6>2. p \in Queries /\ p # q
            BY <1>2, <4>2, <6>1, TopicsAreTyped DEF Types
          <6> QED BY <2>7, <6>1, <6>2 DEF Acts
        <5> QED BY <5>1, <5>2 DEF Inv, AskedOnce
      <4> QED BY <4>1, <4>2
    <3> QED BY <1>3, <3>1, <3>2 DEF AskedOnce, Key
  <2>10. SeenIsGood' /\ CacheIsHeard' /\ NotedFits'
    BY <1>2, <1>3, <1>4, SeenStays, CacheStays DEF Inv, NotedFits, Unfed
  <2>11. /\ seen' \in [Keys -> Outcomes \cup {None}]
         /\ cache' \in [Sources \X Keys -> Answers \cup {None}]
         /\ noted' \in [Sources -> SUBSET Counted]
    BY <1>2, <1>3 DEF Types
  <2> QED BY <1>3, <1>4, <1>6, <2>3, <2>4, <2>6, <2>7, <2>9, <2>10, <2>11, ActsKeepInv
<1> QED BY <1>7, <1>8

LEMMA PauseEndsStep ==
  ASSUME Inv, NEW s \in Sources, PauseEnds(s)
  PROVE  Inv'
<1>1. UNCHANGED <<plan, current, task, seen, cache, noted, status, heard, missed, askedBy>>
  BY DEF PauseEnds, history
<1>2. BreakersAreGood'
  <2>1. PICK b \in Breakers : b = breaker[s]
    BY DEF Inv, BreakersAreGood
  <2>2. PICK r \in Breakers : r = [b EXCEPT !.over = TRUE]
    BY DEF Breakers
  <2>3. r.failures = b.failures /\ r.open = b.open
    BY <2>2 DEF Breakers
  <2>4. breaker' = [breaker EXCEPT ![s] = r]
    BY <2>1, <2>2 DEF PauseEnds
  <2>5. /\ breaker' \in [Sources -> Breakers] /\ breaker'[s] = r
        /\ \A x \in Sources \ {s} : breaker'[x] = breaker[x]
    BY <2>4 DEF Inv, BreakersAreGood
  <2>6. \A x \in Sources : /\ breaker'[x].failures = breaker[x].failures
                           /\ breaker'[x].open = breaker[x].open
    BY <2>1, <2>3, <2>5
  <2>7. Rss \in Sources
    BY DEF Sources
  <2>8. BreakerRefuses'
    BY <2>6 DEF Inv, BreakersAreGood, BreakerRefuses
  <2>9. plan'.feeds = <<>> => breaker'[Rss].failures = 0
    BY <1>1, <2>6, <2>7 DEF Inv, BreakersAreGood
  <2> QED BY <2>5, <2>8, <2>9 DEF BreakersAreGood
<1>3. Types' /\ InOrder' /\ MissedIsTold' /\ AskedOnce'
  BY <1>1 DEF Inv, Types, InOrder, MissedIsTold, AskedOnce, Degraded, Key
<1>4. Grows
  BY <1>1 DEF Grows
<1>5. CacheIsHeard' /\ SeenIsGood' /\ StatusIsBacked'
  BY <1>1, <1>4, CacheStays, SeenStays, StatusStays DEF Inv
<1>6. NotedFits'
  BY <1>1 DEF Inv, NotedFits, Unfed
<1>7. TasksAreGood'
  BY <1>1, <1>4, TasksFreeze DEF Inv
<1> QED BY <1>2, <1>3, <1>5, <1>6, <1>7 DEF Inv

LEMMA ExpireStep ==
  ASSUME Inv, NEW s \in Sources, NEW k \in Keys, Expire(s, k)
  PROVE  Inv'
<1>1. UNCHANGED <<plan, current, task, breaker, seen, noted, status, heard, missed, askedBy>>
  BY DEF Expire, history
<1>2. /\ cache' \in [Sources \X Keys -> Answers \cup {None}]
      /\ \A e \in Sources \X Keys : cache'[e] # None => cache'[e] = cache[e]
  BY DEF Inv, Types, Expire
<1>3. CacheIsHeard'
  BY <1>1, <1>2 DEF Inv, CacheIsHeard, Unfed
<1>4. Types' /\ InOrder' /\ MissedIsTold' /\ AskedOnce'
  BY <1>1, <1>2 DEF Inv, Types, InOrder, MissedIsTold, AskedOnce, Degraded, Key
<1>5. Grows
  BY <1>1 DEF Grows
<1>6. SeenIsGood' /\ StatusIsBacked' /\ BreakersAreGood'
  BY <1>1, <1>5, SeenStays, StatusStays, BreakersStay DEF Inv
<1>7. NotedFits'
  BY <1>1 DEF Inv, NotedFits, Unfed
<1>8. TasksAreGood'
  BY <1>1, <1>5, TasksFreeze DEF Inv
<1> QED BY <1>3, <1>4, <1>6, <1>7, <1>8 DEF Inv

LEMMA CloseTopicStep ==
  ASSUME Inv, CloseTopic
  PROVE  Inv'
<1>1. PICK c \in 1..Len(Topics) : c = current
  BY TopicsAreTyped DEF Inv, Types, CloseTopic
<1>2. /\ Types /\ c \in Nat /\ current' = c + 1
      /\ \A q \in Topics[c] : q \in Queries /\ task[q].pc = "done"
      /\ UNCHANGED <<plan, task, shared, seen, history>>
  BY <1>1, TopicsAreTyped DEF Inv, CloseTopic
<1>3. UNCHANGED <<plan, task, breaker, cache, seen, noted, heard, missed, askedBy>>
  BY <1>2 DEF shared, history
<1>4. Grows
  BY <1>3 DEF Grows
<1>5. PICK ok, failed, found :
        /\ ok = UNION {o.ok : o \in {task[q].outcome : q \in Topics[c]}}
        /\ failed = UNION {o.failed : o \in {task[q].outcome : q \in Topics[c]}}
        /\ found = (\E o \in {task[q].outcome : q \in Topics[c]} : o.found > 0)
  OBVIOUS
<1>6. PICK x : x = Classify(ok, failed, found)
  OBVIOUS
<1>7. status' = [status EXCEPT ![c] = x]
  BY <1>1, <1>5, <1>6 DEF CloseTopic
<1>8. /\ x \in TopicStatus
      /\ x \in {"collection_failed", "partial_collection"} <=> failed # {}
      /\ x \in {"ok", "no_candidates"} => ok # {}
      /\ x = "no_candidates" => ~found
  BY <1>6 DEF Classify, TopicStatus
<1>9. /\ status' \in [1..Len(Topics) -> TopicStatus \cup {None}] /\ status'[c] = x
      /\ \A i \in 1..Len(Topics) : i # c => status'[i] = status[i]
  BY <1>2, <1>7, <1>8 DEF Types
<1>10. Types'
  <2>1. current' \in 1..Len(Topics) + 1
    BY <1>2, TopicsAreTyped
  <2> QED BY <1>3, <1>9, <2>1 DEF Inv, Types
<1>11. \A q \in Topics[c] : GoodTask(q, task[q])
  BY <1>2 DEF Inv, TasksAreGood
<1>12. MissedIsTold'
  <2> SUFFICES ASSUME NEW i \in missed
               PROVE  /\ i <= c + 1
                      /\ i < c + 1 => status'[i] \in {"collection_failed", "partial_collection"}
                      /\ i = c + 1 => FALSE
    BY <1>2, <1>3 DEF MissedIsTold, Degraded
  <2>1. i \in 1..Len(Topics) /\ i \in Nat /\ i <= c
    BY <1>1, <1>2, TopicsAreTyped DEF Inv, MissedIsTold, Types
  <2>2. CASE i = c
    <3>1. PICK q \in Topics[c] : task[q].outcome.failed # {}
      BY <1>1, <2>2 DEF Inv, MissedIsTold
    <3>2. failed # {}
      BY <1>5, <3>1
    <3> QED BY <1>2, <1>8, <1>9, <2>2, <3>2
  <2>3. CASE i # c
    <3>1. i < current
      BY <1>1, <1>2, <2>1, <2>3
    <3>2. status[i] \in {"collection_failed", "partial_collection"}
      BY <3>1 DEF Inv, MissedIsTold, Degraded
    <3> QED BY <1>2, <1>9, <2>1, <2>3, <3>2
  <2> QED BY <2>2, <2>3
<1>13. failed # {} => \E s \in Sources : noted[s] \cap Bad # {}
  <2> SUFFICES ASSUME failed # {} PROVE \E s \in Sources : noted[s] \cap Bad # {}
    OBVIOUS
  <2>1. PICK q \in Topics[c] : \E s : s \in task[q].outcome.failed
    BY <1>5
  <2>2. GoodOutcome(task[q].outcome, Key(q))
    BY <1>11 DEF GoodTask
  <2> QED BY <1>2, <2>1, <2>2, PlanFacts DEF GoodOutcome, Types
<1>14. ASSUME FeedsStay, x \in {"ok", "no_candidates"}, NEW q \in Topics[c]
       PROVE  \E h \in heard : h[2] = Key(q) /\ (x = "no_candidates" => h[3] = 0)
  <2>1. PICK o : o = task[q].outcome
    OBVIOUS
  <2>2. /\ GoodOutcome(o, Key(q)) /\ Through(o) /\ o \in Outcomes
    BY <1>2, <1>11, <2>1 DEF GoodTask, Types, Tasks
  <2>3. o.failed = {}
    BY <1>5, <1>8, <1>14, <2>1
  <2>4. o.ok # {}
    <3> SUFFICES ASSUME o.ok = {} PROVE FALSE
      OBVIOUS
    <3>1. PICK p \in Topics[c] : \E s : s \in task[p].outcome.ok
      BY <1>5, <1>8, <1>14
    <3>2. GoodOutcome(task[p].outcome, Key(p))
      BY <1>11 DEF GoodTask
    <3>3. PICK s : s \in Range(plan.order) /\ ~Unfed(s)
      BY <1>14, <3>1, <3>2 DEF GoodOutcome
    <3> QED BY <2>2, <2>3, <3>3 DEF Through
  <2>5. x = "no_candidates" => o.found = 0
    <3>1. x = "no_candidates" => ~(o.found > 0)
      BY <1>5, <1>8, <2>1
    <3> QED BY <2>2, <3>1 DEF Outcomes
  <2> QED BY <2>2, <2>4, <2>5 DEF GoodOutcome
<1>15. StatusIsBacked'
  <2> SUFFICES ASSUME NEW i \in 1..Len(Topics)
               PROVE  /\ i >= c + 1 => status'[i] = None
                      /\ status'[i] \in {"collection_failed", "partial_collection"} =>
                           \E s \in Sources : noted[s] \cap Bad # {}
                      /\ FeedsStay /\ status'[i] \in {"ok", "no_candidates"} =>
                           \A q \in Topics[i] : \E h \in heard :
                             h[2] = Key(q) /\ (status'[i] = "no_candidates" => h[3] = 0)
    BY <1>2, <1>3 DEF StatusIsBacked, Degraded, Backed, Key
  <2>1. CASE i = c
    BY <1>2, <1>8, <1>9, <1>13, <1>14, <2>1
  <2>2. CASE i # c
    <3>1. status'[i] = status[i] /\ i \in Nat
      BY <1>9, <2>2, TopicsAreTyped
    <3>2. i >= c + 1 => i >= current
      BY <1>1, <1>2, <3>1
    <3> QED BY <3>1, <3>2 DEF Inv, StatusIsBacked, Degraded, Backed
  <2> QED BY <2>1, <2>2
<1>16. InOrder'
  <2>1. ASSUME NEW i \in DOMAIN Topics, i < c + 1 PROVE \A q \in Topics[i] : task[q].pc = "done"
    <3>1. i = c \/ i < current
      BY <1>1, <1>2, <2>1, TopicsAreTyped
    <3> QED BY <1>2, <3>1 DEF Inv, InOrder
  <2>2. ASSUME NEW i \in DOMAIN Topics, i > c + 1 PROVE \A q \in Topics[i] : task[q].pc = "queued"
    <3>1. i > current
      BY <1>1, <1>2, <2>2, TopicsAreTyped
    <3> QED BY <3>1 DEF Inv, InOrder
  <2> QED BY <1>2, <1>3, <2>1, <2>2 DEF InOrder
<1>17. AskedOnce'
  <2> SUFFICES ASSUME NEW k \in Keys, NEW i \in askedBy[k]
               PROVE  i <= c + 1
    BY <1>2, <1>3 DEF Inv, AskedOnce, Key
  <2>1. i \in 1..Len(Topics) /\ i <= c
    BY <1>1 DEF Inv, Types, AskedOnce
  <2> QED BY <1>2, <2>1, TopicsAreTyped
<1>18. TasksAreGood' /\ SeenIsGood' /\ CacheIsHeard' /\ BreakersAreGood' /\ NotedFits'
  BY <1>3, <1>4, TasksFreeze, SeenStays, CacheStays, BreakersStay DEF Inv, NotedFits, Unfed
<1> QED BY <1>10, <1>12, <1>15, <1>16, <1>17, <1>18 DEF Inv

-----------------------------------------------------------------------------
(* The invariant, from the first state on.                                  *)

LEMMA InitInv ==
  ASSUME Init
  PROVE  Inv
<1>1. /\ plan \in Plans /\ current = 1 /\ task = [q \in Queries |-> Idle]
      /\ seen = [k \in Keys |-> None] /\ noted = [s \in Sources |-> {}]
      /\ status = [i \in 1..Len(Topics) |-> None] /\ missed = {}
      /\ askedBy = [k \in Keys |-> {}]
  BY DEF Init
<1>2. PICK past \in [Remembered -> [items : 0..1, lost : {FALSE}] \cup {None}] :
        /\ cache = [e \in Sources \X Keys |-> IF e \in Remembered THEN past[e] ELSE None]
        /\ heard = {<<e[1], e[2], past[e].items>> : e \in {e \in Remembered : past[e] # None}}
  BY DEF Init
<1>3. PICK unreachable \in SUBSET Probed : breaker = Tripped(unreachable)
  BY DEF Init
<1>4. \A e \in Remembered : past[e] # None =>
        e \in Sources \X Keys /\ past[e] \in Answers /\ past[e].items \in 0..1
  BY CollectionAssumption DEF Answers
<1>5. cache \in [Sources \X Keys -> Answers \cup {None}]
  BY <1>2, <1>4
<1>6. heard \subseteq Sources \X Keys \X (0..1)
  <2> SUFFICES ASSUME NEW e \in Remembered, past[e] # None
               PROVE  <<e[1], e[2], past[e].items>> \in Sources \X Keys \X (0..1)
    BY <1>2
  <2> QED BY <1>4
<1>7. Idle \in Tasks
  BY DEF Idle, Tasks, Stages, NoOutcome, Outcomes
<1>8. Types
  <2>1. current \in 1..Len(Topics) + 1
    BY <1>1, TopicsAreTyped
  <2> QED BY <1>1, <1>5, <1>6, <1>7, <2>1 DEF Types
<1>9. TasksAreGood
  BY <1>1 DEF TasksAreGood, GoodTask, Idle, NoOutcome, GoodOutcome
<1>10. BreakersAreGood
  <2>1. \A s \in Sources : Threshold[s] \in Nat \ {0}
    BY CollectionAssumption
  <2>2. plan.feeds = <<>> => Rss \notin unreachable
    BY <1>3 DEF Probed
  <2>3. Rss \in Sources
    BY DEF Sources
  <2> QED BY <1>3, <2>1, <2>2, <2>3 DEF BreakersAreGood, BreakerRefuses, Tripped, Breakers
<1>11. CacheIsHeard
  <2> SUFFICES ASSUME NEW e \in Sources \X Keys, cache[e] # None
               PROVE  /\ <<e[1], e[2], cache[e].items>> \in heard
                      /\ FeedsStay => ~Unfed(e[1])
    BY DEF CacheIsHeard
  <2>1. e \in Remembered /\ cache[e] = past[e]
    BY <1>2
  <2>2. <<e[1], e[2], cache[e].items>> \in heard
    BY <1>2, <2>1
  <2>3. ASSUME FeedsStay, Unfed(e[1]) PROVE FALSE
    <3>1. e = <<Rss, e[2]>> /\ e[2] \in Keys
      BY <2>3 DEF Unfed
    <3> QED BY <1>1, <2>1, <2>3, <3>1 DEF FeedsStay, Unfed
  <2> QED BY <2>2, <2>3
<1>12. SeenIsGood
  BY <1>1 DEF SeenIsGood
<1>13. NotedFits /\ MissedIsTold
  BY <1>1 DEF NotedFits, MissedIsTold, Unfed
<1>14. InOrder
  <2>1. \A i \in DOMAIN Topics : ~(i < current)
    BY <1>1, TopicsAreTyped
  <2>2. \A i \in DOMAIN Topics : \A q \in Topics[i] : task[q].pc = "queued"
    BY <1>1, TopicsAreTyped DEF Idle
  <2> QED BY <2>1, <2>2 DEF InOrder
<1>15. StatusIsBacked
  BY <1>1, NoneAssumption DEF StatusIsBacked, Degraded, TopicStatus
<1>16. AskedOnce
  BY <1>1 DEF AskedOnce
<1> QED BY <1>8, <1>9, <1>10, <1>11, <1>12, <1>13, <1>14, <1>15, <1>16 DEF Inv

LEMMA StutterInv ==
  ASSUME Inv, UNCHANGED vars
  PROVE  Inv'
<1>1. UNCHANGED <<plan, current, task, breaker, cache, noted, seen, status, heard, missed, askedBy>>
  BY DEF vars, shared, history
<1>2. Grows
  BY <1>1 DEF Grows
<1>3. Types' /\ InOrder' /\ MissedIsTold' /\ AskedOnce' /\ NotedFits'
  BY <1>1 DEF Inv, Types, InOrder, MissedIsTold, AskedOnce, Degraded, Key, NotedFits, Unfed
<1>4. TasksAreGood' /\ SeenIsGood' /\ CacheIsHeard' /\ BreakersAreGood' /\ StatusIsBacked'
  BY <1>1, <1>2, TasksFreeze, SeenStays, CacheStays, BreakersStay, StatusStays DEF Inv
<1> QED BY <1>3, <1>4 DEF Inv

\* Whatever is kept, counted and told about a collection goes back to what the sources said.
THEOREM CollectionInvariant == Spec => []Inv
<1>1. Init => Inv
  BY InitInv
<1>2. Inv /\ [Next]_vars => Inv'
  <2> SUFFICES ASSUME Inv, [Next]_vars PROVE Inv'
    OBVIOUS
  <2>1. ASSUME NEW q \in Queries, QueryStep(q) PROVE Inv'
    BY <2>1, StartQueryStep, LookupStep, CheckBreakerStep, SendStep, ReplyStep, NextFeedStep,
       FeedReplyStep, FeedsDoneStep, JudgeStep, NoteStep, StoreStep DEF QueryStep
  <2>2. CASE CloseTopic
    BY <2>2, CloseTopicStep
  <2>3. ASSUME NEW s \in Sources, PauseEnds(s) PROVE Inv'
    BY <2>3, PauseEndsStep
  <2>4. ASSUME NEW s \in Sources, NEW k \in Keys, Expire(s, k) PROVE Inv'
    BY <2>4, ExpireStep
  <2>5. CASE UNCHANGED vars
    BY <2>5, StutterInv
  <2> QED BY <2>1, <2>2, <2>3, <2>4, <2>5 DEF Next
<1> QED BY <1>1, <1>2, PTL DEF Spec

\* net_policy.py, CircuitBreaker: however the answers of several workers interleave with
\* half-opening, the breaker refuses exactly while its count stands at the threshold.
THEOREM BreakersRefuseAtThreshold == Spec => []BreakerRefuses
<1>1. Inv => BreakerRefuses
  BY DEF Inv, BreakersAreGood
<1> QED BY <1>1, CollectionInvariant, PTL

\* pipeline.py:523-524, "reuses a query another topic already ran": whatever came of it,
\* a query of several topics goes out for one of them only.
THEOREM QueriesGoOutOnce == Spec => []AskedForOneTopic
<1>1. Inv => AskedForOneTopic
  <2> SUFFICES ASSUME Inv, NEW k \in Keys
               PROVE  Cardinality(askedBy[k]) <= 1
    BY DEF AskedForOneTopic
  <2>1. CASE askedBy[k] = {}
    BY <2>1, FS_EmptySet
  <2>2. CASE askedBy[k] # {}
    <3>1. PICK i \in askedBy[k] : askedBy[k] = {i}
      BY <2>2 DEF Inv, AskedOnce
    <3> QED BY <3>1, FS_Singleton
  <2> QED BY <2>1, <2>2
<1> QED BY <1>1, CollectionInvariant, PTL

\* classify_topic_outcome: unless feeds are taken away while an answer of theirs is still
\* remembered, a topic called complete had an answer to every query and lost no source,
\* and "no candidates" means that answers without candidates were given.
THEOREM NothingIsHonest ==
  ASSUME FeedsStay
  PROVE  Spec => []HonestNothing
<1>1. Inv => HonestNothing
  <2> SUFFICES ASSUME Inv, NEW i \in DOMAIN status,
                      status[i] \in {"ok", "no_candidates"}
               PROVE  i \notin missed /\ Backed(i)
    BY DEF HonestNothing, Backed
  <2>1. i \in 1..Len(Topics) /\ status[i] # None
    BY NoneAssumption DEF Inv, Types, TopicStatus
  <2>2. i < current
    BY <2>1, TopicsAreTyped DEF Inv, Types, StatusIsBacked
  <2>3. i \notin missed
    BY <2>2 DEF Inv, MissedIsTold, Degraded
  <2> QED BY <2>1, <2>3 DEF Inv, StatusIsBacked
<1> QED BY <1>1, CollectionInvariant, PTL

\* collection_planner.py and source_health.py: once the topics are through, some topic was
\* collected in part or not at all exactly if the banner of the report lists a source.
THEOREM VoicesAgree == Spec => []TopicsAgreeWithHealth
<1>1. Inv => TopicsAgreeWithHealth
  <2> SUFFICES ASSUME Inv
               PROVE  /\ (\E i \in DOMAIN status : Degraded(i)) => \E s \in Sources : Impaired(s)
                      /\ current > Len(Topics) /\ ~(\E i \in DOMAIN status : Degraded(i)) =>
                           \A s \in Sources : ~Impaired(s)
    BY DEF TopicsAgreeWithHealth, Degraded
  <2>1. ASSUME NEW s \in Sources, noted[s] \cap Bad # {}
        PROVE  Impaired(s)
    BY <2>1 DEF Inv, NotedFits, Impaired, Bad
  <2>2. ASSUME NEW i \in DOMAIN status, Degraded(i)
        PROVE  \E s \in Sources : Impaired(s)
    BY <2>1, <2>2 DEF Inv, Types, StatusIsBacked
  <2>3. ASSUME current > Len(Topics), NEW s \in Sources, Impaired(s)
        PROVE  \E i \in DOMAIN status : Degraded(i)
    <3>1. missed # {}
      BY <2>3 DEF Inv, NotedFits, Impaired, Bad
    <3>2. PICK i \in missed : i \in 1..Len(Topics)
      BY <3>1 DEF Inv, Types
    <3>3. i < current
      BY <2>3, <3>2, TopicsAreTyped DEF Inv, Types
    <3> QED BY <3>2, <3>3 DEF Inv, MissedIsTold, Types
  <2> QED BY <2>2, <2>3
<1> QED BY <1>1, CollectionInvariant, PTL

-----------------------------------------------------------------------------
(* Slots and feeds: what a limiter lends it gets back.                      *)

SentTo(s) == {q \in Queries : task[q].pc = "sent" /\ Source(q) = s}
SlotsAgree ==
  \A s \in Sources :
    /\ free[s] \in Nat
    /\ IsFiniteSet(SentTo(s))
    /\ free[s] + Cardinality(SentTo(s)) = MaxConcurrency[s]

Fits(t) == t.lost < t.feed /\ t.feed <= Len(plan.feeds) + 1
FeedsFit ==
  /\ feedCache \subseteq Range(plan.feeds)
  /\ \A q \in Queries : Fits(task[q])

SlotInv == free \in [Sources -> Int] /\ SlotsAgree /\ FeedsFit

LEMMA FitsStay ==
  ASSUME Types, FeedsFit, NEW q \in Queries, NEW w,
         task' = [task EXCEPT ![q] = w], Fits(w), plan' = plan,
         feedCache' \subseteq Range(plan.feeds)
  PROVE  FeedsFit'
BY DEF Types, FeedsFit, Fits

\* A step that neither sends nor ends a request.
LEMMA SlotsStay ==
  ASSUME Inv, SlotInv, NEW q \in Queries, NEW w,
         task' = [task EXCEPT ![q] = w], task[q].pc # "sent", w.pc # "sent", Fits(w),
         UNCHANGED <<plan, free, feedCache>>
  PROVE  SlotInv'
<1>1. /\ task'[q] = w /\ \A p \in Queries \ {q} : task'[p] = task[p]
  BY DEF Inv, Types
<1>2. ASSUME NEW s \in Sources PROVE SentTo(s)' = SentTo(s)
  BY <1>1 DEF SentTo, Source
<1>3. SlotsAgree'
  BY <1>2 DEF SlotInv, SlotsAgree
<1>4. FeedsFit'
  BY FitsStay DEF Inv, SlotInv, FeedsFit
<1> QED BY <1>3, <1>4 DEF SlotInv

LEMMA Returned ==
  ASSUME Inv, SlotInv, NEW q \in Queries, task[q].pc = "sent",
         NEW s \in Sources, s = Source(q), NEW w,
         task' = [task EXCEPT ![q] = w], w.pc # "sent", Fits(w),
         free' = [free EXCEPT ![s] = free[s] + 1], plan' = plan,
         feedCache' \subseteq Range(plan.feeds)
  PROVE  SlotInv'
<1>1. /\ task'[q] = w /\ \A p \in Queries \ {q} : task'[p] = task[p]
  BY DEF Inv, Types
<1>2. /\ SentTo(s)' = SentTo(s) \ {q} /\ q \in SentTo(s)
      /\ \A x \in Sources \ {s} : SentTo(x)' = SentTo(x)
  BY <1>1 DEF SentTo, Source
<1>3. /\ IsFiniteSet(SentTo(s)')
      /\ Cardinality(SentTo(s)') = Cardinality(SentTo(s)) - 1
      /\ Cardinality(SentTo(s)) \in Nat
  BY <1>2, FS_RemoveElement, FS_CardinalityType DEF SlotInv, SlotsAgree
<1>4. /\ free' \in [Sources -> Int] /\ free'[s] = free[s] + 1
      /\ \A x \in Sources \ {s} : free'[x] = free[x]
  BY DEF SlotInv
<1>5. SlotsAgree'
  <2> SUFFICES ASSUME NEW x \in Sources
               PROVE  /\ free'[x] \in Nat
                      /\ IsFiniteSet(SentTo(x)')
                      /\ free'[x] + Cardinality(SentTo(x)') = MaxConcurrency[x]
    BY DEF SlotsAgree
  <2>1. CASE x = s
    BY <1>3, <1>4, <2>1 DEF SlotInv, SlotsAgree
  <2>2. CASE x # s
    BY <1>2, <1>4, <2>2 DEF SlotInv, SlotsAgree
  <2> QED BY <2>1, <2>2
<1>6. FeedsFit'
  BY FitsStay DEF Inv, SlotInv
<1> QED BY <1>4, <1>5, <1>6 DEF SlotInv

LEMMA Lent ==
  ASSUME Inv, SlotInv, NEW q \in Queries, Send(q)
  PROVE  SlotInv'
<1>1. PICK t \in Tasks : t = task[q]
  BY DEF Inv, Types
<1>2. /\ t.pc = "call" /\ AtSource(t) /\ Types /\ plan' = plan /\ feedCache' = feedCache
  BY <1>1 DEF Inv, TasksAreGood, GoodTask, Send
<1>3. PICK s \in Sources : s = Source(q)
  BY <1>1, <1>2, SourceFacts
<1>4. PICK w : w = [t EXCEPT !.pc = "sent"]
  OBVIOUS
<1>5. /\ task' = [task EXCEPT ![q] = w]
      /\ free' = [free EXCEPT ![s] = free[s] - 1] /\ free[s] > 0
  BY <1>1, <1>3, <1>4 DEF Send
<1>6. w.pc = "sent" /\ w.at = t.at /\ w.lost = t.lost /\ w.feed = t.feed
  BY <1>4 DEF Tasks
<1>7. /\ task'[q] = w /\ \A p \in Queries \ {q} : task'[p] = task[p]
  BY <1>2, <1>5 DEF Types
<1>8. /\ SentTo(s)' = SentTo(s) \cup {q} /\ q \notin SentTo(s)
      /\ \A x \in Sources \ {s} : SentTo(x)' = SentTo(x)
  BY <1>1, <1>2, <1>3, <1>6, <1>7 DEF SentTo, Source
<1>9. /\ IsFiniteSet(SentTo(s)')
      /\ Cardinality(SentTo(s)') = Cardinality(SentTo(s)) + 1
      /\ Cardinality(SentTo(s)) \in Nat
  BY <1>8, FS_AddElement, FS_CardinalityType DEF SlotInv, SlotsAgree
<1>10. /\ free' \in [Sources -> Int] /\ free'[s] = free[s] - 1
       /\ \A x \in Sources \ {s} : free'[x] = free[x]
  BY <1>5 DEF SlotInv
<1>11. SlotsAgree'
  <2> SUFFICES ASSUME NEW x \in Sources
               PROVE  /\ free'[x] \in Nat
                      /\ IsFiniteSet(SentTo(x)')
                      /\ free'[x] + Cardinality(SentTo(x)') = MaxConcurrency[x]
    BY DEF SlotsAgree
  <2>1. CASE x = s
    BY <1>5, <1>9, <1>10, <2>1 DEF SlotInv, SlotsAgree
  <2>2. CASE x # s
    BY <1>8, <1>10, <2>2 DEF SlotInv, SlotsAgree
  <2> QED BY <2>1, <2>2
<1>12. Fits(w)
  BY <1>1, <1>6 DEF SlotInv, FeedsFit, Fits
<1>13. FeedsFit'
  BY <1>2, <1>5, <1>12, FitsStay DEF SlotInv, FeedsFit
<1> QED BY <1>10, <1>11, <1>13 DEF SlotInv

LEMMA AppendedFits ==
  ASSUME Types, NEW q \in Queries, NEW kind, NEW items, NEW w, w = Appended(q, kind, items)
  PROVE  w.pc # "sent" /\ Fits(w)
<1>1. w.pc \in {"store", "lookup"} /\ w.feed = 1 /\ w.lost = 0
  BY DEF Appended, Idle
<1> QED BY <1>1, PlanFacts DEF Fits, Types

LEMMA FetchKeepsSlots ==
  ASSUME Inv, SlotInv, NEW q \in Queries,
         \/ CheckBreaker(q) \/ NextFeed(q) \/ FeedsDone(q) \/ Judge(q) \/ Store(q)
  PROVE  SlotInv'
<1>1. PICK t \in Tasks : t = task[q] /\ Fits(t)
  BY DEF Inv, Types, SlotInv, FeedsFit
<1>2. CASE CheckBreaker(q)
  <2>1. PICK w : w = IF breaker[Source(q)].open /\ ~breaker[Source(q)].over
                     THEN [t EXCEPT !.pc = "note", !.answer = [kind |-> "circuit_open", items |-> 0]]
                     ELSE [t EXCEPT !.pc = IF Source(q) = Rss THEN "feed" ELSE "call"]
    OBVIOUS
  <2>2. task' = [task EXCEPT ![q] = w]
    BY <1>1, <1>2, <2>1 DEF CheckBreaker, Answered
  <2>3. w.pc # "sent" /\ w.lost = t.lost /\ w.feed = t.feed
    BY <2>1 DEF Tasks
  <2> QED BY <1>1, <1>2, <2>2, <2>3, SlotsStay DEF CheckBreaker, Fits
<1>3. CASE NextFeed(q)
  <2>1. PICK w : w = IF plan.feeds[t.feed] \in feedCache
                     THEN [t EXCEPT !.feed = t.feed + 1] ELSE [t EXCEPT !.pc = "call"]
    OBVIOUS
  <2>2. /\ task' = [task EXCEPT ![q] = w] /\ t.pc = "feed" /\ t.feed <= Len(plan.feeds)
        /\ UNCHANGED <<plan, free, feedCache>>
    BY <1>1, <1>3, <2>1 DEF NextFeed, shared
  <2>3. w.pc # "sent" /\ w.lost = t.lost /\ w.feed \in {t.feed, t.feed + 1}
    BY <2>1, <2>2 DEF Tasks
  <2>4. Fits(w)
    BY <1>1, <2>2, <2>3, PlanFacts DEF Fits, Tasks, Inv, Types
  <2> QED BY <1>1, <2>2, <2>3, <2>4, SlotsStay
<1>4. CASE FeedsDone(q)
  <2>1. PICK kind \in Counted, n \in 0..1 : task' = Answered(q, kind, n, "judge")
    BY <1>4 DEF FeedsDone, Counted
  <2>2. PICK w : w = [t EXCEPT !.pc = "judge", !.answer = [kind |-> kind, items |-> n]]
    OBVIOUS
  <2>3. task' = [task EXCEPT ![q] = w]
    BY <1>1, <2>1, <2>2 DEF Answered
  <2>4. w.pc # "sent" /\ w.lost = t.lost /\ w.feed = t.feed
    BY <2>2 DEF Tasks
  <2> QED BY <1>1, <1>4, <2>3, <2>4, SlotsStay DEF FeedsDone, Fits, shared
<1>5. CASE Judge(q)
  <2>1. PICK w : w = [t EXCEPT !.pc = "note"]
    OBVIOUS
  <2>2. task' = [task EXCEPT ![q] = w]
    BY <1>1, <1>5, <2>1 DEF Judge
  <2>3. w.pc # "sent" /\ w.lost = t.lost /\ w.feed = t.feed
    BY <2>1 DEF Tasks
  <2> QED BY <1>1, <1>5, <2>2, <2>3, SlotsStay DEF Judge, Fits
<1>6. CASE Store(q)
  <2>1. PICK w : w = [t EXCEPT !.pc = "done"]
    OBVIOUS
  <2>2. task' = [task EXCEPT ![q] = w]
    BY <1>1, <1>6, <2>1 DEF Store
  <2>3. w.pc # "sent" /\ w.lost = t.lost /\ w.feed = t.feed
    BY <2>1 DEF Tasks
  <2> QED BY <1>1, <1>6, <2>2, <2>3, SlotsStay DEF Store, Fits, shared
<1> QED BY <1>2, <1>3, <1>4, <1>5, <1>6

LEMMA AppendKeepsSlots ==
  ASSUME Inv, SlotInv, NEW q \in Queries, Lookup(q) \/ Note(q) \/ StartQuery(q)
  PROVE  SlotInv'
<1>1. PICK t \in Tasks : t = task[q] /\ Fits(t)
  BY DEF Inv, Types, SlotInv, FeedsFit
<1>2. CASE Lookup(q)
  <2>1. PICK w : w = IF cache[<<Source(q), Key(q)>>] # None
                     THEN Appended(q, "ok", cache[<<Source(q), Key(q)>>].items)
                     ELSE [t EXCEPT !.pc = "check"]
    OBVIOUS
  <2>2. /\ task' = [task EXCEPT ![q] = w] /\ t.pc = "lookup"
        /\ UNCHANGED <<plan, free, feedCache>>
    BY <1>1, <1>2, <2>1 DEF Lookup, shared
  <2>3. w.pc # "sent" /\ Fits(w)
    <3>1. CASE cache[<<Source(q), Key(q)>>] # None
      BY <2>1, <3>1, AppendedFits DEF Inv
    <3>2. CASE cache[<<Source(q), Key(q)>>] = None
      <4>1. w.pc = "check" /\ w.lost = t.lost /\ w.feed = t.feed
        BY <2>1, <3>2 DEF Tasks
      <4> QED BY <1>1, <4>1 DEF Fits
    <3> QED BY <3>1, <3>2
  <2> QED BY <1>1, <2>2, <2>3, SlotsStay
<1>3. CASE Note(q)
  <2>1. PICK w : w = Appended(q, task[q].answer.kind, task[q].answer.items)
    OBVIOUS
  <2>2. /\ task' = [task EXCEPT ![q] = w] /\ t.pc = "note"
        /\ UNCHANGED <<plan, free, feedCache>>
    BY <1>1, <1>3, <2>1 DEF Note
  <2>3. w.pc # "sent" /\ Fits(w)
    BY <2>1, AppendedFits DEF Inv
  <2> QED BY <1>1, <2>2, <2>3, SlotsStay
<1>4. CASE StartQuery(q)
  <2>1. PICK pc \in {"done", "store", "lookup"} : \E o :
          task' = [task EXCEPT ![q] = [t EXCEPT !.pc = pc, !.outcome = o]]
    <3>1. CASE seen[Key(q)] # None
      BY <1>1, <1>4, <3>1 DEF StartQuery
    <3>2. CASE seen[Key(q)] = None
      <4>1. PICK pc \in {"store", "lookup"} : pc = IF plan.order = <<>> THEN "store" ELSE "lookup"
        OBVIOUS
      <4>2. task' = [task EXCEPT ![q] = [t EXCEPT !.pc = pc]]
        BY <1>1, <1>4, <3>2, <4>1 DEF StartQuery
      <4>3. [t EXCEPT !.pc = pc] = [t EXCEPT !.pc = pc, !.outcome = t.outcome]
        BY DEF Tasks
      <4> QED BY <4>2, <4>3
    <3> QED BY <3>1, <3>2
  <2>2. PICK o : task' = [task EXCEPT ![q] = [t EXCEPT !.pc = pc, !.outcome = o]]
    BY <2>1
  <2>3. PICK w : w = [t EXCEPT !.pc = pc, !.outcome = o]
    OBVIOUS
  <2>4. w.pc # "sent" /\ w.lost = t.lost /\ w.feed = t.feed
    BY <2>3 DEF Tasks
  <2> QED BY <1>1, <1>4, <2>2, <2>3, <2>4, SlotsStay DEF StartQuery, Fits, shared
<1> QED BY <1>2, <1>3, <1>4

LEMMA AnswerKeepsSlots ==
  ASSUME Inv, SlotInv, NEW q \in Queries, Reply(q) \/ FeedReply(q)
  PROVE  SlotInv'
<1>1. PICK t \in Tasks : t = task[q] /\ Fits(t)
  BY DEF Inv, Types, SlotInv, FeedsFit
<1>2. t.pc = "sent" /\ GoodTask(q, t) /\ AtSource(t)
  BY <1>1 DEF Inv, TasksAreGood, GoodTask, Reply, FeedReply
<1>3. PICK s \in Sources : s = Source(q) /\ s = plan.order[t.at]
  BY <1>1, <1>2, SourceFacts DEF Inv
<1>4. free' = [free EXCEPT ![s] = free[s] + 1] /\ plan' = plan
  BY <1>3 DEF Reply, FeedReply, Released
<1>5. feedCache \subseteq Range(plan.feeds)
  BY DEF SlotInv, FeedsFit
<1>6. CASE Reply(q)
  <2>1. PICK w : task' = [task EXCEPT ![q] = w] /\ w.pc # "sent" /\ w.lost = t.lost /\ w.feed = t.feed
    <3>1. ASSUME NEW kind, NEW n, NEW pc \in {"judge", "note"}, task' = Answered(q, kind, n, pc)
          PROVE  \E w : /\ task' = [task EXCEPT ![q] = w] /\ w.pc # "sent"
                        /\ w.lost = t.lost /\ w.feed = t.feed
      <4>1. PICK w : w = [t EXCEPT !.pc = pc, !.answer = [kind |-> kind, items |-> n]]
        OBVIOUS
      <4>2. task' = [task EXCEPT ![q] = w]
        BY <1>1, <3>1, <4>1 DEF Answered
      <4>3. w.pc # "sent" /\ w.lost = t.lost /\ w.feed = t.feed
        BY <4>1 DEF Tasks
      <4> QED BY <4>2, <4>3
    <3>2. ASSUME task' = [task EXCEPT ![q].pc = "call", ![q].tries = @ + 1]
          PROVE  \E w : /\ task' = [task EXCEPT ![q] = w] /\ w.pc # "sent"
                        /\ w.lost = t.lost /\ w.feed = t.feed
      <4>1. PICK w : w = [t EXCEPT !.pc = "call", !.tries = t.tries + 1]
        OBVIOUS
      <4>2. task' = [task EXCEPT ![q] = w]
        BY <1>1, <3>2, <4>1
      <4>3. w.pc # "sent" /\ w.lost = t.lost /\ w.feed = t.feed
        BY <4>1 DEF Tasks
      <4> QED BY <4>2, <4>3
    <3> QED BY <1>6, <3>1, <3>2 DEF Reply
  <2>2. Fits(w) /\ feedCache' = feedCache
    BY <1>1, <1>6, <2>1 DEF Fits, Reply
  <2> QED BY <1>1, <1>2, <1>3, <1>4, <1>5, <2>1, <2>2, Returned
<1>7. CASE FeedReply(q)
  <2>1. /\ t.feed \in 1..Len(plan.feeds) /\ Len(plan.feeds) \in Nat
        /\ plan.feeds[t.feed] \in Range(plan.feeds)
    <3>1. s = Rss /\ plan.feeds \in Seq(Range(plan.feeds)) /\ Len(plan.feeds) \in Nat
      <4>1. s = Rss
        BY <1>3, <1>7 DEF FeedReply
      <4>2. plan.feeds \in Seq(Range(plan.feeds))
        BY CollectionAssumption DEF Inv, Types
      <4> QED BY <4>1, <4>2
    <3>2. t.feed \in 1..Len(plan.feeds)
      BY <1>2, <1>3, <3>1 DEF GoodTask, Tasks
    <3> QED BY <3>1, <3>2
  <2>2. feedCache' \subseteq Range(plan.feeds)
    BY <1>1, <1>5, <1>7, <2>1 DEF FeedReply
  <2>3. CASE task' = [task EXCEPT ![q].pc = "feed", ![q].feed = @ + 1]
    <3>1. PICK w : w = [t EXCEPT !.pc = "feed", !.feed = t.feed + 1]
      OBVIOUS
    <3>2. task' = [task EXCEPT ![q] = w]
      BY <1>1, <2>3, <3>1
    <3>3. w.pc # "sent" /\ w.lost = t.lost /\ w.feed = t.feed + 1
      BY <3>1 DEF Tasks
    <3>4. Fits(w)
      BY <1>1, <2>1, <3>3 DEF Fits, Tasks
    <3> QED BY <1>1, <1>2, <1>3, <1>4, <2>2, <3>2, <3>3, <3>4, Returned
  <2>4. CASE task' = [task EXCEPT ![q].pc = "feed", ![q].feed = @ + 1, ![q].lost = @ + 1]
    <3>1. PICK w : w = [t EXCEPT !.pc = "feed", !.feed = t.feed + 1, !.lost = t.lost + 1]
      OBVIOUS
    <3>2. task' = [task EXCEPT ![q] = w]
      BY <1>1, <2>4, <3>1
    <3>3. w.pc # "sent" /\ w.lost = t.lost + 1 /\ w.feed = t.feed + 1
      BY <3>1 DEF Tasks
    <3>4. Fits(w)
      BY <1>1, <2>1, <3>3 DEF Fits, Tasks
    <3> QED BY <1>1, <1>2, <1>3, <1>4, <2>2, <3>2, <3>3, <3>4, Returned
  <2>5. CASE task' = Answered(q, "failed", 0, "note")
    <3>1. PICK w : w = [t EXCEPT !.pc = "note", !.answer = [kind |-> "failed", items |-> 0]]
      OBVIOUS
    <3>2. task' = [task EXCEPT ![q] = w]
      BY <1>1, <2>5, <3>1 DEF Answered
    <3>3. w.pc # "sent" /\ w.lost = t.lost /\ w.feed = t.feed
      BY <3>1 DEF Tasks
    <3>4. Fits(w)
      BY <1>1, <3>3 DEF Fits
    <3> QED BY <1>1, <1>2, <1>3, <1>4, <2>2, <3>2, <3>3, <3>4, Returned
  <2> QED BY <1>7, <2>3, <2>4, <2>5 DEF FeedReply
<1> QED BY <1>6, <1>7

LEMMA RestKeepsSlots ==
  ASSUME SlotInv, UNCHANGED <<plan, task, free, feedCache>>
  PROVE  SlotInv'
<1>1. \A s \in Sources : SentTo(s)' = SentTo(s)
  BY DEF SentTo, Source
<1> QED BY <1>1 DEF SlotInv, SlotsAgree, FeedsFit, Fits

\* The slots, the feeds and the places in them fit together.
THEOREM SlotInvariant == Spec => []SlotInv
<1>1. Init => SlotInv
  <2> SUFFICES ASSUME Init PROVE SlotInv
    OBVIOUS
  <2>1. /\ free = MaxConcurrency /\ feedCache = {} /\ task = [q \in Queries |-> Idle]
        /\ plan \in Plans
    BY DEF Init
  <2>2. \A s \in Sources : SentTo(s) = {}
    BY <2>1 DEF SentTo, Idle
  <2>3. \A s \in Sources : MaxConcurrency[s] \in Nat
    BY CollectionAssumption
  <2>4. free \in [Sources -> Int]
    BY <2>1, CollectionAssumption
  <2>5. SlotsAgree
    BY <2>1, <2>2, <2>3, FS_EmptySet DEF SlotsAgree
  <2>6. FeedsFit
    BY <2>1, PlanFacts DEF FeedsFit, Fits, Idle
  <2> QED BY <2>4, <2>5, <2>6 DEF SlotInv
<1>2. Inv /\ SlotInv /\ [Next]_vars => SlotInv'
  <2> SUFFICES ASSUME Inv, SlotInv, [Next]_vars PROVE SlotInv'
    OBVIOUS
  <2>1. ASSUME NEW q \in Queries, QueryStep(q) PROVE SlotInv'
    BY <2>1, Lent, FetchKeepsSlots, AppendKeepsSlots, AnswerKeepsSlots DEF QueryStep
  <2>2. CASE CloseTopic
    BY <2>2, RestKeepsSlots DEF CloseTopic, shared
  <2>3. ASSUME NEW s \in Sources, PauseEnds(s) PROVE SlotInv'
    BY <2>3, RestKeepsSlots DEF PauseEnds
  <2>4. ASSUME NEW s \in Sources, NEW k \in Keys, Expire(s, k) PROVE SlotInv'
    BY <2>4, RestKeepsSlots DEF Expire
  <2>5. CASE UNCHANGED vars
    BY <2>5, RestKeepsSlots DEF vars, shared
  <2> QED BY <2>1, <2>2, <2>3, <2>4, <2>5 DEF Next
<1> QED BY <1>1, <1>2, CollectionInvariant, PTL DEF Spec

\* net_policy.py, RateLimiter.slot(): a limiter has lent as many slots as there are requests
\* out to its source, however a request ends, so it never runs dry of itself and never lets
\* more requests out than it has slots.
THEOREM SlotsAreGivenBack == Spec => []SlotsAgree
<1>1. SlotInv => SlotsAgree
  BY DEF SlotInv
<1> QED BY <1>1, SlotInvariant, PTL

\* Every variable keeps its type: no limiter is over its slots, no fetch past its feeds.
THEOREM CollectionTypes == Spec => []TypeOK
<1>1. Inv /\ SlotInv => TypeOK
  <2> SUFFICES ASSUME Inv, SlotInv PROVE TypeOK
    OBVIOUS
  <2>1. ASSUME NEW q \in Queries
        PROVE  /\ task[q].pc \in Stages
               /\ task[q].at \in 1..Len(plan.order) \cup {1}
               /\ task[q].lost \in 0..Len(plan.feeds)
               /\ task[q].outcome \in Outcomes
               /\ task[q].outcome.ok \cup task[q].outcome.failed \subseteq Range(plan.order)
    <3>1. PICK t \in Tasks : t = task[q] /\ GoodTask(q, t) /\ Fits(t)
      BY DEF Inv, Types, TasksAreGood, SlotInv, FeedsFit
    <3>2. t.lost \in 0..Len(plan.feeds)
      BY <3>1, PlanFacts DEF Fits, Tasks, Inv, Types
    <3> QED BY <3>1, <3>2 DEF Tasks, GoodTask, GoodOutcome, AtSource, Idle
  <2>2. ASSUME NEW s \in Sources PROVE free[s] \in 0..MaxConcurrency[s]
    <3>1. Cardinality(SentTo(s)) \in Nat /\ MaxConcurrency[s] \in Nat
      BY FS_CardinalityType, CollectionAssumption DEF SlotInv, SlotsAgree
    <3> QED BY <3>1 DEF SlotInv, SlotsAgree
  <2> QED BY <2>1, <2>2 DEF TypeOK, Inv, Types, BreakersAreGood, Breakers, SlotInv, FeedsFit, Stages
<1> QED BY <1>1, CollectionInvariant, SlotInvariant, PTL
=============================================================================
