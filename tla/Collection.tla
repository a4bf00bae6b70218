------------------------------ MODULE Collection ------------------------------
(***************************************************************************)
(* aios/services/collection_planner.py with the collectors, rate limiters, *)
(* circuit breakers and health tracker it drives: how one run collects its *)
(* topics, one after another, the queries of a topic side by side.         *)
(*                                                                         *)
(* A query is a future of the thread pool; two queries with one normalised *)
(* text have one key.  One step is one section under a lock, or one answer *)
(* from outside; storing an answer in the cache and in the counters, which *)
(* nobody reads together, is one step.  Time is left open: a pause ends, a *)
(* cache entry expires or is evicted whenever it likes, and pacing is only *)
(* the wait for a slot.  A candidate is a count, a parser is part of the   *)
(* answer: a timeout, a 429 and an unreadable body all have "failed".      *)
(***************************************************************************)
EXTENDS Naturals, Sequences, FiniteSets, Functions

CONSTANTS
  Topics,         \* the sequence of topics: each a set of queries
  Keys,           \* normalised texts of queries
  KeyOf,          \* [queries -> Keys]
  Search,         \* sources that can be searched
  Rss,            \* the source that reads feeds
  Plans,          \* enabled sources in order, and feeds, the user may have
  MaxConcurrency, \* [sources -> slots of the limiter]
  Threshold,      \* [sources -> failures in a row that open the breaker]
  MaxAttempts,    \* [sources -> tries of one fetch]
  MinCandidates,  \* candidates that make further sources needless
  Workers,        \* threads of the pool
  Remembered,     \* bound: <<source, key>> an earlier run may have cached
  None

Queries == UNION Range(Topics)
Sources == Search \cup {Rss}

\* A query belongs to one topic.
ASSUME CollectionAssumption ==
  /\ Topics \in Seq(SUBSET Queries)
  /\ \A i, j \in DOMAIN Topics : i # j => Topics[i] \cap Topics[j] = {}
  /\ KeyOf \in [Queries -> Keys]
  /\ \A p \in Plans : p.order \in Seq(Sources) /\ p.feeds \in Seq(Range(p.feeds))
  /\ Remembered \subseteq Sources \X Keys
  /\ MaxConcurrency \in [Sources -> Nat \ {0}]
  /\ Threshold \in [Sources -> Nat \ {0}]
  /\ MaxAttempts \in [Sources -> Nat \ {0}]
  /\ MinCandidates \in Nat \ {0}
  /\ Workers \in Nat \ {0}
  /\ Rss \notin Search

VARIABLES
  plan,      \* [order, feeds]: what the user configured
  current,   \* the topic being collected
  task,      \* where each query is, and what it has gathered
  free,      \* slots left in each limiter
  breaker,   \* failures in a row, open, and whether the pause has passed
  seen,      \* the outcome the planner keeps for each key
  cache,     \* the answer kept for a source and a key, across runs
  feedCache, \* feeds loaded in this run
  noted,     \* what the health tracker has counted for each source
  status,    \* the outcome of each topic
  heard,     \* history: <<source, key, candidates>> a source answered
  missed,    \* history: topics in which a source gave no answer
  askedBy    \* history: topics whose queries went out for each key

shared == <<free, breaker, cache, feedCache, noted>>
history == <<heard, missed, askedBy>>
vars == <<plan, current, task, shared, seen, status, history>>

Answers == [items : 0..1, lost : BOOLEAN]
NoOutcome == [ok |-> {}, failed |-> {}, found |-> 0]
Outcomes == [ok : SUBSET Sources, failed : SUBSET Sources, found : Nat]
Idle == [pc |-> "queued", at |-> 1, tries |-> 1, feed |-> 1, lost |-> 0,
         answer |-> None, outcome |-> NoOutcome]

\* SourceCounters, reduced to which of them are not zero.
Counted == {"ok", "failed", "circuit_open", "not_configured"}

TopicStatus == {"not_attempted", "collection_failed", "partial_collection",
                "no_candidates", "ok"}

\* None is no answer, no outcome and no status.
ASSUME NoneAssumption == None \notin Answers \cup Outcomes \cup TopicStatus

TypeOK ==
  /\ plan \in Plans
  /\ current \in 1..Len(Topics) + 1
  /\ \A q \in Queries :
       /\ task[q].pc \in {"queued", "lookup", "check", "feed", "call", "sent",
                          "judge", "note", "store", "done"}
       /\ task[q].at \in 1..Len(plan.order) \cup {1}
       /\ task[q].lost \in 0..Len(plan.feeds)
       /\ task[q].outcome \in Outcomes
       /\ task[q].outcome.ok \cup task[q].outcome.failed \subseteq Range(plan.order)
  /\ \A s \in Sources : free[s] \in 0..MaxConcurrency[s]
  /\ breaker \in [Sources -> [failures : Nat, open : BOOLEAN, over : BOOLEAN]]
  /\ seen \in [Keys -> Outcomes \cup {None}]
  /\ cache \in [Sources \X Keys -> Answers \cup {None}]
  /\ feedCache \subseteq Range(plan.feeds)
  /\ noted \in [Sources -> SUBSET Counted]
  /\ status \in [1..Len(Topics) -> TopicStatus \cup {None}]

\* apply_mode_policy in automatic mode: the breakers of the sources a probe could
\* not reach are open before the first query.  A source that reads feeds and has
\* none is not probed.
Probed == Range(plan.order) \ IF plan.feeds = <<>> THEN {Rss} ELSE {}
Tripped(unreachable) ==
  [s \in Sources |-> IF s \in unreachable
                     THEN [failures |-> Threshold[s], open |-> TRUE, over |-> FALSE]
                     ELSE [failures |-> 0, open |-> FALSE, over |-> FALSE]]

\* A run begins: its own planner, limiters, breakers and counters, and the cache
\* an earlier run of the process left behind.
Init ==
  /\ plan \in Plans
  /\ current = 1
  /\ task = [q \in Queries |-> Idle]
  /\ free = MaxConcurrency
  /\ \E unreachable \in SUBSET Probed : breaker = Tripped(unreachable)
  /\ seen = [k \in Keys |-> None]
  /\ \E past \in [Remembered -> [items : 0..1, lost : {FALSE}] \cup {None}] :
       /\ cache = [e \in Sources \X Keys |->
                     IF e \in Remembered THEN past[e] ELSE None]
       /\ heard = {<<e[1], e[2], past[e].items>> :
                     e \in {e \in Remembered : past[e] # None}}
  /\ feedCache = {}
  /\ noted = [s \in Sources |-> {}]
  /\ status = [i \in 1..Len(Topics) |-> None]
  /\ missed = {}
  /\ askedBy = [k \in Keys |-> {}]

-----------------------------------------------------------------------------
(* The pool takes up a query; one that was asked already is answered by the *)
(* planner's memory.                                                        *)

Source(q) == plan.order[task[q].at]
Key(q) == KeyOf[q]
Running == {q \in Queries : task[q].pc \notin {"queued", "done"}}

StartQuery(q) ==
  /\ current <= Len(Topics)
  /\ q \in Topics[current]
  /\ task[q].pc = "queued"
  /\ Cardinality(Running) < Workers
  /\ IF seen[Key(q)] # None
     THEN /\ task' = [task EXCEPT ![q].pc = "done", ![q].outcome = seen[Key(q)]]
          /\ UNCHANGED askedBy
     ELSE /\ task' = [task EXCEPT ![q].pc =
                        IF plan.order = <<>> THEN "store" ELSE "lookup"]
          /\ askedBy' = [askedBy EXCEPT ![Key(q)] = @ \cup {current}]
  /\ UNCHANGED <<plan, current, shared, seen, status, heard, missed>>

\* Mistake: a source skipped by its breaker is not among the failed ones.
AppendedSkipsSkipped(q, kind, items) ==
  LET old == task[q].outcome
      new == [ok     |-> IF kind = "ok" THEN old.ok \cup {Source(q)} ELSE old.ok,
              failed |-> IF kind = "failed" THEN old.failed \cup {Source(q)}
                         ELSE old.failed,
              found  |-> old.found + items]
      last == new.found >= MinCandidates \/ task[q].at = Len(plan.order)
  IN  [Idle EXCEPT !.pc = IF last THEN "store" ELSE "lookup",
                   !.at = IF last THEN task[q].at ELSE task[q].at + 1,
                   !.outcome = new]

\* outcome.results.append, and the loop over the sources: on to the next one
\* unless there are candidates enough.
Appended(q, kind, items) ==
  LET s == Source(q)
      old == task[q].outcome
      new == [ok     |-> IF kind = "ok" THEN old.ok \cup {s} ELSE old.ok,
              failed |-> IF kind \in {"failed", "circuit_open"}
                         THEN old.failed \cup {s} ELSE old.failed,
              found  |-> old.found + items]
      last == new.found >= MinCandidates \/ task[q].at = Len(plan.order)
  IN  [Idle EXCEPT !.pc = IF last THEN "store" ELSE "lookup",
                   !.at = IF last THEN task[q].at ELSE task[q].at + 1,
                   !.outcome = new]

\* cache.get: an answer from the cache is not counted as a request.
Lookup(q) ==
  LET cached == cache[<<Source(q), Key(q)>>] IN
  /\ task[q].pc = "lookup"
  /\ task' = [task EXCEPT ![q] = IF cached # None
                                 THEN Appended(q, "ok", cached.items)
                                 ELSE [@ EXCEPT !.pc = "check"]]
  /\ UNCHANGED <<plan, current, shared, seen, status, history>>

-----------------------------------------------------------------------------
(* SourceCollector.fetch.                                                   *)

Answered(q, kind, items, pc) ==
  [task EXCEPT ![q].pc = pc, ![q].answer = [kind |-> kind, items |-> items]]

\* Mistake: the count stays where it was.
HalfOpenKeepsCount(b, s) == [b EXCEPT !.open = FALSE, !.over = FALSE]

\* A breaker whose pause is over lets calls through and opens at one failure.
HalfOpen(b, s) == [failures |-> Threshold[s] - 1, open |-> FALSE, over |-> FALSE]

\* breaker.is_open, which half-opens the breaker when its pause is over.
CheckBreaker(q) ==
  LET s == Source(q) IN
  /\ task[q].pc = "check"
  /\ IF breaker[s].open /\ ~breaker[s].over
     THEN task' = Answered(q, "circuit_open", 0, "note")
     ELSE task' = [task EXCEPT ![q].pc = IF s = Rss THEN "feed" ELSE "call"]
  /\ breaker' = [breaker EXCEPT ![s] =
                   IF @.open /\ @.over THEN HalfOpen(@, s) ELSE @]
  /\ UNCHANGED <<plan, current, free, seen, cache, feedCache, noted, status, history>>

\* limiter.slot(): the semaphore, then the wait for the source's turn.
Send(q) ==
  LET s == Source(q) IN
  /\ task[q].pc = "call"
  /\ free[s] > 0
  /\ free' = [free EXCEPT ![s] = @ - 1]
  /\ task' = [task EXCEPT ![q].pc = "sent"]
  /\ UNCHANGED <<plan, current, breaker, seen, cache, feedCache, noted, status, history>>

\* The slot is given back before the answer is looked at.
Released(s) == free' = [free EXCEPT ![s] = @ + 1]

\* A source that can be searched answers: with candidates, with none, or not,
\* and then the request is sent again if it is of the kind that is retried.  An
\* answer the parser chokes on leaves fetch() by an exception, past the breaker.
Reply(q) ==
  LET s == Source(q) IN
  /\ task[q].pc = "sent"
  /\ s # Rss
  /\ Released(s)
  /\ \/ \E n \in 0..1 :
          /\ task' = Answered(q, "ok", n, "judge")
          /\ heard' = heard \cup {<<s, Key(q), n>>}
     \/ /\ task[q].tries < MaxAttempts[s]
        /\ task' = [task EXCEPT ![q].pc = "call", ![q].tries = @ + 1]
        /\ UNCHANGED heard
     \/ \E pc \in {"judge", "note"} :
          /\ task' = Answered(q, "failed", 0, pc)
          /\ UNCHANGED heard
  /\ UNCHANGED <<plan, current, breaker, seen, cache, feedCache, noted, status, missed, askedBy>>

-----------------------------------------------------------------------------
(* RSSCollector._fetch: the feeds one after another, each read once a run.  *)

NextFeed(q) ==
  LET t == task[q] IN
  /\ t.pc = "feed"
  /\ t.feed <= Len(plan.feeds)
  /\ task' = [task EXCEPT ![q] = IF plan.feeds[t.feed] \in feedCache
                                 THEN [t EXCEPT !.feed = @ + 1]
                                 ELSE [t EXCEPT !.pc = "call"]]
  /\ UNCHANGED <<plan, current, shared, seen, status, history>>

\* _load_feed: what was read is kept, a feed that failed is only counted, one
\* whose entries cannot be parsed ends the fetch.
FeedReply(q) ==
  LET t == task[q] IN
  /\ t.pc = "sent"
  /\ Source(q) = Rss
  /\ Released(Rss)
  /\ \/ /\ feedCache' = feedCache \cup {plan.feeds[t.feed]}
        /\ task' = [task EXCEPT ![q].pc = "feed", ![q].feed = @ + 1]
     \/ /\ task' = [task EXCEPT ![q].pc = "feed", ![q].feed = @ + 1,
                                ![q].lost = @ + 1]
        /\ UNCHANGED feedCache
     \/ /\ task' = Answered(q, "failed", 0, "note")
        /\ UNCHANGED feedCache
  /\ UNCHANGED <<plan, current, breaker, seen, cache, noted, status, history>>

\* No feed at all, no feed read, or the matching items of those that were.
FeedsDone(q) ==
  LET t == task[q] IN
  /\ t.pc = "feed"
  /\ t.feed > Len(plan.feeds)
  /\ \/ /\ plan.feeds = <<>>
        /\ task' = Answered(q, "not_configured", 0, "judge")
        /\ UNCHANGED heard
     \/ /\ plan.feeds # <<>>
        /\ t.lost = Len(plan.feeds)
        /\ task' = Answered(q, "failed", 0, "judge")
        /\ UNCHANGED heard
     \/ /\ t.lost < Len(plan.feeds)
        /\ \E n \in 0..1 :
             /\ task' = Answered(q, "ok", n, "judge")
             /\ heard' = heard \cup {<<Rss, Key(q), n>>}
  /\ UNCHANGED <<plan, current, shared, seen, status, missed, askedBy>>

-----------------------------------------------------------------------------
(* Behind the answer: the breaker, the cache and the counters, the planner. *)

Recorded(b, s, kind) ==
  CASE kind = "ok"     -> [failures |-> 0, open |-> FALSE, over |-> FALSE]
    [] kind = "failed" -> [b EXCEPT !.failures = @ + 1,
                                    !.open = @ \/ b.failures + 1 >= Threshold[s]]
    [] OTHER           -> b

\* record_success, record_failure, or neither.
Judge(q) ==
  LET s == Source(q) IN
  /\ task[q].pc = "judge"
  /\ breaker' = [breaker EXCEPT ![s] = Recorded(@, s, task[q].answer.kind)]
  /\ task' = [task EXCEPT ![q].pc = "note"]
  /\ UNCHANGED <<plan, current, free, seen, cache, feedCache, noted, status, history>>

\* cache.put keeps good answers only; health.record counts each kind.
Note(q) ==
  LET s == Source(q)
      kind == task[q].answer.kind
      items == task[q].answer.items
  IN
  /\ task[q].pc = "note"
  /\ cache' = [cache EXCEPT ![<<s, Key(q)>>] =
                 IF kind = "ok" THEN [items |-> items, lost |-> task[q].lost > 0]
                 ELSE @]
  /\ noted' = [noted EXCEPT ![s] = @ \cup {kind}]
  /\ missed' = IF kind \in {"failed", "circuit_open"} THEN missed \cup {current}
               ELSE missed
  /\ task' = [task EXCEPT ![q] = Appended(q, kind, items)]
  /\ UNCHANGED <<plan, current, free, breaker, seen, feedCache, status, heard, askedBy>>

\* Mistake: only outcomes that a source answered are worth keeping.
StoreGoodOnly(q) ==
  /\ task[q].pc = "store"
  /\ seen' = IF task[q].outcome.ok = {} THEN seen
             ELSE [seen EXCEPT ![Key(q)] = task[q].outcome]
  /\ task' = [task EXCEPT ![q].pc = "done"]
  /\ UNCHANGED <<plan, current, shared, status, history>>

Store(q) ==
  /\ task[q].pc = "store"
  /\ seen' = [seen EXCEPT ![Key(q)] = task[q].outcome]
  /\ task' = [task EXCEPT ![q].pc = "done"]
  /\ UNCHANGED <<plan, current, shared, status, history>>

\* classify_topic_outcome.
Classify(ok, failed, found) ==
  CASE ok = {} /\ failed = {} -> "not_attempted"
    [] ok = {} /\ failed # {} -> "collection_failed"
    [] ok # {} /\ failed # {} -> "partial_collection"
    [] OTHER                  -> IF found THEN "ok" ELSE "no_candidates"

\* collect_topic, once every future of the topic has its result.
CloseTopic ==
  /\ current <= Len(Topics)
  /\ \A q \in Topics[current] : task[q].pc = "done"
  /\ LET outcomes == {task[q].outcome : q \in Topics[current]}
     IN  status' = [status EXCEPT ![current] =
           Classify(UNION {o.ok : o \in outcomes}, UNION {o.failed : o \in outcomes},
                    \E o \in outcomes : o.found > 0)]
  /\ current' = current + 1
  /\ UNCHANGED <<plan, task, shared, seen, history>>

-----------------------------------------------------------------------------
(* Time passes.                                                             *)

PauseEnds(s) ==
  /\ breaker[s].open
  /\ ~breaker[s].over
  /\ breaker' = [breaker EXCEPT ![s].over = TRUE]
  /\ UNCHANGED <<plan, current, task, free, seen, cache, feedCache, noted, status, history>>

\* An entry outlives its minutes, or is the oldest of a full cache.
Expire(s, k) ==
  /\ cache[<<s, k>>] # None
  /\ cache' = [cache EXCEPT ![<<s, k>>] = None]
  /\ UNCHANGED <<plan, current, task, free, breaker, seen, feedCache, noted, status, history>>

QueryStep(q) ==
  \/ StartQuery(q) \/ Lookup(q) \/ CheckBreaker(q) \/ Send(q) \/ Reply(q)
  \/ NextFeed(q) \/ FeedReply(q) \/ FeedsDone(q)
  \/ Judge(q) \/ Note(q) \/ Store(q)

Next ==
  \/ \E q \in Queries : QueryStep(q)
  \/ CloseTopic
  \/ \E s \in Sources : PauseEnds(s)
  \/ \E s \in Sources, k \in Keys : Expire(s, k)

Spec == Init /\ [][Next]_vars

-----------------------------------------------------------------------------
(* What the health tracker makes of its counters.                           *)

\* Mistake: a source that answered once has nothing to report.
ImpairedIfSilent(s) ==
  /\ noted[s] \cap {"failed", "circuit_open"} # {}
  /\ "ok" \notin noted[s]

\* derive_state of SourceHealthTracker: is the source's state one of IMPAIRED?
Impaired(s) ==
  /\ noted[s] \cap {"failed", "circuit_open"} # {}
  /\ ~(noted[s] \cap {"ok", "failed"} = {} /\ "not_configured" \in noted[s])

-----------------------------------------------------------------------------
(* Properties.                                                              *)

\* net_policy.py, CircuitBreaker: however the answers of several workers
\* interleave with half-opening, the breaker refuses exactly while its count
\* stands at the threshold.
BreakerRefuses ==
  \A s \in Sources : breaker[s].open <=> breaker[s].failures >= Threshold[s]

\* classify_topic_outcome: a topic whose collection is called complete had an
\* answer to every query, from the network or from an unexpired answer of the
\* network, and no source it turned to failed or was skipped.  "No candidates"
\* means that an answer without candidates was given.
HonestNothing ==
  \A i \in DOMAIN status : status[i] \in {"ok", "no_candidates"} =>
    /\ i \notin missed
    /\ \A q \in Topics[i] :
         \E h \in heard :
           /\ h[2] = Key(q)
           /\ status[i] = "no_candidates" => h[3] = 0

\* The report's two voices agree: once the topics are through, some topic was
\* collected in part or not at all exactly if the banner lists a source.
TopicsAgreeWithHealth ==
  LET degraded == \E i \in DOMAIN status :
                    status[i] \in {"collection_failed", "partial_collection"}
  IN  /\ degraded => \E s \in Sources : Impaired(s)
      /\ current > Len(Topics) /\ ~degraded => \A s \in Sources : ~Impaired(s)

\* pipeline.py:523-524, "reuses a query another topic already ran": a query of
\* two topics goes out for one of them only, even when it failed there.
AskedForOneTopic == \A k \in Keys : Cardinality(askedBy[k]) <= 1
=============================================================================
