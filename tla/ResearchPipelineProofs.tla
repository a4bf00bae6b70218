----------------------- MODULE ResearchPipelineProofs -----------------------
(***************************************************************************)
(* Proofs about ResearchPipeline, for any sources, any number of events in *)
(* an answer and whichever faults may strike.                              *)
(***************************************************************************)
EXTENDS ResearchPipeline, FiniteSetTheorems, TLAPS

-----------------------------------------------------------------------------
(* The inductive invariant.                                                 *)

Unfiled == {"queued", "load", "check", "agent", "judge", "sources", "event", "record", "persist"}
Under   == (Unfiled \ {"queued"}) \cup {"export", "mark", "finish"}

Answer == [sources : SUBSET Sources, coverage : Coverage,
           cites : UNION {[1 .. n -> SUBSET Sources] : n \in 0 .. MaxEvents}]

Types ==
    /\ TypeOK
    /\ result \in Answer
    /\ verdict \in [status : Terminal \cup {""}, coverage : Coverage \cup {""}]
    /\ IsFiniteSet(obs) /\ IsFiniteSet(recorded)
    /\ report.filed => IsFiniteSet(report.items)

\* Where the pipeline is decides what the run row says.
Control ==
    /\ pc \in Unfiled \cup Under \cup {"done", "dead"}
    /\ pc = "queued" => run.status = "pending"
    /\ pc \in Under => run.status = "running"
    /\ pc = "done" => run.status \in Terminal
    /\ pc = "dead" => run.status \in Active \cup {"failed"} /\ struck
    /\ pc \in Unfiled => ~report.filed
    /\ pc = "record" => at <= Count

\* The agent's verdict on its own coverage goes into the report and the run row.
Verdict ==
    /\ pc \in {"sources", "event", "record", "persist", "export", "mark"} =>
          result.coverage \in {"complete", "partial"}
    /\ pc \in {"export", "mark", "finish"} /\ report.filed =>
          /\ report.coverage = result.coverage
          /\ report.degraded <=> result.coverage = "partial" \/ errors
    /\ pc = "finish" =>
          /\ verdict.status \in Terminal
          /\ verdict.status = "cancelled" => ~report.filed
          /\ verdict.status = "failed" /\ ~struck => ~report.filed
          /\ verdict.status \in {"completed", "completed_with_errors"} =>
                /\ verdict.coverage = result.coverage
                /\ result.coverage \in {"complete", "partial"}
                /\ verdict.status = "completed_with_errors"
                      <=> result.coverage = "partial" \/ errors

\* Every observation rests on stored articles and is counted once.
Stored ==
    /\ \A o \in obs : o.links # {} /\ o.links \subseteq articles
    /\ \A e \in EventIds : count[e] = Cardinality({o \in obs : o.event = e})
    /\ pc \in {"event", "record"} => {UrlOf[s] : s \in result.sources} \subseteq articles
    /\ report.filed =>
          \A i \in report.items : \E o \in obs : o.id = i.obs /\ o.event = i.event

\* What the pipeline remembers of its observations is what it stored.
Remembered ==
    /\ \A i \in recorded : \E o \in obs : o.by = "run" /\ o.id = i.obs /\ o.event = i.event
    /\ \A o \in obs : o.by = "run" =>
          \E i \in recorded : i.obs = o.id /\ i.event = o.event
    /\ \A i, j \in recorded : i.obs = j.obs => i = j
    /\ \A o, p \in obs : o.id = p.id => o = p
    /\ \A o \in obs : o.by = "past" => o.event = 0
    /\ \A o \in obs : o.id < at
    /\ \A i \in recorded : i.state = "new" => i.event # 0
    /\ \A i \in recorded : i.state = "updated" =>
          \E o \in obs : o.event = i.event /\ o.id # i.obs

\* The events of this run are numbered without a gap.
NoGap == \E k \in 0 .. (at - 1) : \A e \in EventIds \ {0} : count[e] > 0 <=> e <= k

Inv ==
    /\ Types /\ Control /\ Verdict /\ Stored
    /\ pc # "dead" => Remembered /\ NoGap
    /\ OnlyFinishedRunsReport /\ NewIsFirstSeen /\ CoverageAgrees

-----------------------------------------------------------------------------
(* Counting.                                                                *)

\* An answer has no more events than the bound.
LEMMA AnswerCount ==
    ASSUME result \in Answer PROVE Count \in 0 .. MaxEvents
<1>1. PICK n \in 0 .. MaxEvents : result.cites \in [1 .. n -> SUBSET Sources]
  BY DEF Answer
<1>2. DOMAIN result.cites = 1 .. n /\ n \in Nat
  BY <1>1, ResearchAssumption
<1>3. Cardinality(1 .. n) = n
  BY <1>2, FS_Interval
<1> QED BY <1>1, <1>2, <1>3 DEF Count

LEMMA NextPlace ==
    ASSUME NEW m \in Nat, NEW a \in 1 .. m + 1, NEW b, b = a \/ (b = a + 1 /\ a <= m)
    PROVE  b \in 1 .. m + 1
OBVIOUS

LEMMA Places ==
    ASSUME Types
    PROVE  /\ at \in 1 .. MaxEvents + 1 /\ at \in Nat /\ Count \in Nat /\ MaxEvents \in Nat
           /\ at <= Count => at <= MaxEvents
           /\ ~(at > Count) => at <= Count
           /\ result' = result => Count' = Count
<1>1. at \in 1 .. MaxEvents + 1
  BY DEF Types, TypeOK
<1>2. Count \in 0 .. MaxEvents
  BY AnswerCount DEF Types
<1>3. result' = result => Count' = Count
  BY DEF Count
<1> QED BY <1>1, <1>2, <1>3, ResearchAssumption

LEMMA SomeFinite ==
    ASSUME NEW S \in SUBSET EventIds
    PROVE  IsFiniteSet(S) /\ Cardinality(S) \in Nat
<1>1. IsFiniteSet(EventIds)
  BY ResearchAssumption, FS_Interval DEF EventIds
<1> QED BY <1>1, FS_Subset, FS_CardinalityType

\* An event is there when it has been observed.
LEMMA CountedIsObserved ==
    ASSUME Types, Stored, NEW e \in EventIds
    PROVE  /\ IsFiniteSet({o \in obs : o.event = e})
           /\ count[e] > 0 <=> \E o \in obs : o.event = e
<1> DEFINE S == {o \in obs : o.event = e}
<1>1. IsFiniteSet(S)
  BY FS_Subset DEF Types
<1>2. count[e] = Cardinality(S) /\ count[e] \in Nat
  BY DEF Types, TypeOK, Stored
<1>3. Cardinality(S) = 0 <=> S = {}
  BY <1>1, FS_EmptySet
<1> QED BY <1>1, <1>2, <1>3

\* It has been observed once when one observation is its only one.
LEMMA CountedOnce ==
    ASSUME Types, Stored, NEW e \in EventIds
    PROVE  count[e] = 1 <=> \E o \in obs : \A p \in obs : p.event = e <=> p = o
<1> DEFINE S == {o \in obs : o.event = e}
<1>1. IsFiniteSet(S) /\ count[e] = Cardinality(S)
  BY CountedIsObserved DEF Stored
<1>2. Cardinality(S) = 1 <=> \E x : S = {x}
  BY <1>1, FS_Singleton
<1>3. (\E x : S = {x}) <=> \E o \in obs : \A p \in obs : p.event = e <=> p = o
  <2>1. ASSUME NEW x, S = {x} PROVE x \in obs /\ \A p \in obs : p.event = e <=> p = x
    BY <2>1
  <2>2. ASSUME NEW o \in obs, \A p \in obs : p.event = e <=> p = o PROVE S = {o}
    BY <2>2
  <2> QED BY <2>1, <2>2
<1> QED BY <1>1, <1>2, <1>3

\* The id of a new event is the next one; the pipeline never runs out of them.
LEMMA FreshIsNext ==
    ASSUME Types, Control, NoGap, pc = "record"
    PROVE  /\ FreshId \in EventIds \ {0} /\ count[FreshId] = 0
           /\ \E k \in 0 .. at : \A e \in EventIds \ {0} :
                 (count[e] > 0 \/ e = FreshId) <=> e <= k
<1>1. PICK k \in 0 .. (at - 1) : \A e \in EventIds \ {0} : count[e] > 0 <=> e <= k
  BY DEF NoGap
<1>2. at \in 1 .. MaxEvents
  <2>1. at <= Count /\ at \in 1 .. MaxEvents + 1
    BY DEF Types, TypeOK, Control
  <2>2. Count \in 0 .. MaxEvents
    BY AnswerCount DEF Types
  <2> QED BY <2>1, <2>2, ResearchAssumption
<1>3. k + 1 \in EventIds \ {0} /\ k \in Nat
  BY <1>1, <1>2, ResearchAssumption DEF EventIds
<1>4. ASSUME NEW e \in EventIds \ {0}
      PROVE  e \in Nat /\ count[e] \in Nat /\ (count[e] = 0 <=> e >= k + 1)
  <2>1. e \in Nat /\ count[e] \in Nat
    <3>1. count \in [EventIds -> Nat]
      BY DEF Types, TypeOK
    <3> QED BY <3>1, ResearchAssumption DEF EventIds
  <2>2. count[e] > 0 <=> e <= k
    BY <1>1
  <2> QED BY <1>3, <2>1, <2>2
<1>5. \E e \in EventIds \ {0} : count[e] = 0 /\ \A f \in EventIds \ {0} : count[f] = 0 => e <= f
  BY <1>3, <1>4
<1>6. /\ FreshId \in EventIds \ {0} /\ count[FreshId] = 0
      /\ \A f \in EventIds \ {0} : count[f] = 0 => FreshId <= f
  BY <1>5 DEF FreshId
<1>7. FreshId = k + 1
  BY <1>3, <1>4, <1>6
<1>8. \A e \in EventIds \ {0} : (count[e] > 0 \/ e = FreshId) <=> e <= k + 1
  BY <1>3, <1>4, <1>7
<1>9. k + 1 \in 0 .. at
  BY <1>1, <1>2, <1>3
<1> QED BY <1>6, <1>8, <1>9

-----------------------------------------------------------------------------
(* The initial state.                                                       *)

LEMMA InitInv == Init => Inv
<1> SUFFICES ASSUME Init PROVE Inv
  OBVIOUS
<1> DEFINE First(past) == [id |-> 0, event |-> 0, by |-> "past", links |-> {past}]
<1>1. PICK past \in Urls \cup {"nothing"} :
        /\ articles = {past} \ {"nothing"}
        /\ count = [e \in EventIds |-> IF e = 0 /\ past # "nothing" THEN 1 ELSE 0]
        /\ inTopic = IF past = "nothing" THEN {} ELSE {0}
        /\ obs = IF past = "nothing" THEN {} ELSE {First(past)}
  BY Zenon DEF Init
<1>2. 0 \in EventIds
  BY ResearchAssumption DEF EventIds
<1>3. First(past).id = 0 /\ First(past).event = 0 /\ First(past).by = "past"
      /\ First(past).links = {past}
  OBVIOUS
<1>4. past # "nothing" => First(past) \in Observations
  BY <1>1, <1>2 DEF Observations
<1> HIDE DEF First
<1>5. obs \subseteq Observations /\ IsFiniteSet(obs)
  BY <1>1, <1>4, FS_EmptySet, FS_Singleton
<1>6. result \in Answer
  <2>1. <<>> \in [1 .. 0 -> SUBSET Sources]
    OBVIOUS
  <2>2. 0 \in 0 .. MaxEvents
    BY ResearchAssumption
  <2> QED BY <2>1, <2>2 DEF Init, NoResult, Answer, Coverage
<1>13. at = 1 /\ recorded = {}
  BY Zenon DEF Init
<1>7. TypeOK
  <2>1. run \in [status : Active \cup Terminal, coverage : Coverage \cup {""},
                 cancel : BOOLEAN, topic : BOOLEAN,
                 totals : [events : Nat, new : Nat, items : Nat]]
    BY DEF Init, Active, NoTotals
  <2>2. articles \subseteq Urls /\ inTopic \subseteq EventIds /\ count \in [EventIds -> Nat]
    BY <1>1, <1>2
  <2>3. at \in 1 .. MaxEvents + 1
    BY <1>13, ResearchAssumption
  <2> QED BY <1>5, <2>1, <2>2, <2>3 DEF Init, TypeOK
<1>8. Types
  BY <1>5, <1>6, <1>7, FS_EmptySet DEF Types, Init, NoReport
<1>9. Control /\ Verdict
  BY DEF Init, Control, Verdict, Unfiled, Under, NoReport
<1>10. Stored
  <2>1. ASSUME NEW e \in EventIds PROVE count[e] = Cardinality({o \in obs : o.event = e})
    <3>1. CASE e = 0 /\ past # "nothing"
      <4>1. {o \in obs : o.event = e} = {First(past)}
        BY <1>1, <1>3, <3>1
      <4> QED BY <1>1, <3>1, <4>1, FS_Singleton
    <3>2. CASE ~(e = 0 /\ past # "nothing")
      <4>1. {o \in obs : o.event = e} = {}
        BY <1>1, <1>3, <3>2
      <4> QED BY <1>1, <3>2, <4>1, FS_EmptySet
    <3> QED BY <3>1, <3>2
  <2> QED BY <1>1, <1>3, <2>1 DEF Init, Stored, NoReport
<1>11. Remembered
  <2>1. \A o \in obs : o = First(past)
    BY <1>1
  <2> QED BY <1>3, <1>13, <2>1 DEF Remembered
<1>12. NoGap
  <2>1. \A e \in EventIds \ {0} : count[e] > 0 <=> e <= 0
    BY <1>1, ResearchAssumption DEF EventIds
  <2>2. 0 \in 0 .. (at - 1)
    BY <1>13
  <2> QED BY <2>1, <2>2 DEF NoGap
<1>14. OnlyFinishedRunsReport /\ NewIsFirstSeen /\ CoverageAgrees
  BY DEF Init, OnlyFinishedRunsReport, NewIsFirstSeen, CoverageAgrees
<1> QED BY <1>8, <1>9, <1>10, <1>11, <1>12, <1>14 DEF Inv

-----------------------------------------------------------------------------
(* Recording an event.                                                      *)

\* What UpdateEvent and NewEvent have in common.
Observes(e, state) ==
    /\ pc = "record" /\ pc' = "event" /\ Linked # {}
    /\ e \in EventIds
    /\ \/ state = "new" /\ e = FreshId
       \/ state = "updated" /\ count[e] > 0
    /\ Observe(e, state)
    /\ at' = at + 1
    /\ UNCHANGED <<run, topicAlive, articles, report, result, errors, verdict, struck>>

LEMMA RecordingObserves ==
    ASSUME Inv, UpdateEvent \/ NewEvent
    PROVE  \E e \in EventIds, state \in {"new", "updated"} :
               Observes(e, state) /\ inTopic' \subseteq EventIds
<1>1. CASE UpdateEvent
  <2>1. PICK e \in Candidates : Observe(e, "updated")
    BY <1>1 DEF UpdateEvent
  <2>2. e \in EventIds /\ count[e] > 0 /\ inTopic \subseteq EventIds
    BY <2>1 DEF Candidates, Inv, Types, TypeOK
  <2> QED BY <1>1, <2>1, <2>2 DEF UpdateEvent, Observes, Advance, Goto
<1>2. CASE NewEvent
  <2>1. FreshId \in EventIds
    BY <1>2, FreshIsNext DEF Inv, NewEvent
  <2>2. Observes(FreshId, "new")
    BY <1>2, <2>1 DEF NewEvent, Observes, Advance, Goto
  <2>3. inTopic' \subseteq EventIds
    BY <1>2, <2>1 DEF NewEvent, Inv, Types, TypeOK
  <2> QED BY <2>1, <2>2, <2>3
<1> QED BY <1>1, <1>2

\* The observation and the item of it are both new: their place is.
LEMMA ObserveKeeps ==
    ASSUME Inv, NEW e \in EventIds, NEW state \in {"new", "updated"}, Observes(e, state),
           inTopic' \subseteq EventIds
    PROVE  Types' /\ Stored' /\ Remembered' /\ NoGap'
<1> DEFINE o == [id |-> at, event |-> e, by |-> "run", links |-> Linked]
           i == [obs |-> at, event |-> e, state |-> state]
<1>1. /\ obs' = obs \cup {o} /\ recorded' = recorded \cup {i}
      /\ count' = [count EXCEPT ![e] = @ + 1] /\ at' = at + 1 /\ pc' = "event"
      /\ run' = run /\ topicAlive' = topicAlive /\ articles' = articles /\ report' = report
      /\ result' = result /\ errors' = errors /\ verdict' = verdict /\ struck' = struck
  BY DEF Observes, Observe
<1>2. Types /\ Stored /\ Remembered /\ NoGap /\ pc = "record" /\ Control /\ ~report.filed
  BY DEF Inv, Observes, Control, Unfiled
<1>3. at \in Positions /\ at \in EventIds /\ at \in Nat
  <2>1. at <= Count /\ at \in 1 .. MaxEvents + 1
    BY <1>2 DEF Types, TypeOK, Control
  <2>2. Count \in 0 .. MaxEvents
    BY <1>2, AnswerCount DEF Types
  <2> QED BY <2>1, <2>2, ResearchAssumption DEF Positions, EventIds
<1>4. Linked # {} /\ Linked \subseteq articles /\ articles \subseteq Urls
  BY <1>2 DEF Observes, Stored, Linked, Types, TypeOK
<1>5. o \in Observations /\ o.id = at /\ o.event = e /\ o.by = "run" /\ o.links = Linked
  BY <1>3, <1>4 DEF Observations
<1>6. i \in Items /\ i.obs = at /\ i.event = e /\ i.state = state
  BY <1>3 DEF Items
<1> HIDE DEF o, i
<1>7. /\ o \notin obs /\ \A p \in obs : p.id < at /\ p.id \in Nat
      /\ i \notin recorded /\ \A j \in recorded : j.obs < at
  <2>1. \A p \in obs : p.id < at /\ p.id \in Nat
    <3>1. obs \subseteq Observations /\ \A p \in obs : p.id < at
      BY <1>2 DEF Remembered, Types, TypeOK
    <3>2. \A p \in Observations : p.id \in Nat
      BY ResearchAssumption DEF Observations, EventIds
    <3> QED BY <3>1, <3>2
  <2>2. \A j \in recorded : j.obs < at
    BY <1>2, <2>1 DEF Remembered
  <2> QED BY <1>3, <1>5, <1>6, <2>1, <2>2
<1>12. count \in [EventIds -> Nat] /\ count' \in [EventIds -> Nat]
       /\ count'[e] = count[e] + 1 /\ \A f \in EventIds \ {e} : count'[f] = count[f]
  <2>1. count \in [EventIds -> Nat]
    BY <1>2 DEF Types, TypeOK
  <2>2. count' = [count EXCEPT ![e] = @ + 1]
    BY <1>1
  <2> QED BY <2>1, <2>2
<1>8. Types'
  <2>1. obs' \subseteq Observations /\ IsFiniteSet(obs')
    BY <1>1, <1>2, <1>5, FS_AddElement DEF Types, TypeOK
  <2>2. recorded' \subseteq Items /\ IsFiniteSet(recorded')
    BY <1>1, <1>2, <1>6, FS_AddElement DEF Types, TypeOK
  <2>3. count' \in [EventIds -> Nat]
    BY <1>12
  <2>4. at' \in 1 .. MaxEvents + 1
    BY <1>1, <1>3, ResearchAssumption DEF Positions
  <2>5. TypeOK'
    BY <1>1, <1>2, <2>1, <2>2, <2>3, <2>4 DEF Types, TypeOK
  <2> QED BY <1>1, <1>2, <2>1, <2>2, <2>5 DEF Types
<1>9. Stored'
  <2>1. ASSUME NEW f \in EventIds PROVE count'[f] = Cardinality({x \in obs' : x.event = f})
    <3> DEFINE S == {x \in obs : x.event = f}
    <3>1. IsFiniteSet(S) /\ count[f] = Cardinality(S) /\ count \in [EventIds -> Nat]
      BY <1>2, CountedIsObserved DEF Stored, Types, TypeOK
    <3>2. CASE f = e
      <4>1. {x \in obs' : x.event = f} = S \cup {o} /\ o \notin S
        BY <1>1, <1>5, <1>7, <3>2
      <4> HIDE DEF S
      <4>2. Cardinality(S \cup {o}) = Cardinality(S) + 1
        BY <3>1, <4>1, FS_AddElement
      <4> QED BY <1>12, <3>1, <3>2, <4>1, <4>2
    <3>3. CASE f # e
      <4>1. {x \in obs' : x.event = f} = S
        BY <1>1, <1>5, <3>3
      <4> HIDE DEF S
      <4> QED BY <1>12, <3>1, <3>3, <4>1
    <3> QED BY <3>2, <3>3
  <2>2. \A x \in obs' : x.links # {} /\ x.links \subseteq articles'
    BY <1>1, <1>2, <1>4, <1>5 DEF Stored
  <2>3. {UrlOf[s] : s \in result'.sources} \subseteq articles'
    BY <1>1, <1>2 DEF Stored
  <2> QED BY <1>1, <1>2, <2>1, <2>2, <2>3 DEF Stored
<1>10. Remembered'
  <2>1. \A j \in recorded' : \E x \in obs' : x.by = "run" /\ x.id = j.obs /\ x.event = j.event
    BY <1>1, <1>2, <1>5, <1>6 DEF Remembered
  <2>2. \A x \in obs' : x.by = "run" => \E j \in recorded' : j.obs = x.id /\ j.event = x.event
    BY <1>1, <1>2, <1>5, <1>6 DEF Remembered
  <2>3. \A j, k \in recorded' : j.obs = k.obs => j = k
    BY <1>1, <1>2, <1>3, <1>6, <1>7 DEF Remembered
  <2>4. \A x, y \in obs' : x.id = y.id => x = y
    BY <1>1, <1>2, <1>3, <1>5, <1>7 DEF Remembered
  <2>5. \A x \in obs' : (x.by = "past" => x.event = 0) /\ x.id < at'
    BY <1>1, <1>2, <1>3, <1>5, <1>7 DEF Remembered
  <2>6. \A j \in recorded' : j.state = "new" => j.event # 0
    BY <1>1, <1>2, <1>6, FreshIsNext DEF Remembered, Observes
  <2>7. ASSUME state = "updated" PROVE \E x \in obs : x.event = e /\ x.id # at
    <3>1. count[e] > 0
      BY <2>7 DEF Observes
    <3>2. \E x \in obs : x.event = e
      BY <1>2, <3>1, CountedIsObserved
    <3> QED BY <1>3, <1>7, <3>2
  <2>8. \A j \in recorded' : j.state = "updated" => \E x \in obs' : x.event = j.event /\ x.id # j.obs
    BY <1>1, <1>2, <1>6, <2>7 DEF Remembered
  <2> QED BY <2>1, <2>2, <2>3, <2>4, <2>5, <2>6, <2>8 DEF Remembered
<1>11. NoGap'
  <2>1. CASE state = "new"
    <3>1. e = FreshId
      BY <2>1 DEF Observes
    <3>2. /\ e \in EventIds \ {0} /\ count[e] = 0
          /\ \E k \in 0 .. at : \A f \in EventIds \ {0} : (count[f] > 0 \/ f = e) <=> f <= k
      BY <1>2, <3>1, FreshIsNext
    <3>3. \A f \in EventIds : count'[f] > 0 <=> count[f] > 0 \/ f = e
      BY <1>12, <3>2
    <3>4. at' - 1 = at
      BY <1>1, <1>3
    <3> QED BY <3>2, <3>3, <3>4 DEF NoGap
  <2>2. CASE state = "updated"
    <3>1. count[e] > 0
      BY <2>2 DEF Observes
    <3>2. \A f \in EventIds : count'[f] > 0 <=> count[f] > 0
      BY <1>12, <3>1
    <3>3. PICK k \in 0 .. (at - 1) : \A f \in EventIds \ {0} : count[f] > 0 <=> f <= k
      BY <1>2 DEF NoGap
    <3>4. k \in 0 .. (at' - 1)
      BY <1>1, <1>3
    <3> QED BY <3>2, <3>3, <3>4 DEF NoGap
  <2> QED BY <2>1, <2>2
<1> QED BY <1>8, <1>9, <1>10, <1>11

-----------------------------------------------------------------------------
(* Steps that record nothing.                                               *)

LEMMA QuietRemembers ==
    ASSUME Inv, obs' = obs, count' = count, pc' # "dead", pc # "dead",
           recorded' = recorded, at' = at \/ at' = at + 1
    PROVE  Remembered' /\ NoGap'
<1>1. Remembered /\ NoGap /\ at \in Nat /\ obs \subseteq Observations
  BY Places DEF Inv, Types, TypeOK
<1>2. \A o \in obs : o.id < at'
  <2>1. \A o \in obs : o.id < at /\ o.id \in Nat
    BY <1>1, ResearchAssumption DEF Remembered, Observations, EventIds
  <2> QED BY <1>1, <2>1
<1>3. Remembered'
  BY <1>1, <1>2 DEF Remembered
<1>4. NoGap'
  <2>1. PICK k \in 0 .. (at - 1) : \A e \in EventIds \ {0} : count[e] > 0 <=> e <= k
    BY <1>1 DEF NoGap
  <2>2. k \in 0 .. (at' - 1)
    BY <1>1
  <2> QED BY <2>1, <2>2 DEF NoGap
<1> QED BY <1>3, <1>4

LEMMA QuietStored ==
    ASSUME Inv, obs' = obs, count' = count, articles \subseteq articles',
           report' = report \/ ~report'.filed,
           pc' \in {"event", "record"} => pc \in {"event", "record"} /\ result' = result
    PROVE  Stored'
BY DEF Inv, Stored

\* A step of the pipeline that touches no row.
LEMMA ControlStep ==
    ASSUME Inv, pc \notin {"done", "dead"}, pc' \notin {"done", "dead"},
           UNCHANGED <<dbVars, recorded, errors>>,
           at' = at \/ (at' = at + 1 /\ at <= MaxEvents),
           result' \in Answer,
           pc' \in {"event", "record"} => pc \in {"event", "record"} /\ result' = result,
           struck' \in {struck, TRUE},
           verdict' \in [status : Terminal \cup {""}, coverage : Coverage \cup {""}],
           Control', Verdict'
    PROVE  Inv'
<1>1. /\ run' = run /\ topicAlive' = topicAlive /\ articles' = articles /\ count' = count
      /\ inTopic' = inTopic /\ obs' = obs /\ report' = report
      /\ recorded' = recorded /\ errors' = errors
  BY DEF dbVars
<1>2. Types'
  <2>1. at' \in 1 .. MaxEvents + 1
    <3>1. at \in 1 .. MaxEvents + 1 /\ at \in Nat /\ MaxEvents \in Nat
      <4>1. Types
        BY DEF Inv
      <4> QED BY <4>1, Places
    <3>2. at' = at \/ (at' = at + 1 /\ at <= MaxEvents)
      OBVIOUS
    <3> QED BY <3>1, <3>2, NextPlace
  <2>3. struck' \in BOOLEAN
    BY DEF Inv, Types, TypeOK
  <2> QED BY <1>1, <2>1, <2>3 DEF Inv, Types, TypeOK
<1>3. Stored' /\ Remembered' /\ NoGap'
  BY <1>1, QuietStored, QuietRemembers
<1>4. OnlyFinishedRunsReport' /\ NewIsFirstSeen' /\ CoverageAgrees'
  <2>1. ~struck' => ~struck
    BY DEF Inv, Types, TypeOK
  <2>2. CoverageAgrees'
    BY DEF CoverageAgrees
  <2>3. NewIsFirstSeen'
    BY DEF NewIsFirstSeen
  <2> QED BY <1>1, <2>1, <2>2, <2>3 DEF Inv, OnlyFinishedRunsReport
<1> QED BY <1>2, <1>3, <1>4 DEF Inv

VerdictType == [status : Terminal \cup {""}, coverage : Coverage \cup {""}]

LEMMA VerdictTypes ==
    /\ \A s \in Terminal \cup {""}, c \in Coverage \cup {""} :
          [status |-> s, coverage |-> c] \in VerdictType
    /\ [status |-> "failed", coverage |-> "failed"] \in VerdictType
    /\ [status |-> "cancelled", coverage |-> ""] \in VerdictType
BY DEF VerdictType, Terminal, Coverage

LEMMA PlainSteps ==
    ASSUME Inv, LoadTopic \/ CheckBeforeAgent \/ AskAgent \/ Judge \/ NextEvent \/ SkipEvent
                \/ ExportReport \/ MarkTopic \/ FinishRaises
    PROVE  Inv'
<1> USE VerdictTypes DEF VerdictType, Fail, EndWith, Goto
<1>0. Types /\ Control /\ Verdict /\ OnlyFinishedRunsReport
  BY DEF Inv
<1>1. CASE LoadTopic
  <2>1. Control' /\ Verdict'
    BY <1>0, <1>1 DEF LoadTopic, dbVars, Control, Verdict, Unfiled, Under, Count, Terminal
  <2> QED BY <1>0, <1>1, <2>1, ControlStep DEF LoadTopic, Types
<1>2. CASE CheckBeforeAgent
  <2>1. Control' /\ Verdict'
    BY <1>0, <1>2 DEF CheckBeforeAgent, CheckThen, Strike, dbVars, Control, Verdict, Unfiled, Under, Count, Terminal
  <2> QED BY <1>0, <1>2, <2>1, ControlStep DEF CheckBeforeAgent, CheckThen, Strike, Types
<1>3. CASE AskAgent
  <2>1. Control' /\ Verdict'
    BY <1>0, <1>3 DEF AskAgent, dbVars, Control, Verdict, Unfiled, Under, Terminal
  <2>2. result' \in Answer
    <3>1. CASE result' = result
      BY <1>0, <3>1 DEF Types
    <3>2. CASE result' # result
      <4>1. PICK n \in 0 .. MaxEvents :
               \E s \in SUBSET Sources, c \in [1 .. n -> SUBSET Sources], v \in Coverage :
                  result' = [sources |-> s, cites |-> c, coverage |-> v]
        BY <1>3, <3>2, Zenon DEF AskAgent
      <4>2. PICK s \in SUBSET Sources, c \in [1 .. n -> SUBSET Sources], v \in Coverage :
               result' = [sources |-> s, cites |-> c, coverage |-> v]
        BY <4>1, Zenon
      <4>3. c \in UNION {[1 .. m -> SUBSET Sources] : m \in 0 .. MaxEvents}
        OBVIOUS
      <4> QED BY <4>2, <4>3 DEF Answer
    <3> QED BY <3>1, <3>2
  <2> QED BY <1>0, <1>3, <2>1, <2>2, ControlStep DEF AskAgent, Types
<1>4. CASE Judge
  <2>1. Control' /\ Verdict'
    BY <1>0, <1>4 DEF Judge, CheckThen, Strike, dbVars, Control, Verdict, Unfiled, Under, Count, Terminal, Types,
       Answer, Coverage
  <2> QED BY <1>0, <1>4, <2>1, ControlStep DEF Judge, CheckThen, Strike, Types
<1>5. CASE NextEvent
  <2>1. /\ pc = "event" /\ UNCHANGED <<dbVars, at, result, recorded, errors>>
        /\ \/ at > Count /\ pc' = "persist" /\ verdict' = verdict /\ struck' = struck
           \/ at <= Count /\ pc' = "record" /\ verdict' = verdict /\ struck' = struck
           \/ pc' = "finish" /\ verdict' = [status |-> "cancelled", coverage |-> ""] /\ struck' = struck
           \/ pc' = "finish" /\ verdict' = [status |-> "failed", coverage |-> "failed"] /\ struck' = TRUE
    <3>2. ~(at > Count) => at <= Count
      BY <1>0, Places
    <3>3. CASE Strike("db") /\ at <= Count /\ Fail
      BY <1>5, <3>3 DEF NextEvent, Strike
    <3>4. CASE (IF at > Count THEN Goto("persist") /\ UNCHANGED verdict ELSE CheckThen("record"))
               /\ UNCHANGED struck
      BY <1>5, <3>2, <3>4, Zenon DEF NextEvent, CheckThen
    <3> QED BY <1>5, <3>3, <3>4, Zenon DEF NextEvent
  <2>2. Count' = Count
    BY <2>1 DEF Count
  <2>3. Control' /\ Verdict'
    BY <1>0, <2>1, <2>2 DEF dbVars, Control, Verdict, Unfiled, Under, Terminal
  <2>4. verdict' \in VerdictType /\ struck' \in {struck, TRUE}
    <3>1. verdict \in VerdictType
      BY <1>0 DEF Types
    <3> HIDE DEF VerdictType
    <3> QED BY <2>1, <3>1, VerdictTypes
  <2> QED BY <1>0, <2>1, <2>3, <2>4, ControlStep DEF Types
<1>6. CASE SkipEvent
  <2>1. Control' /\ Verdict'
    BY <1>0, <1>6 DEF SkipEvent, Advance, dbVars, Control, Verdict, Unfiled, Under, Count, Terminal
  <2>2. at <= MaxEvents
    BY <1>0, <1>6, Places DEF SkipEvent, Control
  <2> QED BY <1>0, <1>6, <2>1, <2>2, ControlStep DEF SkipEvent, Advance, Types
<1>7. CASE ExportReport
  <2>1. Control' /\ Verdict'
    BY <1>0, <1>7 DEF ExportReport, Strike, dbVars, Control, Verdict, Unfiled, Under, Count, Terminal
  <2> QED BY <1>0, <1>7, <2>1, ControlStep DEF ExportReport, Strike, Types
<1>8. CASE MarkTopic
  <2> DEFINE ok == IF errors \/ result.coverage = "partial"
                   THEN "completed_with_errors" ELSE "completed"
  <2>1. /\ pc = "mark" /\ pc' = "finish" /\ UNCHANGED <<dbVars, at, result, recorded, errors>>
        /\ \/ verdict' = [status |-> ok, coverage |-> result.coverage] /\ struck' = struck
           \/ verdict' = [status |-> "failed", coverage |-> "failed"] /\ struck' = TRUE
    BY <1>8 DEF MarkTopic, Strike
  <2>2. ok \in {"completed", "completed_with_errors"}
        /\ (ok = "completed_with_errors" <=> result.coverage = "partial" \/ errors)
    OBVIOUS
  <2>3. result.coverage \in {"complete", "partial"}
    BY <1>0, <2>1 DEF Verdict
  <2> HIDE DEF ok
  <2>4. verdict' \in VerdictType /\ struck' \in {struck, TRUE}
    <3>1. ok \in Terminal \cup {""} /\ result.coverage \in Coverage \cup {""}
      BY <2>2, <2>3 DEF Terminal, Coverage
    <3> QED BY <2>1, <3>1
  <2>5. Control'
    BY <1>0, <2>1 DEF dbVars, Control, Unfiled, Under
  <2>6. Verdict'
    <3>1. CASE verdict' = [status |-> ok, coverage |-> result.coverage]
      BY <1>0, <2>1, <2>2, <2>3, <3>1 DEF dbVars, Verdict, Terminal
    <3>2. CASE verdict' = [status |-> "failed", coverage |-> "failed"] /\ struck' = TRUE
      BY <1>0, <2>1, <3>2 DEF dbVars, Verdict, Terminal
    <3> QED BY <2>1, <3>1, <3>2
  <2> QED BY <1>0, <2>1, <2>4, <2>5, <2>6, ControlStep DEF Types
<1>9. CASE FinishRaises
  <2>1. Control' /\ Verdict'
    BY <1>0, <1>9 DEF FinishRaises, Strike, dbVars, Control, Verdict, Unfiled, Under, Count, Terminal
  <2> QED BY <1>0, <1>9, <2>1, ControlStep DEF FinishRaises, Strike, Types
<1> QED BY <1>1, <1>2, <1>3, <1>4, <1>5, <1>6, <1>7, <1>8, <1>9

-----------------------------------------------------------------------------
(* Steps that write.                                                        *)

LEMMA BeginKeeps == ASSUME Inv, Begin PROVE Inv'
<1>0. Types /\ Control /\ Verdict /\ OnlyFinishedRunsReport
  BY DEF Inv
<1>1. /\ pc = "queued" /\ run' = [run EXCEPT !.status = "running"]
      /\ topicAlive' = topicAlive /\ articles' = articles /\ count' = count
      /\ inTopic' = inTopic /\ obs' = obs /\ report' = report /\ at' = at
      /\ result' = result /\ recorded' = recorded /\ errors' = errors /\ struck' = struck
      /\ \/ pc' = "load" /\ verdict' = verdict
         \/ pc' = "finish" /\ verdict' = [status |-> "failed", coverage |-> "failed"]
  BY DEF Begin, Goto, Fail, EndWith
<1>2. run' \in [status : Active \cup Terminal, coverage : Coverage \cup {""},
                cancel : BOOLEAN, topic : BOOLEAN,
                totals : [events : Nat, new : Nat, items : Nat]] /\ run'.status = "running"
  BY <1>0, <1>1 DEF Types, TypeOK, Active
<1>3. verdict' \in VerdictType
  BY <1>0, <1>1, VerdictTypes DEF Types, VerdictType
<1>4. Types'
  BY <1>0, <1>1, <1>2, <1>3 DEF Types, TypeOK, VerdictType
<1>8. pc' \in {"load", "finish"} /\ ~report'.filed /\ verdict'.status = (IF pc' = "finish" THEN "failed" ELSE verdict.status)
  BY <1>0, <1>1 DEF Control, Unfiled
<1>5. Control' /\ Verdict'
  <2>1. Control'
    BY <1>2, <1>8 DEF Control, Unfiled, Under
  <2>2. Verdict'
    BY <1>8 DEF Verdict, Terminal
  <2> QED BY <2>1, <2>2
<1>6. Stored' /\ Remembered' /\ NoGap'
  BY <1>1, QuietStored, QuietRemembers
<1>7. OnlyFinishedRunsReport' /\ NewIsFirstSeen' /\ CoverageAgrees'
  BY <1>0, <1>1 DEF Control, Unfiled, OnlyFinishedRunsReport, NewIsFirstSeen, CoverageAgrees
<1> QED BY <1>4, <1>5, <1>6, <1>7 DEF Inv

LEMMA StoreSourcesKeeps == ASSUME Inv, StoreSources PROVE Inv'
<1>0. Types /\ Control /\ Verdict /\ Stored /\ OnlyFinishedRunsReport
  BY DEF Inv
<1>1. /\ pc = "sources" /\ run' = run
      /\ topicAlive' = topicAlive /\ count' = count
      /\ inTopic' = inTopic /\ obs' = obs /\ report' = report /\ at' = at
      /\ result' = result /\ recorded' = recorded /\ errors' = errors
      /\ \/ /\ articles' = articles \cup {UrlOf[s] : s \in result.sources}
            /\ pc' = "event" /\ verdict' = verdict /\ struck' = struck
         \/ /\ articles' = articles /\ pc' = "finish" /\ struck' = TRUE
            /\ verdict' = [status |-> "failed", coverage |-> "failed"]
  BY DEF StoreSources, Goto, Fail, EndWith, Strike
<1>2. articles' \subseteq Urls /\ articles \subseteq articles'
  <2>1. result.sources \subseteq Sources /\ articles \subseteq Urls
    BY <1>0 DEF Types, TypeOK, Answer
  <2> QED BY <1>1, <2>1, ResearchAssumption
<1>3. verdict' \in VerdictType /\ struck' \in BOOLEAN /\ (~struck' => ~struck)
  <2>1. verdict \in VerdictType /\ struck \in BOOLEAN
    BY <1>0 DEF Types, TypeOK, VerdictType
  <2> QED BY <1>1, <2>1, VerdictTypes
<1>4. Types'
  BY <1>0, <1>1, <1>2, <1>3 DEF Types, TypeOK, VerdictType
<1>5. Control' /\ Verdict'
  BY <1>0, <1>1 DEF Control, Verdict, Unfiled, Under, Terminal
<1>6. Stored'
  BY <1>0, <1>1 DEF Stored
<1>7. Remembered' /\ NoGap'
  BY <1>1, QuietRemembers
<1>8. OnlyFinishedRunsReport' /\ NewIsFirstSeen' /\ CoverageAgrees'
  BY <1>0, <1>1 DEF Control, Unfiled, Under, OnlyFinishedRunsReport, NewIsFirstSeen, CoverageAgrees
<1> QED BY <1>4, <1>5, <1>6, <1>7, <1>8 DEF Inv

LEMMA RecordingKeeps == ASSUME Inv, UpdateEvent \/ NewEvent PROVE Inv'
<1>1. PICK e \in EventIds, state \in {"new", "updated"} :
         Observes(e, state) /\ inTopic' \subseteq EventIds
  BY RecordingObserves
<1>2. Types' /\ Stored' /\ Remembered' /\ NoGap'
  BY <1>1, ObserveKeeps
<1>3. /\ pc = "record" /\ pc' = "event" /\ run' = run /\ report' = report /\ result' = result
      /\ errors' = errors /\ verdict' = verdict /\ struck' = struck
  BY <1>1 DEF Observes
<1>4. Control' /\ Verdict'
  BY <1>3 DEF Inv, Control, Verdict, Unfiled, Under
<1>5. OnlyFinishedRunsReport' /\ NewIsFirstSeen' /\ CoverageAgrees'
  BY <1>3 DEF Inv, Control, Unfiled, OnlyFinishedRunsReport, NewIsFirstSeen, CoverageAgrees
<1> QED BY <1>2, <1>4, <1>5 DEF Inv

LEMMA RecordFailsKeeps == ASSUME Inv, RecordFails PROVE Inv'
<1>0. Types /\ Control /\ Verdict /\ OnlyFinishedRunsReport
  BY DEF Inv
<1>1. /\ pc = "record" /\ pc' = "event" /\ at' = at + 1 /\ errors' = TRUE
      /\ run' = run /\ topicAlive' = topicAlive /\ articles' = articles /\ count' = count
      /\ inTopic' = inTopic /\ obs' = obs /\ report' = report
      /\ result' = result /\ recorded' = recorded /\ verdict' = verdict
      /\ struck' = struck \/ struck' = TRUE
  BY DEF RecordFails, Advance, Goto, Strike, dbVars
<1>2. at' \in 1 .. MaxEvents + 1
  BY <1>0, <1>1, Places, NextPlace DEF Control
<1>3. struck' \in BOOLEAN
  BY <1>0, <1>1 DEF Types, TypeOK
<1>4. Types'
  BY <1>0, <1>1, <1>2, <1>3 DEF Types, TypeOK
<1>5. Control' /\ Verdict'
  BY <1>0, <1>1 DEF Control, Verdict, Unfiled, Under
<1>6. Stored' /\ Remembered' /\ NoGap'
  BY <1>1, QuietStored, QuietRemembers
<1>7. OnlyFinishedRunsReport' /\ NewIsFirstSeen' /\ CoverageAgrees'
  BY <1>0, <1>1 DEF Control, Unfiled, OnlyFinishedRunsReport, NewIsFirstSeen, CoverageAgrees
<1> QED BY <1>4, <1>5, <1>6, <1>7 DEF Inv

\* The report is made of what the pipeline remembers.
LEMMA PersistKeeps == ASSUME Inv, PersistReport PROVE Inv'
<1>0. Types /\ Control /\ Verdict /\ Stored /\ Remembered /\ OnlyFinishedRunsReport
  BY DEF Inv, PersistReport
<1>1. /\ pc = "persist"
      /\ run' = run /\ topicAlive' = topicAlive /\ articles' = articles /\ count' = count
      /\ inTopic' = inTopic /\ obs' = obs /\ at' = at
      /\ result' = result /\ recorded' = recorded /\ errors' = errors
      /\ struck' = struck \/ struck' = TRUE
  BY DEF PersistReport, Strike
<1>2. CASE /\ report' = [filed |-> TRUE, items |-> recorded, coverage |-> result.coverage,
                         degraded |-> result.coverage = "partial" \/ errors]
           /\ pc' = "export" /\ verdict' = verdict /\ struck' = struck
  <2>1. /\ report'.filed /\ report'.items = recorded /\ report'.coverage = result.coverage
        /\ report'.degraded <=> result.coverage = "partial" \/ errors
    BY <1>2
  <2>2. Types'
    BY <1>0, <1>1, <1>2, <2>1 DEF Types, TypeOK
  <2>3. Control' /\ Verdict'
    BY <1>0, <1>1, <1>2, <2>1 DEF Control, Verdict, Unfiled, Under
  <2>4. Stored'
    BY <1>0, <1>1, <1>2, <2>1 DEF Stored, Remembered
  <2>5. Remembered' /\ NoGap'
    BY <1>1, <1>2, QuietRemembers
  <2>6. OnlyFinishedRunsReport' /\ NewIsFirstSeen' /\ CoverageAgrees'
    BY <1>0, <1>1, <1>2 DEF Control, Under, Unfiled, OnlyFinishedRunsReport, NewIsFirstSeen, CoverageAgrees
  <2> QED BY <2>2, <2>3, <2>4, <2>5, <2>6 DEF Inv
<1>3. CASE /\ report' = report /\ pc' = "finish"
           /\ verdict' = [status |-> "failed", coverage |-> "failed"]
  <2>1. verdict' \in VerdictType /\ struck' \in BOOLEAN
    BY <1>0, <1>1, <1>3, VerdictTypes DEF Types, TypeOK
  <2>2. Types'
    BY <1>0, <1>1, <1>3, <2>1 DEF Types, TypeOK, VerdictType
  <2>3. Control' /\ Verdict'
    BY <1>0, <1>1, <1>3 DEF Control, Verdict, Unfiled, Under, Terminal
  <2>4. Stored' /\ Remembered' /\ NoGap'
    BY <1>1, <1>3, QuietStored, QuietRemembers
  <2>5. OnlyFinishedRunsReport' /\ NewIsFirstSeen' /\ CoverageAgrees'
    BY <1>0, <1>1, <1>3 DEF Control, Under, Unfiled, OnlyFinishedRunsReport, NewIsFirstSeen, CoverageAgrees
  <2> QED BY <2>2, <2>3, <2>4, <2>5 DEF Inv
<1> QED BY <1>2, <1>3 DEF PersistReport, Goto, Fail, EndWith, Strike

\* An event of this run has been observed once when the pipeline remembers it as new
\* and remembers nothing else about it.
LEMMA OnceIsNew ==
    ASSUME Types, Stored, Remembered
    PROVE  {e \in Touched : count[e] = 1}
           = {i.event : i \in {x \in recorded :
                 x.state = "new" /\ \A y \in recorded : y.event = x.event => y = x}}
<1> DEFINE Fresh == {x \in recorded :
                       x.state = "new" /\ \A y \in recorded : y.event = x.event => y = x}
<1>0. /\ \A o \in obs : o.event \in EventIds /\ o.by \in {"past", "run"}
      /\ \A i \in recorded : i.event \in EventIds /\ i.state \in {"new", "updated"}
  BY DEF Types, TypeOK, Observations, Items
<1>1. ASSUME NEW e \in Touched, count[e] = 1 PROVE \E i \in Fresh : i.event = e
  <2>1. PICK o \in obs : o.by = "run" /\ o.event = e
    BY DEF Touched
  <2>0. e \in EventIds
    BY <1>0, <2>1
  <2>2. PICK p \in obs : \A q \in obs : q.event = e <=> q = p
    BY <1>1, <2>0, CountedOnce
  <2>3. \A q \in obs : q.event = e => q = o
    BY <2>1, <2>2
  <2>4. PICK i \in recorded : i.obs = o.id /\ i.event = e
    BY <2>1 DEF Remembered
  <2>5. i.state = "new"
    BY <1>0, <2>3, <2>4 DEF Remembered
  <2>6. ASSUME NEW y \in recorded, y.event = e PROVE y = i
    <3>1. PICK q \in obs : q.id = y.obs /\ q.event = e
      BY <2>6 DEF Remembered
    <3> QED BY <2>3, <2>4, <3>1 DEF Remembered
  <2> QED BY <2>4, <2>5, <2>6
<1>2. ASSUME NEW i \in Fresh PROVE i.event \in Touched /\ count[i.event] = 1
  <2>1. PICK o \in obs : o.by = "run" /\ o.id = i.obs /\ o.event = i.event
    BY DEF Remembered
  <2>2. ASSUME NEW p \in obs, p.event = i.event PROVE p = o
    <3>1. p.by = "run"
      BY <1>0, <2>2 DEF Remembered
    <3>2. PICK y \in recorded : y.obs = p.id /\ y.event = i.event
      BY <2>2, <3>1 DEF Remembered
    <3>3. y = i
      BY <3>2
    <3> QED BY <2>1, <3>2, <3>3 DEF Remembered
  <2>3. count[i.event] = 1
    BY <1>0, <2>1, <2>2, CountedOnce
  <2> QED BY <2>1, <2>3 DEF Touched
<1> QED BY <1>1, <1>2

LEMMA TotalsAreNumbers == ASSUME Types PROVE Totals \in [events : Nat, new : Nat, items : Nat]
<1>1. Touched \subseteq EventIds
  <2>1. \A o \in obs : o.event \in EventIds
    BY DEF Types, TypeOK, Observations
  <2> QED BY <2>1 DEF Touched
<1>2. Cardinality(Touched) \in Nat /\ Cardinality({e \in Touched : count[e] = 1}) \in Nat
  BY <1>1, SomeFinite
<1>3. report.filed => Cardinality(report.items) \in Nat
  BY FS_CardinalityType DEF Types
<1> QED BY <1>2, <1>3 DEF Totals

LEMMA FinishKeeps == ASSUME Inv, Finish PROVE Inv'
<1>0. Types /\ Control /\ Verdict /\ Stored /\ Remembered /\ OnlyFinishedRunsReport
  BY DEF Inv, Finish
<1>1. /\ pc = "finish" /\ pc' = "done"
      /\ topicAlive' = topicAlive /\ articles' = articles /\ count' = count
      /\ inTopic' = inTopic /\ obs' = obs /\ report' = report /\ at' = at
      /\ result' = result /\ recorded' = recorded /\ errors' = errors
      /\ verdict' = verdict /\ struck' = struck
  BY DEF Finish, Goto
<1>2. /\ run.cancel \in BOOLEAN /\ run.topic \in BOOLEAN
      /\ verdict.status \in Terminal /\ verdict.coverage \in Coverage \cup {""}
      /\ run.coverage \in Coverage \cup {""}
      /\ Totals \in [events : Nat, new : Nat, items : Nat]
  BY <1>0, <1>1, TotalsAreNumbers DEF Types, TypeOK, Verdict
<1>3. /\ run' = [run EXCEPT !.status = verdict.status,
                            !.coverage = IF verdict.coverage = "" THEN @ ELSE verdict.coverage,
                            !.totals = Totals]
      /\ DOMAIN run = {"status", "coverage", "cancel", "topic", "totals"}
      /\ run = [status |-> run.status, coverage |-> run.coverage, cancel |-> run.cancel,
                topic |-> run.topic, totals |-> run.totals]
  BY <1>0 DEF Finish, Types, TypeOK
<1>4. /\ run'.status = verdict.status /\ run'.totals = Totals
      /\ verdict.coverage # "" => run'.coverage = verdict.coverage
      /\ run' \in [status : Active \cup Terminal, coverage : Coverage \cup {""},
                   cancel : BOOLEAN, topic : BOOLEAN,
                   totals : [events : Nat, new : Nat, items : Nat]]
  <2>1. run \in [status : Active \cup Terminal, coverage : Coverage \cup {""},
                 cancel : BOOLEAN, topic : BOOLEAN,
                 totals : [events : Nat, new : Nat, items : Nat]]
    BY <1>0 DEF Types, TypeOK
  <2> HIDE DEF Totals
  <2> QED BY <1>2, <1>3, <2>1
<1>5. Types'
  BY <1>0, <1>1, <1>4 DEF Types, TypeOK
<1>6. Control' /\ Verdict'
  BY <1>1, <1>2, <1>4 DEF Control, Verdict, Unfiled, Under
<1>7. Stored' /\ Remembered' /\ NoGap'
  BY <1>1, QuietStored, QuietRemembers
<1>8. NewIsFirstSeen'
  <2>1. Totals.new = Cardinality({e \in Touched : count[e] = 1})
    BY DEF Totals
  <2>2. run'.totals.new = Cardinality({e \in Touched : count[e] = 1})
    BY <1>4, <2>1
  <2>3. {e \in Touched : count[e] = 1}
        = {i.event : i \in {x \in recorded :
              x.state = "new" /\ \A y \in recorded : y.event = x.event => y = x}}
    BY <1>0, OnceIsNew
  <2>4. recorded' = recorded
    BY <1>1
  <2> QED BY <2>2, <2>3, <2>4 DEF NewIsFirstSeen
<1>9. OnlyFinishedRunsReport'
  BY <1>0, <1>1, <1>4 DEF OnlyFinishedRunsReport, Verdict
<1>10. CoverageAgrees'
  BY <1>0, <1>1, <1>4 DEF CoverageAgrees, Verdict
<1> QED BY <1>5, <1>6, <1>7, <1>8, <1>9, <1>10 DEF Inv

\* What is left when the pipeline is lost is what was committed.
LEMMA AbandonKeeps == ASSUME Inv, Kill \/ Escape PROVE Inv'
<1>0. Types /\ Control /\ OnlyFinishedRunsReport
  BY DEF Inv
<1>1. /\ pc \notin {"done", "dead"} /\ pc' = "dead" /\ struck' = TRUE
      /\ at' = 1 /\ result' = NoResult /\ recorded' = {} /\ errors' = FALSE
      /\ verdict' = [status |-> "", coverage |-> ""]
      /\ run' = run /\ topicAlive' = topicAlive /\ articles' = articles /\ count' = count
      /\ inTopic' = inTopic /\ obs' = obs /\ report' = report
  BY DEF Kill, Escape, Abandon, Goto, dbVars
<1>2. result' \in Answer
  <2>1. <<>> \in [1 .. 0 -> SUBSET Sources]
    OBVIOUS
  <2>2. 0 \in 0 .. MaxEvents
    BY ResearchAssumption
  <2> QED BY <1>1, <2>1, <2>2 DEF NoResult, Answer, Coverage
<1>3. at' \in 1 .. MaxEvents + 1 /\ verdict' \in VerdictType
  <2>1. 1 \in 1 .. MaxEvents + 1
    BY ResearchAssumption
  <2>2. [status |-> "", coverage |-> ""] \in VerdictType
    BY DEF VerdictType
  <2> QED BY <1>1, <2>1, <2>2
<1>4. IsFiniteSet(recorded')
  BY <1>1, FS_EmptySet
<1>5. Types'
  BY <1>0, <1>1, <1>2, <1>3, <1>4 DEF Types, TypeOK, VerdictType
<1>6. Control' /\ Verdict'
  BY <1>0, <1>1 DEF Control, Verdict, Unfiled, Under, Active
<1>7. Stored'
  BY <1>1, QuietStored
<1>8. OnlyFinishedRunsReport' /\ NewIsFirstSeen' /\ CoverageAgrees'
  BY <1>0, <1>1 DEF OnlyFinishedRunsReport, NewIsFirstSeen, CoverageAgrees, Control, Unfiled, Under
<1> QED BY <1>1, <1>5, <1>6, <1>7, <1>8 DEF Inv

-----------------------------------------------------------------------------
(* Steps of the user and of the recovery.                                   *)

RunType == [status : Active \cup Terminal, coverage : Coverage \cup {""},
            cancel : BOOLEAN, topic : BOOLEAN,
            totals : [events : Nat, new : Nat, items : Nat]]

LEMMA UserKeeps == ASSUME Inv, User \/ Recover PROVE Inv'
<1>0. Types /\ Control /\ Verdict /\ Stored /\ (pc # "dead" => Remembered /\ NoGap)
      /\ OnlyFinishedRunsReport /\ NewIsFirstSeen /\ CoverageAgrees /\ run \in RunType
  BY DEF Inv, Types, TypeOK, RunType
<1>1. /\ articles' = articles /\ count' = count /\ obs' = obs
      /\ pc' = pc /\ at' = at /\ result' = result /\ recorded' = recorded /\ errors' = errors
      /\ verdict' = verdict /\ struck' = struck
      /\ report' = report \/ report' = NoReport
  BY DEF User, Cancel, DeleteTopic, DeleteReport, Recover, memVars
<1>2. /\ topicAlive' \in BOOLEAN /\ inTopic' \subseteq EventIds /\ run' \in RunType
      /\ run'.totals = run.totals /\ run'.coverage = run.coverage
      /\ run'.status = run.status \/ (run'.status = "failed" /\ pc = "dead")
  <2>1. CASE Cancel
    BY <1>0, <2>1 DEF Cancel, Types, TypeOK, RunType
  <2>2. CASE DeleteTopic
    BY <1>0, <2>2 DEF DeleteTopic, Types, TypeOK, RunType
  <2>3. CASE DeleteReport
    BY <1>0, <2>3 DEF DeleteReport, Types, TypeOK
  <2>4. CASE Recover
    BY <1>0, <2>4 DEF Recover, Types, TypeOK, RunType, Terminal
  <2> QED BY <2>1, <2>2, <2>3, <2>4 DEF User
<1>3. ~NoReport.filed
  BY DEF NoReport
<1>4. Types'
  BY <1>0, <1>1, <1>2, <1>3 DEF Types, TypeOK, RunType
<1>5. Control' /\ Verdict'
  <2>1. Count' = Count
    BY <1>1 DEF Count
  <2>2. Control'
    BY <1>0, <1>1, <1>2, <1>3, <2>1 DEF Control, Unfiled, Under
  <2>3. Verdict'
    BY <1>0, <1>1, <1>3 DEF Verdict
  <2> QED BY <2>2, <2>3
<1>6. Stored'
  BY <1>1, <1>3, QuietStored
<1>7. pc' # "dead" => Remembered' /\ NoGap'
  BY <1>1, QuietRemembers
<1>8. OnlyFinishedRunsReport'
  BY <1>0, <1>1, <1>2, <1>3 DEF OnlyFinishedRunsReport, Control
<1>9. NewIsFirstSeen'
  BY <1>0, <1>1, <1>2 DEF NewIsFirstSeen
<1>10. CoverageAgrees'
  BY <1>0, <1>1, <1>2, <1>3 DEF CoverageAgrees
<1> QED BY <1>4, <1>5, <1>6, <1>7, <1>8, <1>9, <1>10 DEF Inv

LEMMA NextInv == Inv /\ [Next]_vars => Inv'
<1> SUFFICES ASSUME Inv, [Next]_vars PROVE Inv'
  OBVIOUS
<1>1. CASE Step
  BY <1>1, BeginKeeps, PlainSteps, StoreSourcesKeeps, RecordingKeeps, RecordFailsKeeps,
     PersistKeeps, FinishKeeps DEF Step
<1>2. CASE User \/ Kill \/ Escape \/ Recover
  BY <1>2, UserKeeps, AbandonKeeps
<1>3. CASE UNCHANGED vars
  <2>0. /\ run' = run /\ topicAlive' = topicAlive /\ articles' = articles /\ count' = count
        /\ inTopic' = inTopic /\ obs' = obs /\ report' = report /\ pc' = pc /\ at' = at
        /\ result' = result /\ recorded' = recorded /\ errors' = errors
        /\ verdict' = verdict /\ struck' = struck
    BY <1>3 DEF vars
  <2>1. Types' /\ Verdict'
    <3>1. Types /\ Verdict
      BY DEF Inv
    <3>2. TypeOK'
      BY <2>0, <3>1 DEF Types, TypeOK
    <3>3. Types'
      BY <2>0, <3>1, <3>2 DEF Types
    <3>4. Verdict'
      BY <2>0, <3>1 DEF Verdict
    <3> QED BY <3>3, <3>4
  <2>3. Stored' /\ (pc' # "dead" => Remembered' /\ NoGap')
    BY <2>0, QuietStored, QuietRemembers
  <2>2. Control' /\ OnlyFinishedRunsReport' /\ NewIsFirstSeen' /\ CoverageAgrees'
    BY <2>0 DEF Inv, Control, Count, OnlyFinishedRunsReport, NewIsFirstSeen, CoverageAgrees
  <2> QED BY <2>1, <2>2, <2>3 DEF Inv
<1> QED BY <1>1, <1>2, <1>3 DEF Next

-----------------------------------------------------------------------------
(* What follows from it.                                                    *)

\* What the other theorems follow from: where the pipeline is decides what its rows
\* say, and what it remembers of its observations is what it stored.
THEOREM ResearchInvariant == Spec => []Inv
<1> QED BY InitInv, NextInv, PTL DEF Spec

\* The rows and the pipeline's memory keep their types.
THEOREM ResearchTypes == Spec => []TypeOK
<1>1. Inv => TypeOK
  BY DEF Inv, Types
<1> QED BY <1>1, ResearchInvariant, PTL

\* research_pipeline.py, _record_event and _publish: every observation rests on a
\* stored article, every item on an observation, every event counts its own.
THEOREM EvidenceIsChained == Spec => []EvidenceChain
<1>1. Inv => EvidenceChain
  BY DEF Inv, Stored, EvidenceChain
<1> QED BY <1>1, ResearchInvariant, PTL

\* research_pipeline.py, execute: a run that was cancelled, or failed without storage
\* failing, leaves no report, wherever it was stopped.
THEOREM OnlyFinishedRunsHaveReports == Spec => []OnlyFinishedRunsReport
<1>1. Inv => OnlyFinishedRunsReport
  BY DEF Inv
<1> QED BY <1>1, ResearchInvariant, PTL

\* research_pipeline.py, _finish: the run counts as new exactly the events it created
\* and observed once, however many items of its answer were the same event.
THEOREM NewAreFirstSeen == Spec => []NewIsFirstSeen
<1>1. Inv => NewIsFirstSeen
  BY DEF Inv
<1> QED BY <1>1, ResearchInvariant, PTL

\* research_pipeline.py, _publish and _persist: the run row and the report row give one
\* coverage, and a degraded report is never that of a plainly completed run.
THEOREM CoverageAlwaysAgrees == Spec => []CoverageAgrees
<1>1. Inv => CoverageAgrees
  BY DEF Inv
<1> QED BY <1>1, ResearchInvariant, PTL
=============================================================================
