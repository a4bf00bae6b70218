------------------------ MODULE ClassicPipelineProofs ------------------------
(***************************************************************************)
(* Proofs about ClassicPipeline, for any plans and topics, any sources,    *)
(* any size of a section and whichever faults may strike.                  *)
(***************************************************************************)
EXTENDS ClassicPipeline, FiniteSetTheorems, TLAPS

-----------------------------------------------------------------------------
(* The inductive invariant.                                                 *)

Inside  == {"collect", "analyse", "match", "summarise"}
Closing == {"synthesize", "publish", "export", "finish"}

Types ==
    /\ TypeOK
    /\ pc \in {"begin", "plan", "next", "done"} \cup Inside \cup Closing
    /\ next \in Nat \ {0} /\ errors \in BOOLEAN

\* Where the run is in its plan, and when its row is closed.
Place ==
    /\ pc \in Inside => at <= Len(plan)
    /\ pc \in Closing => at > Len(plan)
    /\ pc \in {"begin", "plan"} => plan = <<>> /\ at = 1
    /\ pc = "done" <=> run.status \notin {"pending", "running"}

\* What went wrong was noted.
Noted ==
    /\ \A t \in Topics : /\ status[t] = "failed" => t \in failures
                         /\ status[t] \in {"failed", "partial"} => failed # {}
                         /\ stage[t] \in {"mute", "lost"} => errors
    /\ \A m \in Modules : sections[m].coverage \in {"failed", "partial"} => Degraded

Index(m) == 1 .. Len(TopicsOf[m])
StageOf(m, i)  == stage[TopicsOf[m][i]]
StatusOf(m, i) == status[TopicsOf[m][i]]

\* A section that admits nothing had an answer for each topic of its module.
Honest(m) ==
    Asked # {} /\ sections[m].coverage \notin {"failed", "partial"} =>
       \A i \in Index(m) : StatusOf(m, i) \in {"ok", "no_candidates"}

ItemsAreRecorded(m) ==
    sections[m].items \in Best({t \in Set(TopicsOf[m]) : stage[t] = "recorded"}, MaxReportItems)

\* A module the run has not reached,
Fresh(m) ==
    /\ sections[m] = NewSection
    /\ \A i \in Index(m) : StageOf(m, i) = "none" /\ StatusOf(m, i) = "not_attempted"

\* the module it is at,
AtWork(m) ==
    \/ /\ pc = "collect" /\ sections[m] = NewSection
       /\ \A i \in Index(m) :
             IF i < next THEN /\ StageOf(m, i) \in {"empty", "articles"}
                              /\ Asked # {} => StatusOf(m, i) # "not_attempted"
             ELSE StageOf(m, i) = "none"
    \/ /\ pc = "analyse" /\ Honest(m) /\ sections[m].items = {}
       /\ \A i \in Index(m) :
             StageOf(m, i) \in IF i < next THEN {"empty", "mute", "quiet", "found"}
                               ELSE {"empty", "articles"}
    \/ /\ pc = "match" /\ Honest(m) /\ sections[m].items = {}
       /\ \A i \in Index(m) :
             /\ StageOf(m, i) # "articles"
             /\ i < next => StageOf(m, i) # "found"
    \/ /\ pc = "summarise" /\ Honest(m) /\ ItemsAreRecorded(m)
       /\ \A i \in Index(m) : StageOf(m, i) \notin {"articles", "found"}

\* and a module it has left behind.
Closed(m) ==
    /\ moduleRun[m] \in {"completed", "completed_with_warnings", "failed"}
    /\ moduleRun[m] = "completed" => Honest(m)
    /\ \A i \in Index(m) : StageOf(m, i) \in {"articles", "found"} => errors
    /\ ItemsAreRecorded(m) \/ (moduleRun[m] = "failed" /\ sections[m].items = {})

Behind(m)  == \E i \in 1 .. Len(plan) : i < at /\ plan[i] = m
Working(m) == pc \in Inside /\ m = plan[at]

Progress(m) ==
    /\ Behind(m) => Closed(m)
    /\ Working(m) => AtWork(m)
    /\ pc # "done" /\ ~Behind(m) /\ ~Working(m) => Fresh(m)

\* The report is filed behind the last module and says what the sections say.
Filed ==
    report.filed =>
       /\ pc \in {"export", "finish", "done"} /\ at > Len(plan)
       /\ report.sections = sections /\ report.degraded = Degraded

Inv ==
    /\ Types /\ Place /\ Noted /\ Filed /\ CompletedIsComplete
    /\ \A m \in Modules : Progress(m)

-----------------------------------------------------------------------------
(* Facts about plans, topics and coverage.                                  *)

\* A topic of a module is a topic, and every topic is one of a module.
LEMMA TopicsAreTyped ==
    /\ \A m \in Modules : /\ Len(TopicsOf[m]) \in Nat \ {0}
                          /\ \A i \in Index(m) : TopicsOf[m][i] \in Topics
                          /\ Set(TopicsOf[m]) \subseteq Topics
    /\ \A t \in Topics : \E m \in Modules : \E i \in Index(m) : t = TopicsOf[m][i]
<1>1. \A m \in Modules : TopicsOf[m] \in Seq(Topics) /\ Len(TopicsOf[m]) > 0
  BY ClassicAssumption
<1>2. \A m \in Modules : Len(TopicsOf[m]) \in Nat \ {0}
  BY <1>1
<1>3. \A m \in Modules : \A i \in Index(m) : TopicsOf[m][i] \in Topics
  BY <1>1 DEF Index
<1>4. \A m \in Modules : Set(TopicsOf[m]) \subseteq Topics
  BY <1>3 DEF Set, Index
<1>5. \A t \in Topics : \E m \in Modules : \E i \in Index(m) : t = TopicsOf[m][i]
  BY DEF Topics, Set, Index
<1> QED BY <1>2, <1>3, <1>4, <1>5

\* No two modules share a topic, and none lists one twice.
LEMMA TopicsAreApart ==
    ASSUME NEW m \in Modules, NEW n \in Modules, NEW i \in Index(m), NEW j \in Index(n),
           TopicsOf[m][i] = TopicsOf[n][j]
    PROVE  m = n /\ i = j
BY ClassicAssumption DEF Index

\* The plan in force is a sequence of modules, none of them twice.
LEMMA PlanIsTyped ==
    ASSUME Types
    PROVE  /\ plan \in Seq(Modules) /\ Len(plan) \in Nat /\ at \in Nat \ {0}
           /\ at <= Len(plan) => plan[at] \in Modules
           /\ \A i, j \in 1 .. Len(plan) : plan[i] = plan[j] => i = j
<1>1. plan \in Plans \cup {<<>>} /\ at \in 1 .. Len(plan) + 1
  BY DEF Types, TypeOK
<1>2. plan \in Seq(Modules)
  <2>1. Plans \subseteq Seq(Modules)
    BY ClassicAssumption
  <2>2. <<>> \in Seq(Modules)
    OBVIOUS
  <2> QED BY <1>1, <2>1, <2>2
<1>3. Len(plan) \in Nat /\ at \in Nat \ {0}
  BY <1>1, <1>2
<1>4. at <= Len(plan) => plan[at] \in Modules
  BY <1>2, <1>3
<1>5. \A i, j \in 1 .. Len(plan) : plan[i] = plan[j] => i = j
  BY <1>1, ClassicAssumption
<1> QED BY <1>2, <1>3, <1>4, <1>5

\* While it works on a module, the run has not left it behind.
LEMMA WorkIsNotBehind ==
    ASSUME Types, at <= Len(plan)
    PROVE  ~Behind(plan[at])
BY PlanIsTyped DEF Behind

\* Of nothing, the best is nothing.
LEMMA BestOfNothing ==
    ASSUME NEW n \in Nat PROVE {} \in Best({}, n)
<1>1. Cardinality({}) = 0
  BY FS_EmptySet
<1>2. (IF Cardinality({}) < n THEN Cardinality({}) ELSE n) = 0
  BY <1>1
<1> QED BY <1>1, <1>2 DEF Best, kSubset

LEMMA BestIsPart ==
    ASSUME NEW S, NEW n, NEW B \in Best(S, n) PROVE B \subseteq S
BY DEF Best, kSubset

\* collection_planner.py, aggregate_module_status: a module whose topics were all
\* asked is neither failed nor partial only when each of them had an answer.
LEMMA AggregateIsHonest ==
    ASSUME NEW ts \in SUBSET Topics, ts # {}, status \in [Topics -> CollectionStatus],
           \A t \in ts : status[t] # "not_attempted",
           Aggregate(ts) \notin {"failed", "partial"}
    PROVE  \A t \in ts : status[t] \in {"ok", "no_candidates"}
<1> DEFINE seen == {status[t] : t \in ts} \ {"not_attempted"}
<1>1. \A t \in ts : status[t] \in seen
  OBVIOUS
<1>2. seen # {}
  BY <1>1
<1>3. Aggregate(ts) = CASE seen = {}         -> "not_attempted"
                        [] seen = {"failed"} -> "failed"
                        [] seen # {"failed"} /\ seen \cap {"failed", "partial"} # {} -> "partial"
                        [] seen \cap {"failed", "partial"} = {} /\ "ok" \in seen     -> "ok"
                        [] OTHER             -> "no_candidates"
  BY DEF Aggregate
<1> HIDE DEF seen
<1>4. seen # {"failed"}
  BY <1>2, <1>3
<1>5. seen \cap {"failed", "partial"} = {}
  BY <1>2, <1>3, <1>4
<1>6. \A t \in ts : status[t] \in CollectionStatus
  OBVIOUS
<1> QED BY <1>1, <1>5, <1>6 DEF CollectionStatus

\* It is failed or partial only if some topic was.
LEMMA AggregateIsWarranted ==
    ASSUME NEW ts, Aggregate(ts) \in {"failed", "partial"}
    PROVE  \E t \in ts : status[t] \in {"failed", "partial"}
<1> DEFINE seen == {status[t] : t \in ts} \ {"not_attempted"}
<1>1. Aggregate(ts) = CASE seen = {}         -> "not_attempted"
                        [] seen = {"failed"} -> "failed"
                        [] seen # {"failed"} /\ seen \cap {"failed", "partial"} # {} -> "partial"
                        [] seen \cap {"failed", "partial"} = {} /\ "ok" \in seen     -> "ok"
                        [] OTHER             -> "no_candidates"
  BY DEF Aggregate
<1>2. seen \cap {"failed", "partial"} # {} => \E t \in ts : status[t] \in {"failed", "partial"}
  OBVIOUS
<1> HIDE DEF seen
<1>3. seen = {"failed"} \/ seen \cap {"failed", "partial"} # {}
  BY <1>1
<1> QED BY <1>2, <1>3

LEMMA AggregateIsTyped ==
    ASSUME NEW ts PROVE Aggregate(ts) \in CollectionStatus
BY DEF Aggregate, CollectionStatus

LEMMA ClassifyIsTyped ==
    ASSUME NEW ok, NEW bad, NEW found
    PROVE  /\ Classify(ok, bad, found) \in CollectionStatus
           /\ Classify(ok, bad, found) \in {"failed", "partial"} => bad # {}
           /\ ok \cup bad # {} => Classify(ok, bad, found) # "not_attempted"
BY DEF Classify, CollectionStatus

-----------------------------------------------------------------------------
(* What a step leaves alone.                                                *)

\* Nothing of the module changed.
Untouched(m) ==
    /\ moduleRun'[m] = moduleRun[m] /\ sections'[m] = sections[m]
    /\ \A i \in Index(m) : /\ stage'[TopicsOf[m][i]] = StageOf(m, i)
                           /\ status'[TopicsOf[m][i]] = StatusOf(m, i)

LEMMA UntouchedKeeps ==
    ASSUME NEW m \in Modules, Untouched(m), errors => errors'
    PROVE  /\ Closed(m) => Closed(m)'
           /\ Fresh(m) => Fresh(m)'
<1>1. /\ moduleRun'[m] = moduleRun[m] /\ sections'[m] = sections[m]
      /\ \A i \in Index(m) : /\ StageOf(m, i)' = StageOf(m, i)
                             /\ StatusOf(m, i)' = StatusOf(m, i)
  BY DEF Untouched, StageOf, StatusOf
<1>2. {t \in Set(TopicsOf[m]) : stage'[t] = "recorded"}
        = {t \in Set(TopicsOf[m]) : stage[t] = "recorded"}
  BY DEF Untouched, StageOf, Set, Index
<1>3. ItemsAreRecorded(m)' <=> ItemsAreRecorded(m)
  BY <1>1, <1>2 DEF ItemsAreRecorded
<1>4. Honest(m)' <=> Honest(m)
  BY <1>1 DEF Honest, Asked
<1>5. Closed(m) => Closed(m)'
  BY <1>1, <1>3, <1>4 DEF Closed
<1>6. Fresh(m) => Fresh(m)'
  BY <1>1 DEF Fresh
<1> QED BY <1>5, <1>6

\* Work on one module is nothing to another.
LEMMA OthersKeep ==
    ASSUME Types, pc \in Inside, at <= Len(plan), plan' = plan,
           at' = at \/ (at' = at + 1 /\ pc' \notin Inside), errors => errors',
           NEW m \in Modules, m # plan[at], Untouched(m), Progress(m)
    PROVE  Progress(m)'
<1>1. Behind(m)' <=> Behind(m)
  BY PlanIsTyped DEF Behind
<1>2. ~Working(m) /\ ~Working(m)' /\ pc # "done"
  BY DEF Working, Inside
<1>3. Closed(m) => Closed(m)'
  BY UntouchedKeeps
<1>4. Fresh(m) => Fresh(m)'
  BY UntouchedKeeps
<1> QED BY <1>1, <1>2, <1>3, <1>4 DEF Progress

\* Between the modules, and at the end, nothing is done to them.
LEMMA RestKeeps ==
    ASSUME Types, plan' = plan, at' = at, pc' \notin Inside, errors => errors',
           pc' # "done" => pc \notin Inside \cup {"done"},
           NEW m \in Modules, Behind(m) \/ pc' # "done" => Untouched(m), Progress(m)
    PROVE  Progress(m)'
<1>1. Behind(m)' <=> Behind(m)
  BY DEF Behind
<1>2. ~Working(m)' /\ (pc' # "done" => ~Working(m))
  BY DEF Working
<1>3. Untouched(m) => (Closed(m) => Closed(m)') /\ (Fresh(m) => Fresh(m)')
  BY UntouchedKeeps
<1> QED BY <1>1, <1>2, <1>3 DEF Progress

\* The run leaves the module it has closed.
LEMMA LeavesBehind ==
    ASSUME Types, at <= Len(plan), plan' = plan, at' = at + 1, pc' \notin Inside,
           NEW m, m = plan[at], Closed(m)'
    PROVE  Progress(m)'
<1>1. Behind(m)'
  BY PlanIsTyped DEF Behind
<1>2. ~Working(m)'
  BY DEF Working
<1> QED BY <1>1, <1>2 DEF Progress

\* The run goes on with its module.
LEMMA GoesOn ==
    ASSUME Types, at <= Len(plan), plan' = plan, at' = at, pc' \in Inside,
           NEW m, m = plan[at], AtWork(m)'
    PROVE  Progress(m)'
<1>1. ~Behind(m)'
  BY WorkIsNotBehind DEF Behind
<1>2. Working(m)'
  BY DEF Working
<1> QED BY <1>1, <1>2 DEF Progress

LEMMA NotedKeeps ==
    ASSUME Noted, UNCHANGED <<status, stage, failed, failures>>, errors => errors',
           \A m \in Modules : sections'[m].coverage = sections[m].coverage
    PROVE  Noted'
<1>1. Degraded' <=> Degraded
  BY DEF Degraded
<1> QED BY <1>1 DEF Noted

LEMMA UnfiledKeeps ==
    ASSUME Filed, pc \notin {"export", "finish", "done"}, report' = report
    PROVE  Filed'
BY DEF Filed

\* What a step on a module may change.
WorkTypes ==
    /\ moduleRun \in [Modules -> ModuleStatus \cup {"none"}]
    /\ status \in [Topics -> CollectionStatus] /\ stage \in [Topics -> TopicStage]
    /\ sections \in [Modules -> Section]
    /\ answered \subseteq Sources /\ failed \subseteq Sources /\ refused \subseteq failed
    /\ failures \subseteq Topics
    /\ next \in Nat \ {0} /\ errors \in BOOLEAN

\* A step on a module: what is left to show is what it does to that module.
LEMMA InsideKeeps ==
    ASSUME Inv, pc \in Inside, UNCHANGED <<run, report, plan>>,
           \/ pc' \in Inside /\ at' = at
           \/ pc' = "next" /\ at' = at + 1,
           WorkTypes', errors => errors', Noted',
           NEW w \in Modules, w = plan[at], \A m \in Modules : m # w => Untouched(m),
           pc' \in Inside => AtWork(w)', pc' = "next" => Closed(w)'
    PROVE  Inv'
<1>0. Types /\ Place /\ Filed /\ at <= Len(plan) /\ w \in Modules
  BY PlanIsTyped DEF Inv, Place
<1>0a. "next" \notin Inside /\ "done" \notin Inside /\ "next" # "done"
  BY DEF Inside
<1>1. Types'
  <2>1. TypeOK
    BY <1>0 DEF Types
  <2>2. at' \in 1 .. Len(plan) + 1
    BY <1>0, PlanIsTyped
  <2>3. /\ run' \in [status : RunStatus, cancel : BOOLEAN]
        /\ report'.filed \in BOOLEAN /\ report'.degraded \in BOOLEAN
        /\ plan' \in Plans \cup {<<>>}
    BY <2>1 DEF TypeOK
  <2>4. TypeOK'
    BY <2>2, <2>3 DEF TypeOK, WorkTypes
  <2> QED BY <2>4 DEF Types, WorkTypes
<1>2. Place'
  BY <1>0, <1>0a DEF Place, Inside, Closing
<1>3. Filed'
  BY <1>0, UnfiledKeeps DEF Inside
<1>4. CompletedIsComplete'
  BY <1>0, <1>0a DEF Place, CompletedIsComplete
<1>5. ASSUME NEW m \in Modules PROVE Progress(m)'
  <2>1. Progress(m)
    BY DEF Inv
  <2>2. CASE m # w
    BY <1>0, <1>0a, <2>1, <2>2, OthersKeep
  <2>3. CASE m = w /\ pc' = "next"
    BY <1>0, <1>0a, <2>3, LeavesBehind
  <2>4. CASE m = w /\ pc' \in Inside
    BY <1>0, <1>0a, <2>4, GoesOn
  <2> QED BY <2>2, <2>3, <2>4
<1> QED BY <1>1, <1>2, <1>3, <1>4, <1>5 DEF Inv

\* The run ends, but not as completed: of the modules it has left behind it says nothing new.
LEMMA EndKeeps ==
    ASSUME Inv, pc # "done", pc' = "done",
           NEW s \in {"completed_with_errors", "failed", "cancelled"},
           run' = [run EXCEPT !.status = s],
           UNCHANGED <<report, plan, at, status, stage, sections, healthVars, failures>>,
           next' \in Nat \ {0}, errors' \in BOOLEAN, errors => errors',
           moduleRun' \in [Modules -> ModuleStatus \cup {"none"}],
           \A m \in Modules : Behind(m) => moduleRun'[m] = moduleRun[m]
    PROVE  Inv'
<1>0. Types /\ TypeOK /\ Place /\ Noted /\ Filed
  BY DEF Inv, Types
<1>0a. run'.status = s /\ run' \in [status : RunStatus, cancel : BOOLEAN]
  BY <1>0 DEF TypeOK, RunStatus
<1>0b. "done" \notin Inside \cup Closing
  BY DEF Inside, Closing
<1>1. Types'
  <2>1. UNCHANGED <<report, plan, at, status, stage, sections, answered, failed, refused, failures>>
    BY DEF healthVars
  <2>2. TypeOK'
    BY <1>0, <1>0a, <2>1 DEF TypeOK
  <2> QED BY <1>0, <2>2 DEF Types
<1>2. Place'
  BY <1>0a, <1>0b DEF Place
<1>3. Noted'
  BY <1>0, NotedKeeps DEF healthVars
<1>4. Filed'
  <2>1. Degraded' <=> Degraded
    BY DEF Degraded, healthVars
  <2> QED BY <1>0, <2>1 DEF Filed
<1>5. CompletedIsComplete'
  BY <1>0a DEF CompletedIsComplete
<1>6. ASSUME NEW m \in Modules PROVE Progress(m)'
  <2>1. Progress(m)
    BY DEF Inv
  <2>2. Behind(m) => Untouched(m)
    BY DEF Untouched, StageOf, StatusOf
  <2> QED BY <1>0, <1>0b, <2>1, <2>2, RestKeeps
<1> QED BY <1>1, <1>2, <1>3, <1>4, <1>5, <1>6 DEF Inv

-----------------------------------------------------------------------------
(* The steps between the modules.                                           *)

LEMMA InitInv == Init => Inv
<1> SUFFICES ASSUME Init PROVE Inv
  OBVIOUS
<1>1. Types
  <2>1. <<>> \in Plans \cup {<<>>} /\ Len(<<>>) = 0
    OBVIOUS
  <2>2. NewSection \in Section
    BY DEF NewSection, Section
  <2>3. /\ run \in [status : RunStatus, cancel : BOOLEAN]
        /\ moduleRun \in [Modules -> ModuleStatus \cup {"none"}]
        /\ report.filed \in BOOLEAN /\ report.degraded \in BOOLEAN
    BY DEF Init, RunStatus, NoReport
  <2>4. /\ status \in [Topics -> CollectionStatus]
        /\ stage \in [Topics -> TopicStage]
        /\ sections \in [Modules -> Section]
    BY <2>2 DEF Init, CollectionStatus, TopicStage
  <2>5. TypeOK
    BY <2>1, <2>3, <2>4 DEF Init, TypeOK
  <2>6. pc = "begin" /\ next = 1 /\ errors = FALSE
    BY DEF Init
  <2>7. next \in Nat \ {0} /\ errors \in BOOLEAN
    <3>1. 1 \in Nat \ {0}
      OBVIOUS
    <3> QED BY <2>6, <3>1
  <2>8. pc \in {"begin", "plan", "next", "done"} \cup Inside \cup Closing
    BY <2>6
  <2> QED BY <2>5, <2>7, <2>8 DEF Types
<1>2. Place
  BY DEF Init, Place, Inside, Closing
<1>3. Noted
  BY DEF Init, Noted, NewSection
<1>4. Filed
  BY DEF Init, Filed, NoReport
<1>5. CompletedIsComplete
  BY DEF Init, CompletedIsComplete
<1>6. ASSUME NEW m \in Modules PROVE Progress(m)
  <2>1. ~Behind(m) /\ ~Working(m)
    BY DEF Init, Behind, Working, Inside
  <2>2. Fresh(m)
    BY TopicsAreTyped DEF Init, Fresh, StageOf, StatusOf
  <2> QED BY <2>1, <2>2 DEF Progress
<1> QED BY <1>1, <1>2, <1>3, <1>4, <1>5, <1>6 DEF Inv

\* A step that moves the run on without touching its modules, its report or its row.
LEMMA MoveKeeps ==
    ASSUME Inv, pc \in {"begin", "next", "synthesize", "publish", "export"},
           pc' \in {"plan"} \cup Closing,
           pc' = "plan" => pc = "begin",
           pc' \in Closing => at > Len(plan),
           run' \in [status : RunStatus, cancel : BOOLEAN],
           run'.status \in {"pending", "running"},
           report' = report \/
              (/\ report' = [filed |-> TRUE, degraded |-> Degraded, sections |-> sections]
               /\ pc' = "export"),
           pc = "export" => pc' = "finish",
           UNCHANGED <<moduleRun, plan, at, status, stage, sections, healthVars, failures>>,
           next' \in Nat \ {0}, errors' \in BOOLEAN, errors => errors'
    PROVE  Inv'
<1>0. Types /\ TypeOK /\ Place /\ Noted /\ Filed
  BY DEF Inv, Types
<1>0a. pc' # "done" /\ pc' \notin Inside /\ pc \notin Inside \cup {"done"}
  BY DEF Inside, Closing
<1>0b. UNCHANGED <<moduleRun, plan, at, status, stage, sections, answered, failed, refused, failures>>
  BY DEF healthVars
<1>0c. Degraded' <=> Degraded
  BY <1>0b DEF Degraded
<1>1. Types'
  <2>1. report'.filed \in BOOLEAN /\ report'.degraded \in BOOLEAN
    <3>1. report.filed \in BOOLEAN /\ report.degraded \in BOOLEAN
      BY <1>0 DEF TypeOK
    <3>2. Degraded \in BOOLEAN
      BY DEF Degraded
    <3>3. CASE report' = report
      BY <3>1, <3>3
    <3>4. CASE report' = [filed |-> TRUE, degraded |-> Degraded, sections |-> sections]
      <4>1. report'.filed = TRUE /\ report'.degraded = Degraded
        BY <3>4
      <4> QED BY <3>2, <4>1
    <3> QED BY <3>3, <3>4
  <2>2. TypeOK'
    BY <1>0, <1>0b, <2>1 DEF TypeOK
  <2> QED BY <2>2 DEF Types
<1>2. Place'
  BY <1>0, <1>0a, <1>0b DEF Place, Closing
<1>3. Noted'
  BY <1>0, <1>0b, NotedKeeps
<1>4. Filed'
  <2>1. CASE report' = report
    BY <1>0, <1>0b, <1>0c, <2>1 DEF Filed
  <2>2. CASE report' = [filed |-> TRUE, degraded |-> Degraded, sections |-> sections] /\ pc' = "export"
    <3>1. at > Len(plan)
      BY <2>2 DEF Closing
    <3>2. report'.sections = sections' /\ report'.degraded = Degraded
      BY <1>0b, <2>2
    <3> QED BY <1>0b, <1>0c, <2>2, <3>1, <3>2 DEF Filed
  <2> QED BY <2>1, <2>2
<1>5. CompletedIsComplete'
  BY DEF CompletedIsComplete
<1>6. ASSUME NEW m \in Modules PROVE Progress(m)'
  <2>1. Progress(m)
    BY DEF Inv
  <2>2. Untouched(m)
    BY <1>0b DEF Untouched, StageOf, StatusOf
  <2> QED BY <1>0, <1>0a, <1>0b, <2>1, <2>2, RestKeeps
<1> QED BY <1>1, <1>2, <1>3, <1>4, <1>5, <1>6 DEF Inv

LEMMA BeginInv == Inv /\ Begin => Inv'
<1> SUFFICES ASSUME Inv, Begin PROVE Inv'
  OBVIOUS
<1>1. run' \in [status : RunStatus, cancel : BOOLEAN] /\ run'.status = "running"
  BY DEF Inv, Types, TypeOK, RunStatus, Begin
<1>2. next \in Nat \ {0} /\ errors \in BOOLEAN
  BY DEF Inv, Types
<1>3. /\ pc = "begin" /\ pc' = "plan" /\ report' = report /\ next' = next /\ errors' = errors
      /\ UNCHANGED <<moduleRun, plan, at, status, stage, sections, healthVars, failures>>
  BY DEF Begin, Goto, noteVars
<1>4. pc' \notin Closing
  BY <1>3 DEF Closing
<1> QED BY <1>1, <1>2, <1>3, <1>4, MoveKeeps

LEMMA SynthesizeInv == Inv /\ Synthesize => Inv'
<1> SUFFICES ASSUME Inv, Synthesize PROVE Inv'
  OBVIOUS
<1>1. run' \in [status : RunStatus, cancel : BOOLEAN] /\ run'.status \in {"pending", "running"}
  BY DEF Inv, Types, TypeOK, Place, Synthesize, dbVars
<1>2. next \in Nat \ {0} /\ errors \in BOOLEAN
  BY DEF Inv, Types
<1>3. /\ pc = "synthesize" /\ pc' = "publish" /\ report' = report /\ next' = next
      /\ errors' \in {errors, TRUE}
      /\ UNCHANGED <<moduleRun, plan, at, status, stage, sections, healthVars, failures>>
  BY DEF Synthesize, Goto, dbVars
<1>4. pc' \in Closing /\ at > Len(plan)
  BY <1>3 DEF Closing, Inv, Place
<1> QED BY <1>1, <1>2, <1>3, <1>4, MoveKeeps

LEMMA PersistReportInv == Inv /\ PersistReport => Inv'
<1> SUFFICES ASSUME Inv, PersistReport PROVE Inv'
  OBVIOUS
<1>1. run' \in [status : RunStatus, cancel : BOOLEAN] /\ run'.status \in {"pending", "running"}
  BY DEF Inv, Types, TypeOK, Place, PersistReport
<1>2. next \in Nat \ {0} /\ errors \in BOOLEAN
  BY DEF Inv, Types
<1>3. /\ pc = "publish" /\ pc' = "export" /\ next' = next /\ errors' = errors
      /\ report' = [filed |-> TRUE, degraded |-> Degraded, sections |-> sections]
      /\ UNCHANGED <<moduleRun, plan, at, status, stage, sections, healthVars, failures>>
  BY DEF PersistReport, Goto, noteVars
<1>4. pc' \in Closing /\ at > Len(plan)
  BY <1>3 DEF Closing, Inv, Place
<1> QED BY <1>1, <1>2, <1>3, <1>4, MoveKeeps

LEMMA ExportInv == Inv /\ Export => Inv'
<1> SUFFICES ASSUME Inv, Export PROVE Inv'
  OBVIOUS
<1>2. Types /\ next \in Nat \ {0} /\ errors \in BOOLEAN
  BY DEF Inv, Types
<1>3. /\ pc = "export" /\ next' = next /\ errors' = errors /\ report' = report
      /\ UNCHANGED <<moduleRun, plan, at, status, stage, sections, healthVars, failures>>
  BY DEF Export, noteVars
<1>4. CASE pc' = "finish" /\ UNCHANGED run
  <2>1. run' \in [status : RunStatus, cancel : BOOLEAN] /\ run'.status \in {"pending", "running"}
    BY <1>3, <1>4 DEF Inv, Types, TypeOK, Place
  <2>2. pc' \in Closing /\ at > Len(plan)
    BY <1>3, <1>4 DEF Closing, Inv, Place
  <2> QED BY <1>2, <1>3, <1>4, <2>1, <2>2, MoveKeeps
<1>5. CASE RunFails
  <2>1. pc' = "done" /\ run' = [run EXCEPT !.status = "failed"]
    BY <1>5 DEF RunFails, FinishAs, Goto
  <2>2. moduleRun' \in [Modules -> ModuleStatus \cup {"none"}]
    BY <1>2, <1>3 DEF Types, TypeOK
  <2> QED BY <1>2, <1>3, <2>1, <2>2, EndKeeps
<1> QED BY <1>4, <1>5 DEF Export, Goto

LEMMA TransactionFailsInv == Inv /\ TransactionFails => Inv'
<1> SUFFICES ASSUME Inv, TransactionFails PROVE Inv'
  OBVIOUS
<1>1. /\ pc # "done" /\ pc' = "done" /\ run' = [run EXCEPT !.status = "failed"]
      /\ next' = next /\ errors' = errors
      /\ UNCHANGED <<moduleRun, report, plan, at, status, stage, sections, healthVars, failures>>
  BY DEF TransactionFails, RunFails, FinishAs, Goto, noteVars
<1>2. errors \in BOOLEAN /\ moduleRun \in [Modules -> ModuleStatus \cup {"none"}] /\ next \in Nat \ {0}
  BY DEF Inv, Types, TypeOK
<1> QED BY <1>1, <1>2, EndKeeps

LEMMA ModuleRowUnreadInv == Inv /\ ModuleRowUnread => Inv'
<1> SUFFICES ASSUME Inv, ModuleRowUnread PROVE Inv'
  OBVIOUS
<1>1. /\ pc # "done" /\ pc' = "done" /\ run' = [run EXCEPT !.status = "failed"]
      /\ next' = next /\ errors' = errors
      /\ UNCHANGED <<moduleRun, report, plan, at, status, stage, sections, healthVars, failures>>
  BY DEF ModuleRowUnread, RunFails, FinishAs, Goto, noteVars
<1>2. errors \in BOOLEAN /\ moduleRun \in [Modules -> ModuleStatus \cup {"none"}] /\ next \in Nat \ {0}
  BY DEF Inv, Types, TypeOK
<1> QED BY <1>1, <1>2, EndKeeps

LEMMA ModuleHandlerFailsInv == Inv /\ ModuleHandlerFails => Inv'
<1> SUFFICES ASSUME Inv, ModuleHandlerFails PROVE Inv'
  OBVIOUS
<1>1. /\ pc # "done" /\ pc' = "done" /\ run' = [run EXCEPT !.status = "failed"]
      /\ next' = next /\ errors' = TRUE
      /\ UNCHANGED <<moduleRun, report, plan, at, status, stage, sections, healthVars, failures>>
  BY DEF ModuleHandlerFails, RunFails, FinishAs, Goto
<1>2. moduleRun \in [Modules -> ModuleStatus \cup {"none"}] /\ next \in Nat \ {0}
  BY DEF Inv, Types, TypeOK
<1> QED BY <1>1, <1>2, EndKeeps

LEMMA SkipModuleInv == Inv /\ SkipModule => Inv'
<1> SUFFICES ASSUME Inv, SkipModule PROVE Inv'
  OBVIOUS
<1>1. Types /\ Place /\ pc \in Inside /\ at <= Len(plan)
  BY DEF Inv, Place, SkipModule, Inside
<1>2. /\ pc' = "done" /\ next' = next /\ errors' = errors
      /\ UNCHANGED <<report, plan, at, status, stage, sections, healthVars, failures>>
  BY DEF SkipModule, Skip, RunFails, FinishAs, Goto, noteVars
<1>3. run' = [run EXCEPT !.status = "cancelled"] \/ run' = [run EXCEPT !.status = "failed"]
  BY DEF SkipModule, Skip, RunFails, FinishAs
<1>4. moduleRun' = [moduleRun EXCEPT ![plan[at]] = "skipped"] \/ moduleRun' = moduleRun
  BY DEF SkipModule, Skip, M
<1>5. errors \in BOOLEAN /\ moduleRun \in [Modules -> ModuleStatus \cup {"none"}] /\ next \in Nat \ {0}
  BY DEF Inv, Types, TypeOK
<1>6. moduleRun' \in [Modules -> ModuleStatus \cup {"none"}]
  BY <1>4, <1>5 DEF ModuleStatus, ModuleTerminal
<1>7. \A m \in Modules : Behind(m) => moduleRun'[m] = moduleRun[m]
  <2>1. ~Behind(plan[at])
    BY <1>1, WorkIsNotBehind
  <2> QED BY <1>4, <1>5, <2>1
<1>8. pc # "done"
  BY <1>1 DEF Inside
<1> QED BY <1>2, <1>3, <1>5, <1>6, <1>7, <1>8, EndKeeps

\* The first module is still ahead when the plan has been read.
LEMMA PlanRunInv == Inv /\ PlanRun => Inv'
<1> SUFFICES ASSUME Inv, PlanRun PROVE Inv'
  OBVIOUS
<1>0. Types /\ TypeOK /\ Place /\ Noted /\ Filed /\ CompletedIsComplete
  BY DEF Inv, Types
<1>1. pc = "plan" /\ at = 1 /\ plan = <<>>
  BY <1>0 DEF PlanRun, Place
<1>2. PICK p \in Plans :
         /\ plan' = p
         /\ moduleRun' = [m \in Modules |-> IF m \in Set(p) THEN "pending" ELSE "none"]
         /\ \/ p = <<>> /\ FinishAs("completed")
            \/ p # <<>> /\ Goto("next") /\ UNCHANGED run
            \/ p # <<>> /\ "model" \in Faults /\ RunFails
  BY DEF PlanRun
<1>3. UNCHANGED <<report, at, next, status, stage, sections, answered, failed, refused, errors, failures>>
  BY DEF PlanRun, healthVars, noteVars
<1>4. \/ pc' = "next" /\ run' = run
      \/ \E s \in {"completed", "failed"} : pc' = "done" /\ run' = [run EXCEPT !.status = s]
  BY <1>2 DEF FinishAs, RunFails, Goto
<1>5. run' \in [status : RunStatus, cancel : BOOLEAN] /\ (pc' = "done" <=> run'.status \notin {"pending", "running"})
  BY <1>0, <1>1, <1>4 DEF TypeOK, RunStatus, Place
<1>6. ~report.filed
  BY <1>0, <1>1 DEF Filed
<1>7. Types'
  <2>1. moduleRun' \in [Modules -> ModuleStatus \cup {"none"}]
    BY <1>2 DEF ModuleStatus
  <2>2. Len(plan') \in Nat /\ plan' \in Plans \cup {<<>>}
    BY <1>2, ClassicAssumption
  <2>3. at' \in 1 .. Len(plan') + 1
    BY <1>1, <1>3, <2>2
  <2>4. TypeOK'
    BY <1>0, <1>3, <1>5, <2>1, <2>2, <2>3 DEF TypeOK
  <2>5. next' \in Nat \ {0} /\ errors' \in BOOLEAN
    BY <1>0, <1>3 DEF Types
  <2> QED BY <1>4, <2>4, <2>5 DEF Types
<1>8. Place'
  BY <1>4, <1>5 DEF Place, Inside, Closing
<1>9. Noted'
  BY <1>0, <1>3, NotedKeeps
<1>10. Filed'
  BY <1>0, <1>1, <1>3, UnfiledKeeps
<1>11. \A m \in Modules : Fresh(m)
  <2> SUFFICES ASSUME NEW m \in Modules PROVE Fresh(m)
    OBVIOUS
  <2>1. ~Behind(m)
    BY <1>1 DEF Behind
  <2>2. ~Working(m) /\ pc # "done"
    BY <1>1 DEF Working, Inside
  <2> QED BY <2>1, <2>2 DEF Inv, Progress
<1>12. CompletedIsComplete'
  <2> SUFFICES ASSUME NEW t \in Topics
               PROVE  status[t] = "not_attempted" /\ stage[t] = "none"
    BY <1>3 DEF CompletedIsComplete
  <2>1. PICK m \in Modules : \E i \in Index(m) : t = TopicsOf[m][i]
    BY TopicsAreTyped
  <2> QED BY <1>11, <2>1 DEF Fresh, StageOf, StatusOf
<1>13. ASSUME NEW m \in Modules PROVE Progress(m)'
  <2>1. ~Behind(m)'
    BY <1>1, <1>3 DEF Behind
  <2>2. ~Working(m)'
    BY <1>4 DEF Working, Inside
  <2>3. Fresh(m)'
    BY <1>3, <1>11 DEF Fresh, StageOf, StatusOf
  <2> QED BY <2>1, <2>2, <2>3 DEF Progress
<1> QED BY <1>7, <1>8, <1>9, <1>10, <1>12, <1>13 DEF Inv

LEMMA NextModuleInv == Inv /\ NextModule => Inv'
<1> SUFFICES ASSUME Inv, NextModule PROVE Inv'
  OBVIOUS
<1>0. Types /\ TypeOK /\ Place /\ Noted /\ Filed
  BY DEF Inv, Types
<1>1. /\ pc = "next" /\ next' = 1 /\ errors' = errors /\ report' = report
      /\ UNCHANGED <<plan, at, status, stage, sections, healthVars, failures>>
  BY DEF NextModule, noteVars
<1>2. errors \in BOOLEAN /\ moduleRun \in [Modules -> ModuleStatus \cup {"none"}] /\ next' \in Nat \ {0}
  BY <1>0, <1>1 DEF Types, TypeOK
<1>3. CASE run.cancel
  <2>1. pc' = "done" /\ run' = [run EXCEPT !.status = "cancelled"] /\ moduleRun' = moduleRun
    BY <1>3 DEF NextModule, FinishAs, Goto
  <2> QED BY <1>1, <1>2, <2>1, EndKeeps
<1>4. CASE ~run.cancel /\ at > Len(plan)
  <2>1. pc' = "synthesize" /\ run' = run /\ moduleRun' = moduleRun
    BY <1>4 DEF NextModule, Goto
  <2>2. run' \in [status : RunStatus, cancel : BOOLEAN] /\ run'.status \in {"pending", "running"}
    BY <1>0, <1>1, <2>1 DEF TypeOK, Place
  <2>3. pc' \in Closing
    BY <2>1 DEF Closing
  <2> QED BY <1>1, <1>2, <1>4, <2>1, <2>2, <2>3, MoveKeeps
<1>5. CASE ~run.cancel /\ ~(at > Len(plan))
  <2>1. pc' = "collect" /\ run' = run /\ moduleRun' = [moduleRun EXCEPT ![plan[at]] = "collecting"]
    BY <1>5 DEF NextModule, Goto, M
  <2>2. at <= Len(plan) /\ plan[at] \in Modules
    BY <1>0, <1>5, PlanIsTyped
  <2>3. UNCHANGED <<plan, at, status, stage, sections, answered, failed, refused, failures>>
    BY <1>1 DEF healthVars
  <2>4. Types'
    <3>1. moduleRun' \in [Modules -> ModuleStatus \cup {"none"}]
      BY <1>2, <2>1 DEF ModuleStatus
    <3>2. TypeOK'
      BY <1>0, <1>1, <2>1, <2>3, <3>1 DEF TypeOK
    <3>3. pc' \in Inside
      BY <2>1 DEF Inside
    <3> QED BY <1>1, <1>2, <3>2, <3>3 DEF Types
  <2>5. Place'
    BY <1>0, <1>1, <2>1, <2>2, <2>3 DEF Place, Closing
  <2>6. Noted'
    BY <1>0, <1>1, <2>3, NotedKeeps
  <2>7. Filed'
    BY <1>0, <1>1, UnfiledKeeps
  <2>8. CompletedIsComplete'
    BY <1>0, <1>1, <2>1 DEF Place, CompletedIsComplete
  <2>9. ASSUME NEW m \in Modules PROVE Progress(m)'
    <3>1. Progress(m) /\ ~Working(m) /\ pc # "done"
      BY <1>1 DEF Inv, Working, Inside
    <3>2. Behind(m)' <=> Behind(m)
      BY <2>3 DEF Behind
    <3>3. CASE m # plan[at]
      <4>1. Untouched(m)
        BY <1>2, <2>1, <2>3, <3>3 DEF Untouched, StageOf, StatusOf
      <4>2. (Closed(m) => Closed(m)') /\ (Fresh(m) => Fresh(m)')
        BY <1>1, <4>1, UntouchedKeeps
      <4>3. ~Working(m)'
        BY <2>3, <3>3 DEF Working
      <4> QED BY <3>1, <3>2, <4>2, <4>3 DEF Progress
    <3>4. CASE m = plan[at]
      <4>1. ~Behind(m)
        BY <1>0, <2>2, <3>4, WorkIsNotBehind
      <4>2. Fresh(m)
        BY <3>1, <4>1 DEF Progress
      <4>3. sections'[m] = NewSection /\ \A i \in Index(m) : StageOf(m, i)' = "none"
        BY <2>3, <4>2 DEF Fresh, StageOf
      <4>4. \A i \in Index(m) : ~(i < 1)
        BY DEF Index
      <4>5. AtWork(m)'
        BY <1>1, <2>1, <4>3, <4>4 DEF AtWork
      <4>6. Working(m)'
        BY <2>1, <2>3, <3>4 DEF Working, Inside
      <4> QED BY <3>2, <4>1, <4>5, <4>6 DEF Progress
    <3> QED BY <3>3, <3>4
  <2> QED BY <2>4, <2>5, <2>6, <2>7, <2>8, <2>9 DEF Inv
<1> QED BY <1>3, <1>4, <1>5

LEMMA FinishInv == Inv /\ Finish => Inv'
<1> SUFFICES ASSUME Inv, Finish PROVE Inv'
  OBVIOUS
<1>0. Types /\ TypeOK /\ Place /\ Noted /\ Filed
  BY DEF Inv, Types
<1>1. /\ pc = "finish" /\ pc' = "done" /\ run' = [run EXCEPT !.status = FinalStatus]
      /\ next' = next /\ errors' = errors
      /\ UNCHANGED <<moduleRun, report, plan, at, status, stage, sections, healthVars, failures>>
  BY DEF Finish, FinishAs, Goto, noteVars
<1>2. errors \in BOOLEAN /\ moduleRun \in [Modules -> ModuleStatus \cup {"none"}] /\ next \in Nat \ {0}
  BY <1>0 DEF Types, TypeOK
<1>3. CASE FinalStatus = "completed_with_errors"
  BY <1>1, <1>2, <1>3, EndKeeps
<1>4. CASE FinalStatus = "completed"
  <2>1. ~errors /\ failures = {}
    BY <1>4 DEF FinalStatus
  <2>2. UNCHANGED <<plan, at, status, stage, sections, answered, failed, refused, failures>>
    BY <1>1 DEF healthVars
  <2>3. at > Len(plan) /\ Len(plan) \in Nat
    BY <1>0, <1>1, PlanIsTyped DEF Place, Closing
  <2>4. run' \in [status : RunStatus, cancel : BOOLEAN] /\ run'.status = "completed"
    BY <1>0, <1>1, <1>4 DEF TypeOK, RunStatus
  <2>5. Types'
    <3>1. TypeOK'
      BY <1>0, <1>1, <2>2, <2>4 DEF TypeOK
    <3> QED BY <1>0, <1>1, <3>1 DEF Types
  <2>6. Place'
    BY <1>1, <2>2, <2>4 DEF Place, Inside, Closing
  <2>7. Noted'
    BY <1>0, <1>1, <2>2, NotedKeeps
  <2>8. Filed'
    <3>1. Degraded' <=> Degraded
      BY <2>2 DEF Degraded
    <3> QED BY <1>0, <1>1, <2>2, <3>1 DEF Filed
  <2>9. CompletedIsComplete'
    <3> SUFFICES ASSUME NEW t \in Topics
                 PROVE  status[t] # "failed" /\ stage[t] \notin {"articles", "mute", "found", "lost"}
      BY <2>2 DEF CompletedIsComplete
    <3>1. status[t] # "failed" /\ stage[t] \notin {"mute", "lost"}
      BY <1>0, <2>1 DEF Noted
    <3>2. PICK m \in Modules : \E i \in Index(m) : t = TopicsOf[m][i]
      BY TopicsAreTyped
    <3>3. Progress(m) /\ ~Working(m) /\ pc # "done"
      BY <1>1 DEF Inv, Working, Inside
    <3>4. Closed(m) \/ Fresh(m)
      BY <3>3 DEF Progress
    <3>5. \A i \in Index(m) : StageOf(m, i) \notin {"articles", "found"}
      BY <2>1, <3>4 DEF Closed, Fresh
    <3> QED BY <3>1, <3>2, <3>5 DEF StageOf
  <2>10. ASSUME NEW m \in Modules PROVE Progress(m)'
    <3>1. Progress(m)
      BY DEF Inv
    <3>2. Untouched(m)
      BY <1>1, <2>2 DEF Untouched, StageOf, StatusOf
    <3>3. "done" \notin Inside
      BY DEF Inside
    <3> QED BY <1>0, <1>1, <2>2, <3>1, <3>2, <3>3, RestKeeps
  <2> QED BY <2>5, <2>6, <2>7, <2>8, <2>9, <2>10 DEF Inv
<1> QED BY <1>3, <1>4 DEF FinalStatus

LEMMA CancelInv == Inv /\ Cancel => Inv'
<1> SUFFICES ASSUME Inv, Cancel PROVE Inv'
  OBVIOUS
<1>0. Types /\ TypeOK /\ Place /\ Noted /\ Filed /\ CompletedIsComplete
  BY DEF Inv, Types
<1>1. UNCHANGED <<moduleRun, report, pc, plan, at, next, status, stage, sections,
                  answered, failed, refused, errors, failures>>
  BY DEF Cancel, healthVars, noteVars
<1>2. run' \in [status : RunStatus, cancel : BOOLEAN] /\ run'.status = run.status
  BY <1>0 DEF Cancel, TypeOK
<1>3. Types'
  <2>1. TypeOK'
    BY <1>0, <1>1, <1>2 DEF TypeOK
  <2> QED BY <1>0, <1>1, <2>1 DEF Types
<1>4. Place'
  BY <1>0, <1>1, <1>2 DEF Place
<1>5. Noted'
  BY <1>0, <1>1, NotedKeeps
<1>6. Filed'
  <2>1. Degraded' <=> Degraded
    BY <1>1 DEF Degraded
  <2> QED BY <1>0, <1>1, <2>1 DEF Filed
<1>7. CompletedIsComplete'
  BY <1>0, <1>1, <1>2 DEF CompletedIsComplete
<1>8. ASSUME NEW m \in Modules PROVE Progress(m)'
  <2>1. Progress(m)
    BY DEF Inv
  <2>2. Untouched(m)
    BY <1>1 DEF Untouched, StageOf, StatusOf
  <2>3. (Closed(m) => Closed(m)') /\ (Fresh(m) => Fresh(m)')
    BY <1>1, <2>2, UntouchedKeeps
  <2>4. (Behind(m)' <=> Behind(m)) /\ (Working(m)' <=> Working(m))
    BY <1>1 DEF Behind, Working
  <2>5. AtWork(m) => AtWork(m)'
    <3>1. (ItemsAreRecorded(m)' <=> ItemsAreRecorded(m)) /\ (Honest(m)' <=> Honest(m))
      BY <1>1 DEF ItemsAreRecorded, Honest, StatusOf, Asked
    <3> QED BY <1>1, <3>1 DEF AtWork, StageOf, StatusOf, Asked
  <2> QED BY <1>1, <2>1, <2>3, <2>4, <2>5 DEF Progress
<1> QED BY <1>3, <1>4, <1>5, <1>6, <1>7, <1>8 DEF Inv

-----------------------------------------------------------------------------
(* The steps on a module.                                                   *)

\* Where a step on a module starts from.
LEMMA AtModule ==
    ASSUME Inv, pc \in Inside
    PROVE  /\ Types /\ TypeOK /\ Noted
           /\ plan[at] \in Modules /\ AtWork(plan[at])
           /\ WorkTypes
<1>1. Types /\ TypeOK /\ Noted /\ at <= Len(plan)
  BY DEF Inv, Types, Place
<1>2. plan[at] \in Modules
  BY <1>1, PlanIsTyped
<1>3. ~Behind(plan[at]) /\ Working(plan[at])
  BY <1>1, WorkIsNotBehind DEF Working
<1>4. AtWork(plan[at])
  BY <1>2, <1>3 DEF Inv, Progress
<1> QED BY <1>1, <1>2, <1>4 DEF Types, TypeOK, WorkTypes

\* A topic of one module is no other topic.
LEMMA OneTopic ==
    ASSUME NEW w \in Modules, NEW k \in Index(w)
    PROVE  /\ TopicsOf[w][k] \in Topics
           /\ \A m \in Modules : m # w =>
                 \A i \in Index(m) : TopicsOf[m][i] \in Topics /\ TopicsOf[m][i] # TopicsOf[w][k]
           /\ \A i \in Index(w) :
                 /\ TopicsOf[w][i] \in Topics
                 /\ i # k => TopicsOf[w][i] # TopicsOf[w][k]
BY TopicsAreTyped, TopicsAreApart

LEMMA CollectTopicInv == Inv /\ CollectTopic => Inv'
<1> SUFFICES ASSUME Inv, CollectTopic PROVE Inv'
  OBVIOUS
<1>0. pc = "collect" /\ pc \in Inside
  BY DEF CollectTopic, Inside
<1>0a. PICK w \in Modules : w = plan[at]
  BY <1>0, AtModule
<1> DEFINE t == TopicsOf[w][next]
<1>1. pc = "collect" /\ pc \in Inside /\ next <= Len(TopicsOf[w])
  BY <1>0, <1>0a DEF CollectTopic, More, Mine, M
<1>2. /\ Types /\ TypeOK /\ Noted /\ w \in Modules /\ AtWork(w)
      /\ next \in Nat \ {0} /\ errors \in BOOLEAN
      /\ moduleRun \in [Modules -> ModuleStatus \cup {"none"}]
      /\ status \in [Topics -> CollectionStatus] /\ stage \in [Topics -> TopicStage]
      /\ sections \in [Modules -> Section]
      /\ answered \subseteq Sources /\ failed \subseteq Sources /\ refused \subseteq failed
      /\ failures \subseteq Topics
  BY <1>0a, <1>1, AtModule DEF WorkTypes
<1>3. next \in Index(w)
  BY <1>1, <1>2, TopicsAreTyped DEF Index
<1>4. /\ t \in Topics
      /\ \A m \in Modules : m # w =>
            \A i \in Index(m) : TopicsOf[m][i] \in Topics /\ TopicsOf[m][i] # t
      /\ \A i \in Index(w) : TopicsOf[w][i] \in Topics /\ (i # next => TopicsOf[w][i] # t)
  BY <1>2, <1>3, OneTopic
<1>4a. T = t /\ M = w
  BY <1>0a DEF T, Mine, M
<1>5. PICK ok \in SUBSET Asked, bad \in SUBSET Asked, found \in BOOLEAN :
        \E live \in SUBSET ok, open \in SUBSET bad :
          /\ IF found THEN ok # {} ELSE ok \cup bad = Asked
          /\ answered' = answered \cup live
          /\ failed' = failed \cup bad
          /\ refused' = refused \cup open
          /\ LET s == Classify(ok, bad, found)
             IN  /\ status' = [status EXCEPT ![T] = s]
                 /\ failures' = IF s = "failed" THEN failures \cup {T} ELSE failures
                 /\ stage' = [stage EXCEPT ![T] = IF found THEN "articles" ELSE "empty"]
                 /\ moduleRun' = IF found THEN [moduleRun EXCEPT ![M] = "extracting"]
                                 ELSE moduleRun
  BY DEF CollectTopic
<1>6. PICK live \in SUBSET ok, open \in SUBSET bad :
          /\ IF found THEN ok # {} ELSE ok \cup bad = Asked
          /\ answered' = answered \cup live
          /\ failed' = failed \cup bad
          /\ refused' = refused \cup open
  BY <1>5
<1> DEFINE s == Classify(ok, bad, found)
           g == IF found THEN "articles" ELSE "empty"
<1>7. /\ status' = [status EXCEPT ![t] = s]
      /\ failures' = IF s = "failed" THEN failures \cup {t} ELSE failures
      /\ stage' = [stage EXCEPT ![t] = g]
      /\ moduleRun' = moduleRun \/ moduleRun' = [moduleRun EXCEPT ![w] = "extracting"]
  BY <1>4a, <1>5
<1>8. /\ s \in CollectionStatus
      /\ s \in {"failed", "partial"} => bad # {}
      /\ ok \cup bad # {} => s # "not_attempted"
      /\ g \in {"articles", "empty"}
  BY ClassifyIsTyped
<1>8a. Asked # {} => s # "not_attempted"
  BY <1>6, <1>8
<1>9. /\ next' = next + 1 /\ errors' = errors
      /\ UNCHANGED <<run, report, pc, plan, at, sections>>
  BY DEF CollectTopic
<1> HIDE DEF s, g, t
<1>10. /\ moduleRun' \in [Modules -> ModuleStatus \cup {"none"}]
       /\ status' \in [Topics -> CollectionStatus]
       /\ stage' \in [Topics -> TopicStage]
  BY <1>2, <1>4, <1>7, <1>8 DEF ModuleStatus, TopicStage
<1>11. answered' \subseteq Sources /\ failed' \subseteq Sources /\ refused' \subseteq failed' /\ failures' \subseteq Topics
  BY <1>2, <1>4, <1>6, <1>7 DEF Asked
<1>12. Noted'
  <2>1. failed \subseteq failed' /\ failures \subseteq failures' /\ (s = "failed" => t \in failures')
    BY <1>6, <1>7
  <2>2. s \in {"failed", "partial"} => failed' # {}
    BY <1>6, <1>8
  <2>3. ASSUME NEW u \in Topics
        PROVE  /\ status'[u] = "failed" => u \in failures'
               /\ status'[u] \in {"failed", "partial"} => failed' # {}
               /\ stage'[u] \in {"mute", "lost"} => errors'
    <3>1. CASE u = t
      BY <1>2, <1>4, <1>7, <1>8, <2>1, <2>2, <3>1
    <3>2. CASE u # t
      <4>1. status'[u] = status[u] /\ stage'[u] = stage[u]
        BY <1>2, <1>7, <3>2
      <4> QED BY <1>2, <1>9, <2>1, <4>1 DEF Noted
    <3> QED BY <3>1, <3>2
  <2>4. Degraded => Degraded'
    BY <2>1 DEF Degraded
  <2> QED BY <1>2, <1>9, <2>3, <2>4 DEF Noted
<1>13. \A m \in Modules : m # w => Untouched(m)
  BY <1>2, <1>4, <1>7, <1>9 DEF Untouched, StageOf, StatusOf
<1>14. AtWork(w)'
  <2>1. sections[w] = NewSection /\ \A i \in Index(w) :
             IF i < next THEN /\ StageOf(w, i) \in {"empty", "articles"}
                              /\ Asked # {} => StatusOf(w, i) # "not_attempted"
             ELSE StageOf(w, i) = "none"
    BY <1>1, <1>2 DEF AtWork
  <2>2. ASSUME NEW i \in Index(w)
        PROVE  IF i < next' THEN /\ stage'[TopicsOf[w][i]] \in {"empty", "articles"}
                                 /\ Asked # {} => status'[TopicsOf[w][i]] # "not_attempted"
               ELSE stage'[TopicsOf[w][i]] = "none"
    <3>1. CASE i = next
      <4>1. TopicsOf[w][i] = t /\ i < next'
        BY <1>2, <1>9, <3>1 DEF t
      <4> QED BY <1>2, <1>4, <1>7, <1>8, <1>8a, <4>1
    <3>2. CASE i # next
      <4>1. stage'[TopicsOf[w][i]] = StageOf(w, i) /\ status'[TopicsOf[w][i]] = StatusOf(w, i)
        BY <1>2, <1>4, <1>7, <3>2 DEF StageOf, StatusOf
      <4>2. i < next' <=> i < next
        BY <1>2, <1>9, <3>2 DEF Index
      <4> QED BY <2>1, <4>1, <4>2
    <3> QED BY <3>1, <3>2
  <2>3. pc' = "collect" /\ sections'[w] = NewSection
    BY <1>1, <1>9, <2>1
  <2> QED BY <2>2, <2>3 DEF AtWork, StageOf, StatusOf, Asked
<1>15. WorkTypes' /\ (errors => errors')
  BY <1>2, <1>9, <1>10, <1>11 DEF WorkTypes
<1>16. pc' \in Inside /\ at' = at /\ pc' # "next"
  BY <1>1, <1>9
<1>17. UNCHANGED <<run, report, plan>>
  BY <1>9
<1> QED BY <1>0a, <1>1, <1>12, <1>13, <1>14, <1>15, <1>16, <1>17, InsideKeeps

\* The payload a module gets once its coverage is known.
LEMMA NewSectionWith ==
    ASSUME NEW c \in CollectionStatus,
           NEW words \in {"", "no_access", "some_access", "no_sources"}
    PROVE  /\ [NewSection EXCEPT !.coverage = c, !.says = words] \in Section
           /\ [NewSection EXCEPT !.coverage = c, !.says = words].coverage = c
           /\ [NewSection EXCEPT !.coverage = c, !.says = words].items = {}
<1>1. NewSection \in Section /\ NewSection.items = {}
  BY DEF NewSection, Section
<1>2. [NewSection EXCEPT !.coverage = c, !.says = words] \in Section
  BY <1>1 DEF Section
<1> QED BY <1>1, <1>2 DEF Section

LEMMA CoverModuleInv == Inv /\ CoverModule => Inv'
<1> SUFFICES ASSUME Inv, CoverModule PROVE Inv'
  OBVIOUS
<1>0. pc = "collect" /\ pc \in Inside
  BY DEF CoverModule, Inside
<1>0a. PICK w \in Modules : w = plan[at]
  BY <1>0, AtModule
<1>1. Types /\ Noted /\ AtWork(w) /\ WorkTypes
  BY <1>0, <1>0a, AtModule
<1>2. Mine = TopicsOf[w] /\ M = w /\ ~(next <= Len(TopicsOf[w]))
  BY <1>0a DEF CoverModule, More, Mine, M
<1>3. \A i \in Index(w) : i < next
  BY <1>1, <1>2, TopicsAreTyped DEF Index, WorkTypes
<1>4. /\ sections[w] = NewSection
      /\ \A i \in Index(w) : /\ StageOf(w, i) \in {"empty", "articles"}
                             /\ Asked # {} => StatusOf(w, i) # "not_attempted"
  BY <1>0, <1>1, <1>3 DEF AtWork
<1> DEFINE ts == Set(TopicsOf[w])
           c  == Aggregate(ts)
           none == \A t \in ts : stage[t] # "articles"
<1>5. \A t \in ts : \E i \in Index(w) : t = TopicsOf[w][i]
  BY DEF Set, Index
<1>5a. \A i \in Index(w) : TopicsOf[w][i] \in ts
  BY DEF Set, Index
<1>6. ts \in SUBSET Topics /\ ts # {}
  <2>1. ts \subseteq Topics /\ 1 \in Index(w)
    BY TopicsAreTyped DEF Index
  <2> QED BY <1>5a, <2>1
<1>7. c \in CollectionStatus
  BY AggregateIsTyped
<1>8. Asked # {} /\ c \notin {"failed", "partial"} =>
         \A i \in Index(w) : StatusOf(w, i) \in {"ok", "no_candidates"}
  <2> SUFFICES ASSUME Asked # {}, c \notin {"failed", "partial"}
               PROVE  \A t \in ts : status[t] \in {"ok", "no_candidates"}
    BY <1>5a DEF StatusOf
  <2>1. \A t \in ts : status[t] # "not_attempted"
    BY <1>4, <1>5 DEF StatusOf
  <2>2. status \in [Topics -> CollectionStatus]
    BY <1>1 DEF WorkTypes
  <2> QED BY <1>6, <2>1, <2>2, AggregateIsHonest
<1>9. c \in {"failed", "partial"} => Degraded
  <2> SUFFICES ASSUME c \in {"failed", "partial"} PROVE Degraded
    OBVIOUS
  <2>1. PICK t \in ts : status[t] \in {"failed", "partial"}
    BY AggregateIsWarranted
  <2> QED BY <1>1, <1>6, <2>1 DEF Noted, Degraded
<1>10. /\ sections' = [sections EXCEPT ![w] = [NewSection EXCEPT !.coverage = c,
                 !.says = IF ~none THEN "" ELSE IF c = "failed" THEN "no_access"
                          ELSE IF c = "partial" THEN "some_access" ELSE "no_sources"]]
       /\ moduleRun' = [moduleRun EXCEPT ![w] =
                 IF ~none THEN @
                 ELSE IF c \in {"failed", "partial"} THEN "completed_with_warnings"
                 ELSE "completed"]
       /\ IF none THEN Goto("next") /\ at' = at + 1 ELSE Goto("analyse") /\ UNCHANGED at
  BY <1>2 DEF CoverModule
<1>11. /\ next' = 1 /\ errors' = errors
       /\ UNCHANGED <<run, report, plan, status, stage, answered, failed, refused, failures>>
  BY DEF CoverModule, healthVars, noteVars
<1> DEFINE words == IF ~none THEN "" ELSE IF c = "failed" THEN "no_access"
                    ELSE IF c = "partial" THEN "some_access" ELSE "no_sources"
<1>12. words \in {"", "no_access", "some_access", "no_sources"}
  OBVIOUS
<1>12a. sections' = [sections EXCEPT ![w] = [NewSection EXCEPT !.coverage = c, !.says = words]]
  BY <1>10
<1> HIDE DEF c, words
<1>13. /\ sections'[w].coverage = c /\ sections'[w].items = {}
       /\ \A m \in Modules : m # w => sections'[m] = sections[m]
       /\ sections' \in [Modules -> Section]
  <2> DEFINE new == [NewSection EXCEPT !.coverage = c, !.says = words]
  <2>1. new \in Section /\ new.coverage = c /\ new.items = {}
    BY <1>7, <1>12, NewSectionWith
  <2>2. sections' = [sections EXCEPT ![w] = new]
    BY <1>12a
  <2>3. sections \in [Modules -> Section]
    BY <1>1 DEF WorkTypes
  <2> HIDE DEF new
  <2> QED BY <2>1, <2>2, <2>3
<1>14. WorkTypes' /\ (errors => errors')
  <2>1. moduleRun' \in [Modules -> ModuleStatus \cup {"none"}]
    BY <1>1, <1>10 DEF WorkTypes, ModuleStatus, ModuleTerminal
  <2>2. next' \in Nat \ {0}
    BY <1>11
  <2>3. errors' \in BOOLEAN
    BY <1>1, <1>11 DEF WorkTypes
  <2>4. errors => errors'
    BY <1>11
  <2> QED BY <1>1, <1>11, <1>13, <2>1, <2>2, <2>3, <2>4 DEF WorkTypes
<1>15. Noted'
  <2>1. Degraded' <=> Degraded
    BY <1>11 DEF Degraded
  <2> QED BY <1>1, <1>9, <1>11, <1>13, <2>1 DEF Noted
<1>16. \A m \in Modules : m # w => Untouched(m)
  <2>1. \A m \in Modules : m # w => moduleRun'[m] = moduleRun[m]
    BY <1>1, <1>10 DEF WorkTypes
  <2> QED BY <1>11, <1>13, <2>1 DEF Untouched, StageOf, StatusOf
<1>17. Honest(w)'
  BY <1>8, <1>11, <1>13 DEF Honest, StatusOf, Asked
<1>18. CASE none
  <2>1. pc' = "next" /\ at' = at + 1
    BY <1>10, <1>18 DEF Goto
  <2>2. \A i \in Index(w) : StageOf(w, i)' = "empty"
    BY <1>4, <1>5a, <1>11, <1>18 DEF StageOf
  <2>3. moduleRun'[w] \in {"completed", "completed_with_warnings"}
    BY <1>1, <1>10, <1>18 DEF WorkTypes
  <2>4. ItemsAreRecorded(w)'
    <3>1. sections'[w].items = {} /\ \A i \in Index(w) : StageOf(w, i)' # "recorded"
      BY <1>13, <2>2
    <3>2. {t \in Set(TopicsOf[w]) : stage'[t] = "recorded"} = {}
      BY <3>1 DEF Set, Index, StageOf
    <3>3. MaxReportItems \in Nat
      BY ClassicAssumption
    <3> QED BY <3>1, <3>2, <3>3, BestOfNothing DEF ItemsAreRecorded
  <2>5. Closed(w)'
    BY <1>17, <2>2, <2>3, <2>4 DEF Closed
  <2>6. pc' \notin Inside
    BY <2>1 DEF Inside
  <2>7. UNCHANGED <<run, report, plan>>
    BY <1>11
  <2> QED BY <1>0, <1>0a, <1>14, <1>15, <1>16, <2>1, <2>5, <2>6, <2>7, InsideKeeps
<1>19. CASE ~none
  <2>1. pc' = "analyse" /\ at' = at
    BY <1>10, <1>19 DEF Goto
  <2>2. \A i \in Index(w) : StageOf(w, i)' \in {"empty", "articles"} /\ ~(i < next')
    BY <1>4, <1>11 DEF StageOf, Index
  <2>3. AtWork(w)'
    BY <1>13, <1>17, <2>1, <2>2 DEF AtWork
  <2>4. pc' \in Inside /\ pc' # "next"
    BY <2>1 DEF Inside
  <2>5. UNCHANGED <<run, report, plan>>
    BY <1>11
  <2> QED BY <1>0, <1>0a, <1>14, <1>15, <1>16, <2>1, <2>3, <2>4, <2>5, InsideKeeps
<1> QED BY <1>18, <1>19

LEMMA AnalyseTopicInv == Inv /\ AnalyseTopic => Inv'
<1> SUFFICES ASSUME Inv, AnalyseTopic PROVE Inv'
  OBVIOUS
<1>0. pc = "analyse" /\ pc \in Inside
  BY DEF AnalyseTopic, Inside
<1>0a. PICK w \in Modules : w = plan[at]
  BY <1>0, AtModule
<1>1. Types /\ Noted /\ AtWork(w) /\ WorkTypes
  BY <1>0, <1>0a, AtModule
<1>1a. /\ next \in Nat \ {0} /\ errors \in BOOLEAN
       /\ moduleRun \in [Modules -> ModuleStatus \cup {"none"}]
       /\ stage \in [Topics -> TopicStage] /\ sections \in [Modules -> Section]
  BY <1>1 DEF WorkTypes
<1>2. Mine = TopicsOf[w] /\ M = w /\ T = TopicsOf[w][next] /\ next <= Len(TopicsOf[w])
  BY <1>0a DEF AnalyseTopic, More, T, Mine, M
<1>3. next \in Index(w)
  BY <1>1a, <1>2, TopicsAreTyped DEF Index
<1>4. /\ T \in Topics
      /\ \A m \in Modules : m # w =>
            \A i \in Index(m) : TopicsOf[m][i] \in Topics /\ TopicsOf[m][i] # T
      /\ \A i \in Index(w) : TopicsOf[w][i] \in Topics /\ (i # next => TopicsOf[w][i] # T)
  BY <1>2, <1>3, OneTopic
<1>5. /\ Honest(w) /\ sections[w].items = {}
      /\ \A i \in Index(w) :
             StageOf(w, i) \in IF i < next THEN {"empty", "mute", "quiet", "found"}
                               ELSE {"empty", "articles"}
  BY <1>0, <1>1 DEF AtWork
<1>6. /\ moduleRun' = [moduleRun EXCEPT ![w] = "analyzing"]
      /\ next' = next + 1
      /\ UNCHANGED <<run, report, pc, plan, at, status, sections, answered, failed, refused, failures>>
  BY <1>2 DEF AnalyseTopic, healthVars
<1>7. /\ stage[T] # "articles" => stage' = stage /\ errors' = errors
      /\ stage[T] = "articles" =>
            \/ \E s \in {"found", "quiet"} : stage' = [stage EXCEPT ![T] = s] /\ errors' = errors
            \/ stage' = [stage EXCEPT ![T] = "mute"] /\ errors' = TRUE
  BY DEF AnalyseTopic
<1>8. errors' \in BOOLEAN /\ (errors => errors')
  <2>1. errors' = errors \/ errors' = TRUE
    BY <1>7
  <2>2. CASE errors' = errors
    BY <1>1a, <2>2
  <2>3. CASE errors' = TRUE
    BY <2>3
  <2> QED BY <2>1, <2>2, <2>3
<1>9. \/ stage' = stage /\ stage[T] # "articles"
      \/ \E s \in {"found", "quiet", "mute"} :
            stage' = [stage EXCEPT ![T] = s] /\ (s = "mute" => errors')
  BY <1>7
<1>10. WorkTypes' /\ (errors => errors')
  <2>1. moduleRun' \in [Modules -> ModuleStatus \cup {"none"}]
    BY <1>1a, <1>6 DEF ModuleStatus
  <2>2. stage' \in [Topics -> TopicStage]
    BY <1>1a, <1>9 DEF TopicStage
  <2>3. next' \in Nat \ {0}
    BY <1>1a, <1>6
  <2> QED BY <1>1, <1>6, <1>8, <2>1, <2>2, <2>3 DEF WorkTypes
<1>11. Noted'
  <2>1. Degraded' <=> Degraded
    BY <1>6 DEF Degraded
  <2>2. ASSUME NEW u \in Topics PROVE stage'[u] \in {"mute", "lost"} => errors'
    <3>1. CASE stage'[u] = stage[u]
      BY <1>1, <1>8, <3>1 DEF Noted
    <3>2. CASE stage'[u] # stage[u]
      BY <1>1a, <1>9, <3>2
    <3> QED BY <3>1, <3>2
  <2> QED BY <1>1, <1>6, <2>1, <2>2 DEF Noted
<1>12. \A m \in Modules : m # w => Untouched(m)
  BY <1>1a, <1>4, <1>6, <1>9 DEF Untouched, StageOf, StatusOf
<1>13. ASSUME NEW i \in Index(w)
       PROVE  stage'[TopicsOf[w][i]] \in IF i < next' THEN {"empty", "mute", "quiet", "found"}
                                         ELSE {"empty", "articles"}
  <2>1. CASE i = next
    <3>1. TopicsOf[w][i] = T /\ i < next'
      BY <1>1a, <1>2, <1>6, <2>1
    <3>2. stage[T] \in {"empty", "articles"}
      BY <1>5, <1>1a, <1>2, <1>3 DEF StageOf
    <3> QED BY <1>1a, <1>4, <1>9, <3>1, <3>2
  <2>2. CASE i # next
    <3>1. stage'[TopicsOf[w][i]] = StageOf(w, i)
      BY <1>1a, <1>4, <1>9, <2>2 DEF StageOf
    <3>2. i < next' <=> i < next
      BY <1>1a, <1>6, <2>2 DEF Index
    <3> QED BY <1>5, <3>1, <3>2
  <2> QED BY <2>1, <2>2
<1>14. AtWork(w)'
  <2>1. Honest(w)' /\ sections'[w].items = {} /\ pc' = "analyse"
    BY <1>0, <1>5, <1>6 DEF Honest, StatusOf, Asked
  <2> QED BY <1>13, <2>1 DEF AtWork, StageOf
<1>15. pc' \in Inside /\ at' = at /\ pc' # "next" /\ UNCHANGED <<run, report, plan>>
  BY <1>0, <1>6
<1> QED BY <1>0, <1>0a, <1>10, <1>11, <1>12, <1>14, <1>15, InsideKeeps

LEMMA StartMatchingInv == Inv /\ StartMatching => Inv'
<1> SUFFICES ASSUME Inv, StartMatching PROVE Inv'
  OBVIOUS
<1>0. pc = "analyse" /\ pc \in Inside
  BY DEF StartMatching, Inside
<1>0a. PICK w \in Modules : w = plan[at]
  BY <1>0, AtModule
<1>1. Types /\ Noted /\ AtWork(w) /\ WorkTypes
  BY <1>0, <1>0a, AtModule
<1>1a. /\ next \in Nat \ {0} /\ errors \in BOOLEAN
       /\ moduleRun \in [Modules -> ModuleStatus \cup {"none"}]
       /\ stage \in [Topics -> TopicStage] /\ sections \in [Modules -> Section]
  BY <1>1 DEF WorkTypes
<1>2. Mine = TopicsOf[w] /\ M = w /\ ~(next <= Len(TopicsOf[w]))
  BY <1>0a DEF StartMatching, More, Mine, M
<1>3. \A i \in Index(w) : i < next
  BY <1>1a, <1>2, TopicsAreTyped DEF Index
<1>4. /\ Honest(w) /\ sections[w].items = {}
      /\ \A i \in Index(w) : StageOf(w, i) \in {"empty", "mute", "quiet", "found"}
  BY <1>0, <1>1, <1>3 DEF AtWork
<1> DEFINE found == {t \in Set(TopicsOf[w]) : stage[t] = "found"}
<1>5. PICK kept \in Best(found, 2 * MaxReportItems) :
         stage' = [t \in Topics |-> IF t \in found \ kept THEN "dropped" ELSE stage[t]]
  BY <1>2 DEF StartMatching
<1>6. /\ moduleRun' = [moduleRun EXCEPT ![w] = "matching"]
      /\ pc' = "match" /\ next' = 1 /\ errors' = errors
      /\ UNCHANGED <<run, report, plan, at, status, sections, answered, failed, refused, failures>>
  BY <1>2 DEF StartMatching, Goto, healthVars, noteVars
<1>7. \A t \in Topics : stage'[t] \in {"dropped", stage[t]} /\ (t \notin found => stage'[t] = stage[t])
  BY <1>5
<1>8. WorkTypes' /\ (errors => errors')
  <2>1. moduleRun' \in [Modules -> ModuleStatus \cup {"none"}]
    BY <1>1a, <1>6 DEF ModuleStatus
  <2>2. stage' \in [Topics -> TopicStage]
    BY <1>1a, <1>5 DEF TopicStage
  <2>3. next' \in Nat \ {0}
    BY <1>6
  <2>4. errors' \in BOOLEAN /\ (errors => errors')
    BY <1>1a, <1>6
  <2> QED BY <1>1, <1>6, <2>1, <2>2, <2>3, <2>4 DEF WorkTypes
<1>9. Noted'
  <2>1. Degraded' <=> Degraded
    BY <1>6 DEF Degraded
  <2> QED BY <1>1, <1>6, <1>7, <2>1 DEF Noted
<1>10. ASSUME NEW m \in Modules, m # w PROVE Untouched(m)
  <2>1. \A i \in Index(m) : TopicsOf[m][i] \in Topics /\ TopicsOf[m][i] \notin found
    <3> SUFFICES ASSUME NEW i \in Index(m), TopicsOf[m][i] \in Set(TopicsOf[w]) PROVE FALSE
      BY TopicsAreTyped
    <3>1. PICK j \in Index(w) : TopicsOf[m][i] = TopicsOf[w][j]
      BY DEF Set, Index
    <3> QED BY <1>10, <3>1, TopicsAreApart
  <2>2. \A i \in Index(m) : stage'[TopicsOf[m][i]] = stage[TopicsOf[m][i]]
    BY <1>7, <2>1
  <2> QED BY <1>1a, <1>6, <1>10, <2>2 DEF Untouched, StageOf, StatusOf
<1>11. AtWork(w)'
  <2>1. Honest(w)' /\ sections'[w].items = {}
    BY <1>4, <1>6 DEF Honest, StatusOf, Asked
  <2>2. ASSUME NEW i \in Index(w)
        PROVE  stage'[TopicsOf[w][i]] # "articles" /\ ~(i < next')
    <3>1. TopicsOf[w][i] \in Topics
      BY TopicsAreTyped
    <3>2. stage'[TopicsOf[w][i]] # "articles"
      BY <1>4, <1>7, <3>1 DEF StageOf
    <3> QED BY <1>6, <3>2 DEF Index
  <2> QED BY <1>6, <2>1, <2>2 DEF AtWork, StageOf
<1>12. pc' \in Inside /\ at' = at /\ pc' # "next" /\ UNCHANGED <<run, report, plan>>
  BY <1>6 DEF Inside
<1>13. \A m \in Modules : m # w => Untouched(m)
  BY <1>10
<1> QED BY <1>0, <1>0a, <1>8, <1>9, <1>11, <1>12, <1>13, InsideKeeps

LEMMA MatchTopicInv == Inv /\ MatchTopic => Inv'
<1> SUFFICES ASSUME Inv, MatchTopic PROVE Inv'
  OBVIOUS
<1>0. pc = "match" /\ pc \in Inside
  BY DEF MatchTopic, Inside
<1>0a. PICK w \in Modules : w = plan[at]
  BY <1>0, AtModule
<1>1. Types /\ Noted /\ AtWork(w) /\ WorkTypes
  BY <1>0, <1>0a, AtModule
<1>1a. /\ next \in Nat \ {0} /\ errors \in BOOLEAN
       /\ moduleRun \in [Modules -> ModuleStatus \cup {"none"}]
       /\ stage \in [Topics -> TopicStage] /\ sections \in [Modules -> Section]
  BY <1>1 DEF WorkTypes
<1>2. T = TopicsOf[w][next] /\ next <= Len(TopicsOf[w])
  BY <1>0a DEF MatchTopic, More, T, Mine, M
<1>3. next \in Index(w)
  BY <1>1a, <1>2, TopicsAreTyped DEF Index
<1>4. /\ T \in Topics
      /\ \A m \in Modules : m # w =>
            \A i \in Index(m) : TopicsOf[m][i] \in Topics /\ TopicsOf[m][i] # T
      /\ \A i \in Index(w) : TopicsOf[w][i] \in Topics /\ (i # next => TopicsOf[w][i] # T)
  BY <1>2, <1>3, OneTopic
<1>5. /\ Honest(w) /\ sections[w].items = {}
      /\ \A i \in Index(w) : /\ StageOf(w, i) # "articles"
                             /\ i < next => StageOf(w, i) # "found"
  BY <1>0, <1>1 DEF AtWork
<1>6. /\ next' = next + 1
      /\ UNCHANGED <<run, moduleRun, report, pc, plan, at, status, sections,
                     answered, failed, refused, failures>>
  BY DEF MatchTopic, dbVars, healthVars
<1>7. \/ stage[T] # "found" /\ stage' = stage /\ errors' = errors
      \/ stage' = [stage EXCEPT ![T] = "recorded"] /\ errors' = errors
      \/ stage' = [stage EXCEPT ![T] = "lost"] /\ errors' = TRUE
  BY DEF MatchTopic
<1>8. errors' \in BOOLEAN /\ (errors => errors')
  <2>1. CASE errors' = errors
    BY <1>1a, <2>1
  <2>2. CASE errors' = TRUE
    BY <2>2
  <2> QED BY <1>7, <2>1, <2>2
<1>9. \/ stage' = stage /\ stage[T] # "found"
      \/ \E s \in {"recorded", "lost"} :
            stage' = [stage EXCEPT ![T] = s] /\ (s = "lost" => errors')
  BY <1>7
<1>10. WorkTypes' /\ (errors => errors')
  <2>1. stage' \in [Topics -> TopicStage]
    BY <1>1a, <1>9 DEF TopicStage
  <2>2. next' \in Nat \ {0}
    BY <1>1a, <1>6
  <2> QED BY <1>1, <1>6, <1>8, <2>1, <2>2 DEF WorkTypes
<1>11. Noted'
  <2>1. Degraded' <=> Degraded
    BY <1>6 DEF Degraded
  <2>2. ASSUME NEW u \in Topics PROVE stage'[u] \in {"mute", "lost"} => errors'
    <3>1. CASE stage'[u] = stage[u]
      BY <1>1, <1>8, <3>1 DEF Noted
    <3>2. CASE stage'[u] # stage[u]
      BY <1>1a, <1>9, <3>2
    <3> QED BY <3>1, <3>2
  <2> QED BY <1>1, <1>6, <2>1, <2>2 DEF Noted
<1>12. \A m \in Modules : m # w => Untouched(m)
  BY <1>1a, <1>4, <1>6, <1>9 DEF Untouched, StageOf, StatusOf
<1>13. ASSUME NEW i \in Index(w)
       PROVE  /\ stage'[TopicsOf[w][i]] # "articles"
              /\ i < next' => stage'[TopicsOf[w][i]] # "found"
  <2>1. CASE i = next
    <3>1. TopicsOf[w][i] = T
      BY <1>2, <2>1
    <3>2. stage[T] # "articles"
      BY <1>5, <1>2, <1>3 DEF StageOf
    <3> QED BY <1>1a, <1>4, <1>9, <3>1, <3>2
  <2>2. CASE i # next
    <3>1. stage'[TopicsOf[w][i]] = StageOf(w, i)
      BY <1>1a, <1>4, <1>9, <2>2 DEF StageOf
    <3>2. i < next' <=> i < next
      BY <1>1a, <1>6, <2>2 DEF Index
    <3> QED BY <1>5, <3>1, <3>2
  <2> QED BY <2>1, <2>2
<1>14. AtWork(w)'
  <2>1. Honest(w)' /\ sections'[w].items = {} /\ pc' = "match"
    BY <1>0, <1>5, <1>6 DEF Honest, StatusOf, Asked
  <2> QED BY <1>13, <2>1 DEF AtWork, StageOf
<1>15. pc' \in Inside /\ at' = at /\ pc' # "next" /\ UNCHANGED <<run, report, plan>>
  BY <1>0, <1>6
<1> QED BY <1>0, <1>0a, <1>10, <1>11, <1>12, <1>14, <1>15, InsideKeeps

LEMMA KeepItemsInv == Inv /\ KeepItems => Inv'
<1> SUFFICES ASSUME Inv, KeepItems PROVE Inv'
  OBVIOUS
<1>0. pc = "match" /\ pc \in Inside
  BY DEF KeepItems, Inside
<1>0a. PICK w \in Modules : w = plan[at]
  BY <1>0, AtModule
<1>1. Types /\ Noted /\ AtWork(w) /\ WorkTypes
  BY <1>0, <1>0a, AtModule
<1>1a. /\ next \in Nat \ {0} /\ errors \in BOOLEAN
       /\ moduleRun \in [Modules -> ModuleStatus \cup {"none"}]
       /\ stage \in [Topics -> TopicStage] /\ sections \in [Modules -> Section]
  BY <1>1 DEF WorkTypes
<1>2. Mine = TopicsOf[w] /\ M = w /\ ~(next <= Len(TopicsOf[w]))
  BY <1>0a DEF KeepItems, More, Mine, M
<1>3. \A i \in Index(w) : i < next
  BY <1>1a, <1>2, TopicsAreTyped DEF Index
<1>4. Honest(w) /\ \A i \in Index(w) : StageOf(w, i) \notin {"articles", "found"}
  BY <1>0, <1>1, <1>3 DEF AtWork
<1>5. PICK items \in Best(Recorded, MaxReportItems) :
         sections' = [sections EXCEPT ![w].items = items]
  BY <1>2 DEF KeepItems
<1>6. Recorded = {t \in Set(TopicsOf[w]) : stage[t] = "recorded"}
  BY <1>2 DEF Recorded
<1>7. items \subseteq Topics
  BY <1>6, BestIsPart, TopicsAreTyped
<1>8. /\ pc' = "summarise" /\ next' = next /\ errors' = errors
      /\ UNCHANGED <<run, moduleRun, report, plan, at, status, stage, answered, failed, refused, failures>>
  BY DEF KeepItems, Goto, dbVars, healthVars, noteVars
<1>9. /\ sections' \in [Modules -> Section]
      /\ sections'[w].items = items /\ sections'[w].coverage = sections[w].coverage
      /\ \A m \in Modules : m # w => sections'[m] = sections[m]
  BY <1>1a, <1>5, <1>7 DEF Section
<1>10. WorkTypes' /\ (errors => errors')
  BY <1>1, <1>1a, <1>8, <1>9 DEF WorkTypes
<1>11. Noted'
  <2>1. \A m \in Modules : sections'[m].coverage = sections[m].coverage
    BY <1>9
  <2> QED BY <1>1, <1>8, <2>1, NotedKeeps
<1>12. \A m \in Modules : m # w => Untouched(m)
  BY <1>8, <1>9 DEF Untouched, StageOf, StatusOf
<1>13. AtWork(w)'
  <2>1. Honest(w)'
    BY <1>4, <1>8, <1>9 DEF Honest, StatusOf, Asked
  <2>2. ItemsAreRecorded(w)'
    BY <1>6, <1>8, <1>9 DEF ItemsAreRecorded
  <2>3. \A i \in Index(w) : StageOf(w, i)' \notin {"articles", "found"}
    BY <1>4, <1>8 DEF StageOf
  <2> QED BY <1>8, <2>1, <2>2, <2>3 DEF AtWork
<1>14. pc' \in Inside /\ at' = at /\ pc' # "next" /\ UNCHANGED <<run, report, plan>>
  BY <1>8 DEF Inside
<1> QED BY <1>0, <1>0a, <1>10, <1>11, <1>12, <1>13, <1>14, InsideKeeps

LEMMA SummariseInv == Inv /\ Summarise => Inv'
<1> SUFFICES ASSUME Inv, Summarise PROVE Inv'
  OBVIOUS
<1>0. pc = "summarise" /\ pc \in Inside
  BY DEF Summarise, Inside
<1>0a. PICK w \in Modules : w = plan[at]
  BY <1>0, AtModule
<1>1. Types /\ Noted /\ AtWork(w) /\ WorkTypes
  BY <1>0, <1>0a, AtModule
<1>1a. /\ next \in Nat \ {0} /\ errors \in BOOLEAN
       /\ moduleRun \in [Modules -> ModuleStatus \cup {"none"}]
       /\ stage \in [Topics -> TopicStage] /\ sections \in [Modules -> Section]
  BY <1>1 DEF WorkTypes
<1>2. M = w
  BY <1>0a DEF M
<1>3. /\ Honest(w) /\ ItemsAreRecorded(w)
      /\ \A i \in Index(w) : StageOf(w, i) \notin {"articles", "found"}
  BY <1>0, <1>1 DEF AtWork
<1>4. \E x \in {"completed_with_warnings", "completed"} : moduleRun' = [moduleRun EXCEPT ![w] = x]
  BY <1>2 DEF Summarise
<1>4a. PICK x \in {"model_text", "no_news"} : sections' = [sections EXCEPT ![w].says = x]
  BY <1>2 DEF Summarise
<1>5. /\ pc' = "next" /\ at' = at + 1 /\ next' = next /\ errors' = errors
      /\ UNCHANGED <<run, report, plan, status, stage, answered, failed, refused, failures>>
  BY DEF Summarise, Goto, healthVars, noteVars
<1>6. /\ sections' \in [Modules -> Section]
      /\ sections'[w].items = sections[w].items /\ sections'[w].coverage = sections[w].coverage
      /\ \A m \in Modules : m # w => sections'[m] = sections[m]
  BY <1>1a, <1>4a DEF Section
<1>7. /\ moduleRun' \in [Modules -> ModuleStatus \cup {"none"}]
      /\ moduleRun'[w] \in {"completed_with_warnings", "completed"}
      /\ \A m \in Modules : m # w => moduleRun'[m] = moduleRun[m]
  BY <1>1a, <1>4 DEF ModuleStatus, ModuleTerminal
<1>8. WorkTypes' /\ (errors => errors')
  BY <1>1, <1>1a, <1>5, <1>6, <1>7 DEF WorkTypes
<1>9. Noted'
  <2>1. \A m \in Modules : sections'[m].coverage = sections[m].coverage
    BY <1>6
  <2> QED BY <1>1, <1>5, <2>1, NotedKeeps
<1>10. \A m \in Modules : m # w => Untouched(m)
  BY <1>5, <1>6, <1>7 DEF Untouched, StageOf, StatusOf
<1>11. Closed(w)'
  <2>1. Honest(w)'
    BY <1>3, <1>5, <1>6 DEF Honest, StatusOf, Asked
  <2>2. ItemsAreRecorded(w)'
    BY <1>3, <1>5, <1>6 DEF ItemsAreRecorded
  <2>3. \A i \in Index(w) : StageOf(w, i)' \notin {"articles", "found"}
    BY <1>3, <1>5 DEF StageOf
  <2> QED BY <1>7, <2>1, <2>2, <2>3 DEF Closed
<1>12. pc' \notin Inside /\ UNCHANGED <<run, report, plan>>
  BY <1>5 DEF Inside
<1> QED BY <1>0, <1>0a, <1>5, <1>8, <1>9, <1>10, <1>11, <1>12, InsideKeeps

LEMMA ModuleFailsInv == Inv /\ ModuleFails => Inv'
<1> SUFFICES ASSUME Inv, ModuleFails PROVE Inv'
  OBVIOUS
<1>0. pc \in Inside
  BY DEF ModuleFails, Inside
<1>0a. PICK w \in Modules : w = plan[at]
  BY <1>0, AtModule
<1>1. Types /\ Noted /\ AtWork(w) /\ WorkTypes
  BY <1>0, <1>0a, AtModule
<1>1a. /\ next \in Nat \ {0} /\ errors \in BOOLEAN
       /\ moduleRun \in [Modules -> ModuleStatus \cup {"none"}]
       /\ stage \in [Topics -> TopicStage] /\ sections \in [Modules -> Section]
  BY <1>1 DEF WorkTypes
<1>2. M = w
  BY <1>0a DEF M
<1>3. ItemsAreRecorded(w) \/ sections[w].items = {}
  <2>1. sections[w] = NewSection \/ sections[w].items = {} \/ ItemsAreRecorded(w)
    BY <1>1 DEF AtWork
  <2>2. NewSection.items = {}
    BY DEF NewSection
  <2> QED BY <2>1, <2>2
<1>4. /\ sections' = [sections EXCEPT ![w].says = "module_failed"]
      /\ moduleRun' = [moduleRun EXCEPT ![w] = "failed"]
      /\ pc' = "next" /\ at' = at + 1 /\ next' = next /\ errors' = TRUE
      /\ UNCHANGED <<run, report, plan, status, stage, answered, failed, refused, failures>>
  BY <1>2 DEF ModuleFails, Goto, healthVars
<1>5. /\ sections' \in [Modules -> Section]
      /\ sections'[w].items = sections[w].items /\ sections'[w].coverage = sections[w].coverage
      /\ \A m \in Modules : m # w => sections'[m] = sections[m]
  BY <1>1a, <1>4 DEF Section
<1>6. /\ moduleRun' \in [Modules -> ModuleStatus \cup {"none"}]
      /\ moduleRun'[w] = "failed"
      /\ \A m \in Modules : m # w => moduleRun'[m] = moduleRun[m]
  BY <1>1a, <1>4 DEF ModuleStatus, ModuleTerminal
<1>7. WorkTypes' /\ (errors => errors')
  <2>1. errors' \in BOOLEAN /\ (errors => errors')
    BY <1>4
  <2> QED BY <1>1, <1>1a, <1>4, <1>5, <1>6, <2>1 DEF WorkTypes
<1>8. Noted'
  <2>1. \A m \in Modules : sections'[m].coverage = sections[m].coverage
    BY <1>5
  <2> QED BY <1>1, <1>4, <1>7, <2>1, NotedKeeps
<1>9. \A m \in Modules : m # w => Untouched(m)
  BY <1>4, <1>5, <1>6 DEF Untouched, StageOf, StatusOf
<1>10. Closed(w)'
  <2>1. ItemsAreRecorded(w)' <=> ItemsAreRecorded(w)
    BY <1>4, <1>5 DEF ItemsAreRecorded
  <2>2. errors'
    BY <1>4
  <2> QED BY <1>3, <1>5, <1>6, <2>1, <2>2 DEF Closed
<1>11. pc' \notin Inside /\ UNCHANGED <<run, report, plan>>
  BY <1>4 DEF Inside
<1> QED BY <1>0, <1>0a, <1>4, <1>7, <1>8, <1>9, <1>10, <1>11, InsideKeeps

\* Every step keeps the invariant.
LEMMA NextInv == Inv /\ [Next]_vars => Inv'
<1> SUFFICES ASSUME Inv, [Next]_vars PROVE Inv'
  OBVIOUS
<1>1. CASE Step
  BY <1>1, BeginInv, PlanRunInv, NextModuleInv, ModuleRowUnreadInv, CollectTopicInv, CoverModuleInv,
     AnalyseTopicInv, StartMatchingInv, MatchTopicInv, KeepItemsInv, SummariseInv, ModuleFailsInv,
     ModuleHandlerFailsInv, SkipModuleInv, TransactionFailsInv, SynthesizeInv, PersistReportInv,
     ExportInv, FinishInv DEF Step
<1>2. CASE Cancel
  BY <1>2, CancelInv
<1>3. CASE UNCHANGED vars
  <2>0. UNCHANGED <<run, moduleRun, report, pc, plan, at, next, status, stage, sections,
                    answered, failed, refused, errors, failures>>
    BY <1>3 DEF vars
  <2>1. Types /\ TypeOK /\ Place /\ Noted /\ Filed /\ CompletedIsComplete
    BY DEF Inv, Types
  <2>2. TypeOK'
    BY <2>0, <2>1 DEF TypeOK
  <2>3. Types'
    BY <2>0, <2>1, <2>2 DEF Types
  <2>4. Place' /\ CompletedIsComplete'
    BY <2>0, <2>1 DEF Place, CompletedIsComplete
  <2>5. Noted'
    BY <2>0, <2>1, NotedKeeps
  <2>6. Filed'
    <3>1. Degraded' <=> Degraded
      BY <2>0 DEF Degraded
    <3> QED BY <2>0, <2>1, <3>1 DEF Filed
  <2>7. ASSUME NEW m \in Modules PROVE Progress(m)'
    <3>1. Progress(m)
      BY DEF Inv
    <3>2. Untouched(m)
      BY <2>0 DEF Untouched, StageOf, StatusOf
    <3>3. (Closed(m) => Closed(m)') /\ (Fresh(m) => Fresh(m)')
      BY <2>0, <3>2, UntouchedKeeps
    <3>4. (Behind(m)' <=> Behind(m)) /\ (Working(m)' <=> Working(m))
      BY <2>0 DEF Behind, Working
    <3>5. (ItemsAreRecorded(m)' <=> ItemsAreRecorded(m)) /\ (Honest(m)' <=> Honest(m))
      BY <2>0 DEF ItemsAreRecorded, Honest, StatusOf, Asked
    <3>6. AtWork(m) => AtWork(m)'
      BY <2>0, <3>5 DEF AtWork, StageOf, StatusOf, Asked
    <3> QED BY <2>0, <3>1, <3>3, <3>4, <3>6 DEF Progress
  <2> QED BY <2>3, <2>4, <2>5, <2>6, <2>7 DEF Inv
<1> QED BY <1>1, <1>2, <1>3 DEF Next

-----------------------------------------------------------------------------
(* What follows from it.                                                    *)

\* What the other theorems follow from: where the run is in its plan decides what each
\* module's row, section and topics may say, and whatever failed was noted.
THEOREM ClassicInvariant == Spec => []Inv
<1> QED BY InitInv, NextInv, PTL DEF Spec

\* A report is filed when every module of the plan is behind, and says what the
\* sections say.
LEMMA FiledIsClosed ==
    ASSUME Inv, report.filed, NEW m \in Set(plan)
    PROVE  m \in Modules /\ Closed(m) /\ report.sections = sections /\ report.degraded = Degraded
<1>1. Types /\ at > Len(plan) /\ report.sections = sections /\ report.degraded = Degraded
  BY DEF Inv, Filed
<1>2. PICK i \in 1 .. Len(plan) : m = plan[i]
  BY DEF Set
<1>3. m \in Modules /\ i < at
  BY <1>1, <1>2, PlanIsTyped
<1>4. Behind(m)
  BY <1>2, <1>3 DEF Behind
<1> QED BY <1>1, <1>3, <1>4 DEF Inv, Progress

\* The rows, payloads and counters of a run keep their types.
THEOREM ClassicTypes == Spec => []TypeOK
<1>1. Inv => TypeOK
  BY DEF Inv, Types
<1> QED BY <1>1, ClassicInvariant, PTL

\* report_generator.py:236-238: whatever failed, a module that completed and says that
\* there was nothing new has had an answer for every topic, and the banner of the report
\* admits whatever a section admits.
THEOREM SilenceIsHonest == Spec => []HonestSilence
<1>1. Inv => HonestSilence
  <2> SUFFICES ASSUME Inv, report.filed, NEW m \in Set(plan)
               PROVE  /\ Silent(m) /\ Asked # {} =>
                            \A t \in Set(TopicsOf[m]) : status[t] \in {"ok", "no_candidates"}
                      /\ report.sections[m].coverage \in {"failed", "partial"} => report.degraded
    BY DEF HonestSilence
  <2>1. m \in Modules /\ Closed(m) /\ report.sections = sections /\ report.degraded = Degraded
    BY FiledIsClosed
  <2>2. ASSUME Silent(m), Asked # {}
        PROVE  \A t \in Set(TopicsOf[m]) : status[t] \in {"ok", "no_candidates"}
    <3>1. moduleRun[m] = "completed" /\ sections[m].coverage \notin {"failed", "partial"}
      BY <2>1, <2>2 DEF Silent, EmptyText
    <3>2. \A i \in Index(m) : StatusOf(m, i) \in {"ok", "no_candidates"}
      BY <2>1, <2>2, <3>1 DEF Closed, Honest
    <3> QED BY <3>2 DEF Set, Index, StatusOf
  <2>3. report.sections[m].coverage \in {"failed", "partial"} => report.degraded
    BY <2>1 DEF Inv, Noted
  <2> QED BY <2>2, <2>3
<1> QED BY <1>1, ClassicInvariant, PTL

\* pipeline.py:941-946: a run that ends as completed has no topic whose sources all
\* failed, and no failure of the model or of storage cost it an analysis or a candidate.
THEOREM CompletedRunsAreComplete == Spec => []CompletedIsComplete
<1>1. Inv => CompletedIsComplete
  BY DEF Inv
<1> QED BY <1>1, ClassicInvariant, PTL

\* pipeline.py, _match_and_record and _run_module: whatever befalls one module, every
\* section holds observations recorded for its own topics, all of them or as many as
\* it may hold, unless its module failed before it had any.
THEOREM ItemsAlwaysReachReport == Spec => []ItemsReachReport
<1>1. Inv => ItemsReachReport
  <2> SUFFICES ASSUME Inv, report.filed, NEW m \in Set(plan)
               PROVE  \/ report.sections[m].items \in
                           Best({t \in Set(TopicsOf[m]) : stage[t] = "recorded"}, MaxReportItems)
                      \/ moduleRun[m] = "failed" /\ report.sections[m].items = {}
    BY DEF ItemsReachReport
  <2>1. Closed(m) /\ report.sections = sections
    BY FiledIsClosed
  <2> QED BY <2>1 DEF Closed, ItemsAreRecorded
<1> QED BY <1>1, ClassicInvariant, PTL
=============================================================================
