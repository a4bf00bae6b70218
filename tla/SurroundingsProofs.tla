------------------------- MODULE SurroundingsProofs -------------------------
(***************************************************************************)
(* Proofs about what surrounds a run: the schedule that starts it, the     *)
(* memory of events it writes to, and the monitoring configuration it      *)
(* reads.  They hold for any set of topics, threads, runs and names, any   *)
(* catalog and event vectors, any limits.  Part I: lists and selections,   *)
(* which the others share.  II: Scheduler.  III: Storylines.               *)
(* IV: Monitoring.  V: the tables of III and IV.                           *)
(***************************************************************************)
EXTENDS Scheduler, Storylines, Monitoring,
        FiniteSetTheorems, FunctionTheorems, WellFoundedInduction, TLAPS

-----------------------------------------------------------------------------
(* PART I.  Selections of a list: see Selection.                            *)

\* A position has fewer before it than a later one.
LEMMA BelowIsMonotone ==
    ASSUME NEW L \in Nat, NEW kept \in SUBSET (1..L)
    PROVE  /\ IsFiniteSet(kept) /\ Cardinality(kept) \in Nat
           /\ \A i \in kept : Cardinality(Below(kept, i)) \in 0..(Cardinality(kept) - 1)
           /\ \A i, k \in kept :
                 i < k => Cardinality(Below(kept, i)) < Cardinality(Below(kept, k))
<1>1. IsFiniteSet(1..L)
  BY FS_Interval
<1>2. IsFiniteSet(kept)
  BY <1>1, FS_Subset
<1>3. Cardinality(kept) \in Nat
  BY <1>2, FS_CardinalityType
<1>4. ASSUME NEW i \in kept
      PROVE  /\ IsFiniteSet(Below(kept, i)) /\ Cardinality(Below(kept, i)) \in Nat
             /\ Cardinality(Below(kept, i)) <= Cardinality(kept) - 1
  <2>1. Below(kept, i) \in SUBSET (kept \ {i})
    BY DEF Below
  <2>2. IsFiniteSet(kept \ {i}) /\ Cardinality(kept \ {i}) = Cardinality(kept) - 1
    BY <1>2, FS_RemoveElement
  <2>3. IsFiniteSet(Below(kept, i)) /\ Cardinality(Below(kept, i)) <= Cardinality(kept \ {i})
    BY <2>1, <2>2, FS_Subset
  <2> QED BY <2>2, <2>3, FS_CardinalityType
<1>5. ASSUME NEW i \in kept, NEW k \in kept, i < k
      PROVE  Cardinality(Below(kept, i)) < Cardinality(Below(kept, k))
  <2>1. i \in Nat /\ k \in Nat /\ \A j \in kept : j \in Nat
    OBVIOUS
  <2>2. \A j \in kept : j < i => j < k
    BY <2>1, <1>5
  <2>3. Below(kept, i) \cup {i} \in SUBSET Below(kept, k) /\ i \notin Below(kept, i)
    <3>1. ~(i < i)
      BY <2>1
    <3>2. \A j \in Below(kept, i) : j \in kept /\ j < k
      BY <2>2 DEF Below
    <3> QED BY <3>1, <3>2, <1>5 DEF Below
  <2>4. Cardinality(Below(kept, i) \cup {i}) = Cardinality(Below(kept, i)) + 1
    BY <2>3, <1>4, FS_AddElement
  <2>5. Cardinality(Below(kept, i) \cup {i}) <= Cardinality(Below(kept, k))
    BY <2>3, <1>4, FS_Subset
  <2>6. Cardinality(Below(kept, i)) \in Nat /\ Cardinality(Below(kept, k)) \in Nat
    BY <1>4
  <2> QED BY <2>4, <2>5, <2>6
<1> QED BY <1>2, <1>3, <1>4, <1>5

\* Positions are numbered in their order, without gaps.
LEMMA PositionsAreOrdered ==
    ASSUME NEW L \in Nat, NEW kept \in SUBSET (1..L)
    PROVE  /\ IsFiniteSet(kept) /\ Cardinality(kept) \in Nat
           /\ \A n \in 1..Cardinality(kept) : Position(kept, n) \in kept
           /\ \A m, n \in 1..Cardinality(kept) :
                 m < n => Position(kept, m) < Position(kept, n)
           /\ \A i \in kept : \E n \in 1..Cardinality(kept) : Position(kept, n) = i
<1> DEFINE N == Cardinality(kept)
<1> DEFINE Card(i) == Cardinality(Below(kept, i))
<1> DEFINE rank == [i \in kept |-> Card(i) + 1]
<1>1. /\ IsFiniteSet(kept) /\ N \in Nat
      /\ \A i \in kept : Card(i) \in 0..(N - 1)
      /\ \A i, k \in kept : i < k => Card(i) < Card(k)
  BY BelowIsMonotone
<1>2. \A i \in kept : i \in Nat
  OBVIOUS
<1> HIDE DEF N, Card
<1>3. \A i, k \in kept : Card(i) = Card(k) => i = k
  <2>1. \A i, k \in kept : i < k \/ i = k \/ k < i
    BY <1>2
  <2> QED BY <2>1, <1>1
<1>4. rank \in [kept -> 1..N] /\ \A i, k \in kept : rank[i] = rank[k] => i = k
  BY <1>1, <1>3
<1>5. \A i \in kept : rank[i] = Card(i) + 1
  OBVIOUS
<1> HIDE DEF rank
<1>6. rank \in Injection(kept, 1..N)
  BY <1>4, Fun_IsInj
<1>7. IsFiniteSet(1..N) /\ Cardinality(1..N) = N
  BY <1>1, FS_Interval
<1>8. rank \in Surjection(kept, 1..N)
  BY <1>6, <1>7, FS_Injection DEF N
<1>9. \A n \in 1..N : \E i \in kept : rank[i] = n
  BY <1>8, Fun_SurjectionProperties
<1>10. ASSUME NEW n \in 1..N
       PROVE  Position(kept, n) \in kept /\ Card(Position(kept, n)) = n - 1
  <2>1. \E i \in kept : Card(i) = n - 1
    <3>1. PICK i \in kept : rank[i] = n
      BY <1>9
    <3>2. Card(i) \in Nat /\ n = Card(i) + 1
      BY <3>1, <1>1, <1>5
    <3> QED BY <3>2
  <2> QED BY <2>1 DEF Position, Card
<1>11. ASSUME NEW m \in 1..N, NEW n \in 1..N, m < n
       PROVE  Position(kept, m) < Position(kept, n)
  <2>1. PICK i \in kept : i = Position(kept, m) /\ Card(i) = m - 1
    BY <1>10
  <2>2. PICK k \in kept : k = Position(kept, n) /\ Card(k) = n - 1
    BY <1>10
  <2>3. i < k \/ i = k \/ k < i
    BY <1>2
  <2> QED BY <2>1, <2>2, <2>3, <1>1, <1>11
<1>12. ASSUME NEW i \in kept PROVE \E n \in 1..N : Position(kept, n) = i
  <2>1. rank[i] \in 1..N /\ rank[i] - 1 = Card(i)
    BY <1>1, <1>4, <1>5
  <2>2. Position(kept, rank[i]) \in kept /\ Card(Position(kept, rank[i])) = Card(i)
    BY <2>1, <1>10
  <2> QED BY <2>1, <2>2, <1>3
<1> QED BY <1>1, <1>10, <1>11, <1>12 DEF N


\* A list: entries numbered from one.
Numbered(s) == Len(s) \in Nat /\ DOMAIN s = 1..Len(s)

\* The entries of a list are numbered from 1.
LEMMA ListIsNumbered ==
    ASSUME NEW s, IsList(s)
    PROVE  Numbered(s)
BY DEF IsList, Numbered

\* The smallest and the largest of some numbers.
LEMMA SmallestExists ==
    ASSUME NEW T \in SUBSET Nat, T # {}
    PROVE  \E x \in T : \A y \in T : x <= y
<1> DEFINE R == OpToRel(<, Nat)
<1>1. IsWellFoundedOn(R, Nat)
  BY NatLessThanWellFounded
<1>2. \A x, y \in Nat : x < y => <<x, y>> \in R
  BY DEF OpToRel
<1> HIDE DEF R
<1>3. PICK x \in T : \A y \in T : ~ (<<y, x>> \in R)
  BY <1>1, WFMin
<1>4. \A y \in T : ~(y < x)
  BY <1>2, <1>3
<1>5. \A y \in T : y \in Nat /\ x \in Nat
  OBVIOUS
<1> QED BY <1>4, <1>5

\* A finite set of positions that is not empty has a last one.
LEMMA LargestExists ==
    ASSUME NEW L \in Nat, NEW T \in SUBSET (1..L), T # {}
    PROVE  \E x \in T : \A y \in T : y <= x
<1>1. \A y \in T : y \in 1..L
  OBVIOUS
<1>2. \A y \in T : y \in Nat /\ L - y \in Nat
  BY <1>1
<1> DEFINE above == {L - y : y \in T}
<1>3. above \in SUBSET Nat /\ above # {}
  BY <1>2
<1>4. PICK m \in above : \A a \in above : m <= a
  BY <1>3, SmallestExists
<1>5. PICK x \in T : m = L - x
  BY <1>4
<1>6. \A y \in T : L - x <= L - y
  BY <1>4, <1>5
<1> QED BY <1>2, <1>6

\* A list given entry by entry.
LEMMA ListOf ==
    ASSUME NEW L \in Nat, NEW t, DOMAIN t = 1..L, t = [i \in 1..L |-> t[i]]
    PROVE  IsList(t) /\ Len(t) = L
<1>1. t \in Seq({t[i] : i \in 1..L})
  OBVIOUS
<1> QED BY <1>1 DEF IsList

\* A selection of a list is a list of the entries selected.
LEMMA KeepFacts ==
    ASSUME NEW s, NEW L \in Nat, NEW kept \in SUBSET (1..L)
    PROVE  /\ IsList(Keep(s, kept)) /\ DOMAIN Keep(s, kept) = 1..Cardinality(kept)
           /\ Cardinality(kept) \in Nat
           /\ \A n \in DOMAIN Keep(s, kept) :
                 /\ Position(kept, n) \in kept
                 /\ Keep(s, kept)[n] = s[Position(kept, n)]
<1>1. PICK N : N = Cardinality(kept)
  OBVIOUS
<1>2. N \in Nat /\ \A n \in 1..N : Position(kept, n) \in kept
  BY <1>1, PositionsAreOrdered
<1>3. PICK k : k = Keep(s, kept)
  OBVIOUS
<1>4. k = [n \in 1..N |-> s[Position(kept, n)]]
  BY <1>1, <1>3 DEF Keep
<1>5. DOMAIN k = 1..N /\ k = [n \in 1..N |-> k[n]]
  BY <1>4
<1>6. IsList(k)
  BY <1>2, <1>5, ListOf
<1> QED BY <1>1, <1>2, <1>3, <1>4, <1>5, <1>6

\* k holds entries of s from these positions.
Entries(k, s, kept) == IsList(k) /\ \A n \in DOMAIN k : \E i \in kept : k[n] = s[i]

LEMMA KeptEntries ==
    ASSUME NEW s, NEW L \in Nat, NEW kept \in SUBSET (1..L)
    PROVE  Entries(Keep(s, kept), s, kept)
<1>1. PICK k : k = Keep(s, kept)
  OBVIOUS
<1>2. IsList(k) /\ \A n \in DOMAIN k : Position(kept, n) \in kept /\ k[n] = s[Position(kept, n)]
  BY <1>1, KeepFacts
<1>3. Entries(k, s, kept)
  BY <1>2 DEF Entries
<1> QED BY <1>1, <1>3

\* k is the selection of s at these positions.
Selected(k, s, kept) ==
    /\ IsList(k) /\ DOMAIN k = 1..Cardinality(kept) /\ Cardinality(kept) \in Nat
    /\ \A n \in 1..Cardinality(kept) :
          Position(kept, n) \in kept /\ k[n] = s[Position(kept, n)]

LEMMA KeepSelects ==
    ASSUME NEW s, NEW L \in Nat, NEW kept \in SUBSET (1..L)
    PROVE  Selected(Keep(s, kept), s, kept)
<1>1. PICK k : k = Keep(s, kept)
  OBVIOUS
<1>2. /\ IsList(k) /\ DOMAIN k = 1..Cardinality(kept) /\ Cardinality(kept) \in Nat
      /\ \A n \in DOMAIN k : Position(kept, n) \in kept /\ k[n] = s[Position(kept, n)]
  BY <1>1, KeepFacts
<1>3. Selected(k, s, kept)
  BY <1>2 DEF Selected
<1> QED BY <1>1, <1>3

\* The first n entries of a list.
LEMMA TakeFacts ==
    ASSUME NEW s, IsList(s), NEW n \in Nat
    PROVE  /\ IsList(Take(s, n)) /\ Len(Take(s, n)) <= Len(s)
           /\ \A i \in DOMAIN Take(s, n) : i \in DOMAIN s /\ Take(s, n)[i] = s[i]
<1> DEFINE m == IF Len(s) < n THEN Len(s) ELSE n
<1> DEFINE S == {s[i] : i \in DOMAIN s}
<1>1. s \in Seq(S) /\ Len(s) \in Nat /\ DOMAIN s = 1..Len(s)
  BY DEF IsList
<1>2. m \in Nat /\ m <= Len(s)
  BY <1>1
<1>3. PICK t : t = Take(s, n)
  OBVIOUS
<1>4. t = SubSeq(s, 1, m)
  BY <1>3 DEF Take
<1> HIDE DEF m, S
<1>5. /\ t \in Seq(S) /\ Len(t) = m /\ DOMAIN t = 1..m
      /\ \A i \in 1..m : t[i] = s[i]
  BY <1>1, <1>2, <1>4
<1>6. IsList(t)
  BY <1>5 DEF IsList
<1> QED BY <1>1, <1>2, <1>3, <1>5, <1>6

\* One entry more at the end of a list.
LEMMA AppendFacts ==
    ASSUME NEW s, IsList(s), NEW x
    PROVE  /\ IsList(Append(s, x)) /\ Len(Append(s, x)) = Len(s) + 1 /\ Len(s) \in Nat
           /\ DOMAIN s = 1..Len(s) /\ DOMAIN Append(s, x) = 1..(Len(s) + 1)
           /\ \A i \in DOMAIN s : Append(s, x)[i] = s[i]
           /\ Append(s, x)[Len(s) + 1] = x
<1> DEFINE S == {s[i] : i \in DOMAIN s}
<1> DEFINE T == S \cup {x}
<1>1. s \in Seq(S)
  BY DEF IsList
<1>2. s \in Seq(T) /\ x \in T
  BY <1>1
<1> HIDE DEF S, T
<1>3. PICK t : t = Append(s, x)
  OBVIOUS
<1>4. /\ t \in Seq(T) /\ Len(t) = Len(s) + 1 /\ Len(s) \in Nat
      /\ DOMAIN s = 1..Len(s) /\ DOMAIN t = 1..(Len(s) + 1)
      /\ \A i \in 1..Len(s) : t[i] = s[i]
      /\ t[Len(s) + 1] = x
  BY <1>2, <1>3
<1>5. IsList(t)
  BY <1>4 DEF IsList
<1> QED BY <1>3, <1>4, <1>5

\* Nothing is a list.
LEMMA EmptyIsList == IsList(<<>>) /\ DOMAIN <<>> = {} /\ Len(<<>>) = 0
BY DEF IsList

-----------------------------------------------------------------------------
(* PART II.  The schedule: see Scheduler.                                   *)

-----------------------------------------------------------------------------
(* Type correctness.                                                        *)

LEMMA ParsedIsTime ==
    ASSUME NEW text \in Times \cup {BadTime}, NEW default \in Times
    PROVE  Parsed(text, default) \in Times
BY DEF Parsed

LEMMA ListedType ==
    ASSUME TypeOK
    PROVE  /\ Listed \in [Topics -> Times \cup {None}]
           /\ \A t \in Topics : topic[t].on => Listed[t] # None
<1>1. \A t \in Topics : Parsed(topic[t].time, TopicDefault) \in Times
  BY SchedulerAssumption, ParsedIsTime DEF TypeOK, Schedule
<1> QED BY <1>1, SchedulerAssumption DEF Listed

\* What a thread that is not reloading holds.
LEMMA NothingType ==
    /\ NothingSeen \in Schedule
    /\ NothingTodo \in [Topics -> Times \cup {None}]
BY DEF NothingSeen, NothingTodo, Schedule

LEMMA InitTypeOK == Init => TypeOK
<1> SUFFICES ASSUME Init PROVE TypeOK
  OBVIOUS
<1>1. topic \in [Topics -> Schedule]
  BY SchedulerAssumption DEF Init, Schedule
<1>2. seen \in [Threads -> Schedule] /\ todo \in [Threads -> [Topics -> Times \cup {None}]]
  BY NothingType DEF Init
<1>3. saves \in 0..MaxSaves /\ crashes \in 0..MaxCrashes
  BY SchedulerAssumption DEF Init
<1> QED BY <1>1, <1>2, <1>3 DEF Init, TypeOK

LEMMA ReloadTypeOK ==
    ASSUME TypeOK, NEW th \in Threads, Reload(th)
    PROVE  TypeOK'
<1> USE DEF TypeOK, rows, running
<1>1. CASE ReadSettings(th)
  BY <1>1 DEF ReadSettings
<1>2. CASE ReadFails(th)
  BY <1>2 DEF ReadFails
<1>3. CASE Clear(th)
  BY <1>3 DEF Clear
<1>4. CASE ListTopics(th)
  BY <1>4, ListedType DEF ListTopics
<1>5. CASE ListFails(th)
  BY <1>5 DEF ListFails
<1>6. CASE InstallTopic(th)
  BY <1>6 DEF InstallTopic, JobIds
<1>7. CASE InstallClassic(th)
  <2>1. Parsed(seen[th].time, ClassicDefault) \in Times
    BY SchedulerAssumption, ParsedIsTime DEF Schedule
  <2> QED BY <1>7, <2>1, NothingType DEF InstallClassic, JobIds
<1> QED BY <1>1, <1>2, <1>3, <1>4, <1>5, <1>6, <1>7 DEF Reload

LEMMA NextTypeOK == TypeOK /\ [Next]_vars => TypeOK'
<1> SUFFICES ASSUME TypeOK, [Next]_vars PROVE TypeOK'
  OBVIOUS
<1> USE SchedulerAssumption DEF TypeOK, rows, reloading, running
<1>1. ASSUME NEW th \in Requests, SaveClassic(th) PROVE TypeOK'
  BY <1>1 DEF SaveClassic, Served, Schedule, Threads
<1>2. ASSUME NEW th \in Requests, SaveTopic(th) PROVE TypeOK'
  BY <1>2 DEF SaveTopic, Served, Schedule, Threads
<1>3. ASSUME NEW th \in Threads, Reload(th) PROVE TypeOK'
  BY <1>3, ReloadTypeOK
<1>4. ASSUME NEW j \in JobIds, Fire(j) PROVE TypeOK'
  BY <1>4 DEF Fire, Schedule, JobIds
<1>5. ASSUME NEW j \in JobIds, StartRun(j) PROVE TypeOK'
  BY <1>5 DEF StartRun
<1>6. ASSUME NEW t \in Topics, CheckTopic(t) \/ SkipTopic(t) PROVE TypeOK'
  BY <1>6 DEF CheckTopic, SkipTopic, JobIds
<1>7. CASE RunEnds
  BY <1>7 DEF RunEnds
<1>8. CASE Crash
  <2>1. seen' \in [Threads -> Schedule] /\ todo' \in [Threads -> [Topics -> Times \cup {None}]]
    BY <1>8, NothingType DEF Crash
  <2>2. /\ jobs' \in [JobIds -> Times \cup {None}] /\ firing' \in [JobIds -> {"idle", "check", "start"}]
        /\ pc' \in [Threads -> {"idle", "read", "clear", "list", "install"}]
    BY <1>8 DEF Crash
  <2>3. crashes' \in 0..MaxCrashes /\ active' = None /\ failed' = FALSE /\ UNCHANGED <<rows, offered>>
    BY <1>8 DEF Crash
  <2> QED BY <2>1, <2>2, <2>3
<1>9. CASE UNCHANGED vars
  BY <1>9 DEF vars
<1> QED BY <1>1, <1>2, <1>3, <1>4, <1>5, <1>6, <1>7, <1>8, <1>9 DEF Next

\* The job table, the threads and the jobs that fired keep their types.
THEOREM SchedulerTypes == Spec => []TypeOK
BY InitTypeOK, NextTypeOK, PTL DEF Spec

-----------------------------------------------------------------------------
(* No topic is forgotten.                                                   *)

\* A thread that has yet to install topic t: it has yet to list the topics, or
\* it has listed t and not come to it.
WillInstall(th, t) ==
    \/ pc[th] \in {"read", "clear", "list"}
    \/ pc[th] = "install" /\ todo[th][t] # None

\* NoTopicForgotten before the reloads have come to rest.  It holds through a
\* Clear because the thread that clears has yet to list.
SomeoneRemembers ==
    ~failed => \A t \in Topics :
        topic[t].on => jobs[t] # None \/ \E th \in Threads : WillInstall(th, t)

LEMMA InitRemembers == Init => SomeoneRemembers
BY DEF Init, SomeoneRemembers, WillInstall, Threads

LEMMA ReloadRemembers ==
    ASSUME TypeOK, SomeoneRemembers, NEW th \in Threads, Reload(th)
    PROVE  SomeoneRemembers'
<1> SUFFICES ASSUME ~failed', NEW t \in Topics, topic'[t].on
             PROVE  jobs'[t] # None \/ \E u \in Threads : WillInstall(u, t)'
  BY DEF SomeoneRemembers
<1> USE DEF WillInstall, rows, running
<1>1. topic' = topic
  BY DEF Reload, ReadSettings, ReadFails, Clear, ListTopics, ListFails, InstallTopic,
         InstallClassic
<1>2. CASE ReadSettings(th)
  BY <1>2 DEF ReadSettings, TypeOK
<1>3. CASE ReadFails(th) \/ ListFails(th)
  BY <1>3 DEF ReadFails, ListFails
<1>4. CASE Clear(th)
  BY <1>4 DEF Clear, TypeOK
<1>5. CASE ListTopics(th)
  BY <1>1, <1>5, ListedType DEF ListTopics, TypeOK
<1>6. ASSUME InstallTopic(th) \/ InstallClassic(th), jobs[t] # None
      PROVE  jobs'[t] # None
  BY <1>6, SchedulerAssumption DEF InstallTopic, InstallClassic, TypeOK, JobIds
<1>7. ASSUME InstallTopic(th) \/ InstallClassic(th), NEW u \in Threads, WillInstall(u, t)
      PROVE  jobs'[t] # None \/ WillInstall(u, t)'
  BY <1>7, SchedulerAssumption DEF InstallTopic, InstallClassic, NothingTodo, TypeOK, JobIds
<1>8. CASE InstallTopic(th) \/ InstallClassic(th)
  BY <1>1, <1>6, <1>7, <1>8 DEF SomeoneRemembers, InstallTopic, InstallClassic
<1> QED BY <1>2, <1>3, <1>4, <1>5, <1>8 DEF Reload

LEMMA NextRemembers ==
    ASSUME TypeOK, SomeoneRemembers, [Next]_vars
    PROVE  SomeoneRemembers'
<1> USE DEF SomeoneRemembers, WillInstall, rows, reloading, running
<1>1. ASSUME NEW th \in Requests, SaveClassic(th) \/ SaveTopic(th)
      PROVE  SomeoneRemembers'
  <2>1. th \in Threads /\ pc'[th] = "read"
    BY <1>1 DEF SaveClassic, SaveTopic, TypeOK, Threads
  <2> QED BY <2>1
<1>2. ASSUME NEW th \in Threads, Reload(th) PROVE SomeoneRemembers'
  BY <1>2, ReloadRemembers
<1>3. ASSUME NEW j \in JobIds, Fire(j) \/ StartRun(j) PROVE SomeoneRemembers'
  BY <1>3 DEF Fire, StartRun
<1>4. ASSUME NEW t \in Topics, CheckTopic(t) \/ SkipTopic(t) PROVE SomeoneRemembers'
  BY <1>4 DEF CheckTopic, SkipTopic
<1>5. CASE RunEnds \/ UNCHANGED vars
  BY <1>5 DEF RunEnds, vars
<1>6. CASE Crash
  <2>1. Boot \in Threads /\ pc'[Boot] = "read"
    BY <1>6 DEF Crash, Threads
  <2> QED BY <2>1
<1> QED BY <1>1, <1>2, <1>3, <1>4, <1>5, <1>6 DEF Next

\* scheduler.py, reload: however many reloads overlapped, once they are done and none
\* of their reads failed, every topic that is switched on has a job.
THEOREM EveryTopicHasItsJob == Spec => []NoTopicForgotten
<1>1. SomeoneRemembers => NoTopicForgotten
  BY DEF SomeoneRemembers, NoTopicForgotten, AtRest, WillInstall
<1>2. TypeOK /\ SomeoneRemembers /\ [Next]_vars => SomeoneRemembers'
  BY NextRemembers
<1> QED BY SchedulerTypes, InitRemembers, <1>1, <1>2, PTL DEF Spec

-----------------------------------------------------------------------------
(* A stale job is harmless.                                                 *)

\* A job that has fired and will start its run has found its topic on, and a
\* job that is about to look will find it on only if it was on meanwhile.
LooksAgain ==
    \A t \in Topics :
        /\ firing[t] = "check" /\ topic[t].on => offered[t]
        /\ firing[t] = "start" => offered[t]

LEMMA NextLooksAgain ==
    ASSUME TypeOK, LooksAgain, [Next]_vars
    PROVE  LooksAgain'
<1> USE SchedulerAssumption DEF LooksAgain, rows, reloading, running, JobIds
<1>1. ASSUME NEW th \in Requests, SaveClassic(th) PROVE LooksAgain'
  BY <1>1 DEF SaveClassic
<1>2. ASSUME NEW th \in Requests, SaveTopic(th) PROVE LooksAgain'
  BY <1>2 DEF SaveTopic, TypeOK
<1>3. ASSUME NEW th \in Threads, Reload(th) PROVE LooksAgain'
  BY <1>3 DEF Reload, ReadSettings, ReadFails, Clear, ListTopics, ListFails, InstallTopic,
              InstallClassic
<1>4. ASSUME NEW j \in JobIds, Fire(j) PROVE LooksAgain'
  BY <1>4 DEF Fire, TypeOK
<1>5. ASSUME NEW j \in JobIds, StartRun(j) PROVE LooksAgain'
  BY <1>5 DEF StartRun, TypeOK
<1>6. ASSUME NEW t \in Topics, CheckTopic(t) \/ SkipTopic(t) PROVE LooksAgain'
  BY <1>6 DEF CheckTopic, SkipTopic, TypeOK
<1>7. CASE RunEnds \/ UNCHANGED vars
  BY <1>7 DEF RunEnds, vars
<1>8. CASE Crash
  BY <1>8 DEF Crash
<1> QED BY <1>1, <1>2, <1>3, <1>4, <1>5, <1>6, <1>7, <1>8 DEF Next

LEMMA OnlyOfferedTopicsStart ==
    ASSUME TypeOK, LooksAgain, [Next]_vars
    PROVE  \A t \in Topics : active # t /\ active' = t => offered[t]
<1> SUFFICES ASSUME NEW t \in Topics, active # t, active' = t PROVE offered[t]
  OBVIOUS
<1> USE SchedulerAssumption DEF running
<1>1. ASSUME NEW j \in JobIds, StartRun(j) PROVE offered[t]
  BY <1>1 DEF StartRun, LooksAgain
<1>2. ASSUME NEW th \in Threads, Reload(th) PROVE FALSE
  BY <1>2 DEF Reload, ReadSettings, ReadFails, Clear, ListTopics, ListFails, InstallTopic,
              InstallClassic
<1> QED BY <1>1, <1>2 DEF Next, SaveClassic, SaveTopic, Fire, CheckTopic, SkipTopic,
                         RunEnds, Crash, vars

\* scheduler.py, _scheduled_research_job: a job that outlived its topic's schedule
\* starts no run, whenever it fires and whatever is saved while it looks.
THEOREM NoStaleStart == Spec => StaleJobIsHarmless
<1>1. Init => LooksAgain
  BY DEF Init, LooksAgain, JobIds
<1>2. TypeOK /\ LooksAgain /\ [Next]_vars => LooksAgain'
  BY NextLooksAgain
<1>3. TypeOK /\ LooksAgain /\ [Next]_vars
        => [\A t \in Topics : active # t /\ active' = t => offered[t]]_vars
  BY OnlyOfferedTopicsStart
<1> QED BY SchedulerTypes, <1>1, <1>2, <1>3, PTL DEF Spec, StaleJobIsHarmless

-----------------------------------------------------------------------------
(* PART III.  The memory of events: see Storylines.                         *)

\* A share of at most the whole, in thousandths.
LEMMA ShareFacts ==
    ASSUME NEW w \in Nat, NEW a \in Nat, NEW m \in Nat, m # 0, a <= w * m
    PROVE  a \div m \in 0..w
<1>1. PICK q : q = a \div m
  OBVIOUS
<1>2. q \in Int
  BY <1>1
<1>3. m * q <= a /\ a < m * (q + 1)
  BY <1>1
<1>4. q <= w
  <2>1. SUFFICES ASSUME q >= w + 1 PROVE FALSE
    BY <1>2
  <2>2. m * q >= m * (w + 1)
    BY <2>1, <1>2
  <2> QED BY <2>2, <1>2, <1>3
<1>5. q >= 0
  <2>1. SUFFICES ASSUME q + 1 <= 0 PROVE FALSE
    BY <1>2
  <2>2. m * (q + 1) <= 0
    BY <2>1, <1>2
  <2> QED BY <2>2, <1>2, <1>3
<1> QED BY <1>1, <1>2, <1>4, <1>5

-----------------------------------------------------------------------------
(* Comparing two descriptions: see EventIdentity and EventMatcher.         *)

\* What the scores are computed from.
Comparable(c) ==
    /\ IsFiniteSet(c.title) /\ IsFiniteSet(c.summary) /\ IsFiniteSet(c.entities)
    /\ c.date \in Nat \cup {NoDate}

\* A score.
Thousandths == 0 .. 1000

LEMMA ScoresAreNumbers == \A x \in Thousandths : x \in Int
BY DEF Thousandths

\* The share of common words (token_overlap) is at most the whole.
LEMMA OverlapFacts ==
    ASSUME NEW a, IsFiniteSet(a), NEW b, IsFiniteSet(b)
    PROVE  Overlap(a, b) \in Thousandths
<1>1. CASE a = {} \/ b = {}
  BY <1>1 DEF Overlap, Thousandths
<1>2. CASE a # {} /\ b # {}
  <2>1. PICK k, l, n : k = Cardinality(a \cap b) /\ l = Cardinality(a) /\ n = Cardinality(b)
    OBVIOUS
  <2>2. /\ k \in Nat /\ l \in Nat /\ n \in Nat /\ k <= l /\ k <= n /\ l # 0 /\ n # 0
    <3>1. a \cap b \in SUBSET a /\ a \cap b \in SUBSET b
      OBVIOUS
    <3> QED BY <1>2, <2>1, <3>1, FS_Subset, FS_CardinalityType, FS_EmptySet
  <2>3. PICK m : m = Least(l, n)
    OBVIOUS
  <2>4. PICK x, w : w = 1000 /\ x = w * k
    OBVIOUS
  <2>5. m \in Nat /\ m # 0 /\ w \in Nat /\ x \in Nat /\ x <= w * m
    BY <2>2, <2>3, <2>4 DEF Least
  <2>6. Overlap(a, b) = x \div m
    BY <1>2, <2>1, <2>3, <2>4 DEF Overlap
  <2>7. x \div m \in 0..w
    BY <2>5, ShareFacts, Zenon
  <2> QED BY <2>4, <2>6, <2>7 DEF Thousandths
<1> QED BY <1>1, <1>2

\* So is the mixture of the three lexical shares.
LEMMA LexicalFacts ==
    ASSUME NEW c, Comparable(c), NEW e, Comparable(e)
    PROVE  LexicalScore(c, e) \in Thousandths
<1>1. PICK p, q : /\ p = Overlap(c.title, e.title)
                  /\ q = Overlap(c.title \cup c.summary, e.title \cup e.summary)
  OBVIOUS
<1>2. p \in Thousandths
  BY <1>1, OverlapFacts DEF Comparable
<1>3. q \in Thousandths
  <2>1. IsFiniteSet(c.title \cup c.summary) /\ IsFiniteSet(e.title \cup e.summary)
    BY FS_Union DEF Comparable
  <2> QED BY <1>1, <2>1, OverlapFacts
<1>4. (9 * q) \div 10 \in Thousandths
  BY <1>3 DEF Thousandths
<1>5. LexicalScore(c, e) = Greatest(p, (9 * q) \div 10)
  BY <1>1 DEF LexicalScore
<1> QED BY <1>2, <1>4, <1>5 DEF Greatest, Thousandths

\* So is the nearness of two dates.
LEMMA ClosenessFacts ==
    ASSUME NEW a \in Nat, NEW b \in Nat
    PROVE  Closeness(a, b) \in Thousandths
<1>1. PICK d : d = Least(Distance(a, b), Horizon)
  OBVIOUS
<1>2. Horizon \in Nat /\ Horizon # 0 /\ Horizon <= 1000 * Horizon
  BY IdentityAssumption
<1>3. Distance(a, b) \in Nat
  BY DEF Distance
<1>4. d \in 0..Horizon
  BY <1>1, <1>2, <1>3 DEF Least
<1>5. PICK x, w : w = 1000 /\ x = (Horizon - d) * w
  OBVIOUS
<1>6. w \in Nat /\ x \in Nat /\ x <= w * Horizon
  BY <1>2, <1>4, <1>5
<1>7. x \div Horizon \in 0..w
  BY <1>2, <1>6, ShareFacts, Zenon
<1>8. Closeness(a, b) = x \div Horizon
  BY <1>1, <1>5 DEF Closeness
<1> QED BY <1>5, <1>7, <1>8 DEF Thousandths

\* What each signal can add.
LEMMA Weights ==
    ASSUME NEW c, Comparable(c), NEW e, Comparable(e)
    PROVE  /\ ProductWeight(c, e) \in 0..460 /\ OrgWeight(c, e) \in 0..200
           /\ EntityWeight(c, e) \in 0..120 /\ TypeWeight(c, e) \in 0..100
           /\ DateWeight(c, e) \in 0..120
           /\ ~Related(c.product, e.product) =>
                 ProductWeight(c, e) = 0 /\ OrgWeight(c, e) <= 120
<1>1. /\ ProductWeight(c, e) \in 0..460
      /\ ~Related(c.product, e.product) => ProductWeight(c, e) = 0
  BY DEF ProductWeight, Related
<1>2. /\ OrgWeight(c, e) \in 0..200
      /\ ~Related(c.product, e.product) => OrgWeight(c, e) <= 120
  <2>1. PICK w : w = IF Related(c.product, e.product) THEN 200 ELSE 120
    OBVIOUS
  <2>2. OrgWeight(c, e) = IF Same(c.org, e.org) THEN w
                          ELSE IF Related(c.org, e.org) THEN (w * 3) \div 4 ELSE 0
    BY <2>1 DEF OrgWeight
  <2>3. w \in {200, 120} /\ (w * 3) \div 4 \in {150, 90} /\ (w = 120 => (w * 3) \div 4 = 90)
    BY <2>1
  <2> QED BY <2>1, <2>2, <2>3
<1>3. EntityWeight(c, e) \in 0..120
  <2>1. PICK k : k = Cardinality(c.entities \cap e.entities)
    OBVIOUS
  <2>2. k \in Nat
    <3>1. IsFiniteSet(c.entities \cap e.entities)
      BY FS_Subset DEF Comparable
    <3> QED BY <2>1, <3>1, FS_CardinalityType
  <2> QED BY <2>1, <2>2 DEF EntityWeight, Least
<1>4. TypeWeight(c, e) \in 0..100
  BY DEF TypeWeight
<1>5. DateWeight(c, e) \in 0..120
  <2>1. CASE Dated(c.date, e.date)
    <3>1. c.date \in Nat /\ e.date \in Nat
      BY <2>1 DEF Dated, Comparable
    <3>2. PICK k, x, y : x = c.date /\ y = e.date /\ k = Closeness(x, y)
      OBVIOUS
    <3>3. k \in Thousandths
      <4>1. x \in Nat /\ y \in Nat
        BY <3>1, <3>2
      <4>2. Closeness(x, y) \in Thousandths
        BY <4>1, ClosenessFacts, Zenon
      <4> QED BY <3>2, <4>2
    <3>4. (120 * k) \div 1000 \in 0..120
      BY <3>3 DEF Thousandths
    <3> QED BY <2>1, <3>2, <3>4 DEF DateWeight
  <2>2. CASE ~Dated(c.date, e.date)
    BY <2>2 DEF DateWeight
  <2> QED BY <2>1, <2>2
<1> QED BY <1>1, <1>2, <1>3, <1>4, <1>5

\* What may be one event beyond doubt.
Warranted(c, e) ==
    \/ SharesPage(c, e)
    \/ /\ Related(c.product, e.product)
       /\ c.type = e.type \/ {"", "other"} \cap {c.type, e.type} # {}

\* What a comparison says is in range, and strong only with a reason.
Sound(match, c, e, lexical) ==
    /\ match.score \in Thousandths /\ match.lexical = lexical
    /\ IsStrong(match) => Warranted(c, e)

\* What CompareIdentity says is sound.
LEMMA IdentityFacts ==
    ASSUME NEW c, Comparable(c), NEW e, Comparable(e), NEW lexical \in Thousandths
    PROVE  Sound(CompareIdentity(c, e, lexical), c, e, lexical)
<1>0. PICK match : match = CompareIdentity(c, e, lexical)
  OBVIOUS
<1>1. CASE SharesPage(c, e)
  <2>1. match = [score |-> 1000, conflicts |-> {}, lexical |-> lexical]
    BY <1>0, <1>1 DEF CompareIdentity
  <2> QED BY <1>0, <1>1, <2>1 DEF Warranted, Sound, Thousandths
<1>2. CASE ~SharesPage(c, e)
  <2>1. PICK p, o, n, t, d, l :
          /\ p = ProductWeight(c, e) /\ o = OrgWeight(c, e) /\ n = EntityWeight(c, e)
          /\ t = TypeWeight(c, e) /\ d = DateWeight(c, e) /\ l = (300 * lexical) \div 1000
    OBVIOUS
  <2>2. PICK sum, against : /\ sum = p + o + n + t + d + l
                            /\ against = Conflicts(c, e)
    OBVIOUS
  <2>3. match = [score |-> Least(1000, sum), conflicts |-> against, lexical |-> lexical]
    BY <1>0, <1>2, <2>1, <2>2 DEF CompareIdentity
  <2>4. /\ p \in 0..460 /\ o \in 0..200 /\ n \in 0..120 /\ t \in 0..100 /\ d \in 0..120
        /\ ~Related(c.product, e.product) => p = 0 /\ o <= 120
    BY <2>1, Weights
  <2>5. l \in 0..300
    BY <2>1 DEF Thousandths
  <2>6. Least(1000, sum) \in Thousandths /\ Least(1000, sum) <= sum
    BY <2>2, <2>4, <2>5 DEF Least, Thousandths
  <2>7. match.score = Least(1000, sum) /\ match.conflicts = against /\ match.lexical = lexical
    BY <2>3
  <2>8. ASSUME IsStrong(match) PROVE Warranted(c, e)
    <3>1. sum >= 820 /\ against = {}
      <4>1. Least(1000, sum) >= 820 /\ against = {}
        BY <2>7, <2>8 DEF IsStrong, StrongIdentity
      <4>2. PICK m \in 0..1000 : m = Least(1000, sum)
        BY <2>6 DEF Thousandths
      <4>3. m >= 820 /\ m <= sum
        BY <4>1, <4>2, <2>6
      <4>4. sum \in Nat
        BY ONLY <2>2, <2>4, <2>5
      <4> QED BY <4>1, <4>3, <4>4
    <3>2. Related(c.product, e.product)
      BY <3>1, <2>2, <2>4, <2>5
    <3>3. c.type = e.type \/ {"", "other"} \cap {c.type, e.type} # {}
      <4>1. ("type" \in IF c.type # e.type /\ {"", "other"} \cap {c.type, e.type} = {}
                        THEN {"type"} ELSE {}) => "type" \in against
        BY <2>2 DEF Conflicts
      <4> QED BY <3>1, <4>1
    <3> QED BY <3>2, <3>3 DEF Warranted
  <2> QED BY <1>0, <2>6, <2>7, <2>8 DEF Sound
<1> QED BY <1>1, <1>2

\* Sorting moves the entries about and loses none.
LEMMA BestFacts ==
    ASSUME NEW s, Numbered(s), NEW score, DOMAIN score = DOMAIN s,
           \A i \in DOMAIN s : score[i] \in Int
    PROVE  /\ IsList(Best(s, score)) /\ DOMAIN Best(s, score) = DOMAIN s
           /\ \A n \in DOMAIN s : \E i \in DOMAIN s : Best(s, score)[n] = s[i]
<1>1. PICK L \in Nat : DOMAIN s = 1..L /\ L = Len(s)
  BY DEF Numbered
<1> DEFINE Card(i) == Cardinality(Ahead(score, i))
<1> DEFINE rank == [i \in 1..L |-> Card(i) + 1]
<1>2. IsFiniteSet(1..L) /\ Cardinality(1..L) = L
  BY FS_Interval
<1>3. \A i \in 1..L : Ahead(score, i) \in SUBSET (1..L) /\ i \notin Ahead(score, i)
  BY <1>1 DEF Ahead
<1>4. \A i \in 1..L : Card(i) \in 0..(L - 1)
  <2> TAKE i \in 1..L
  <2>1. Ahead(score, i) \in SUBSET ((1..L) \ {i})
    BY <1>3
  <2>2. IsFiniteSet((1..L) \ {i}) /\ Cardinality((1..L) \ {i}) = L - 1
    BY <1>2, FS_RemoveElement
  <2>3. IsFiniteSet(Ahead(score, i)) /\ Cardinality(Ahead(score, i)) <= L - 1
    BY <2>1, <2>2, FS_Subset
  <2>4. Cardinality(Ahead(score, i)) \in Nat
    BY <2>3, FS_CardinalityType
  <2> QED BY <2>3, <2>4
<1>5. \A i, k \in 1..L : i \in Ahead(score, k) => Card(i) < Card(k)
  <2> TAKE i, k \in 1..L
  <2> HAVE i \in Ahead(score, k)
  <2>1. score[i] \in Int /\ score[k] \in Int /\ \A j \in 1..L : score[j] \in Int
    BY <1>1
  <2>2. Ahead(score, i) \subseteq Ahead(score, k)
    <3> SUFFICES ASSUME NEW j \in Ahead(score, i) PROVE j \in Ahead(score, k)
      OBVIOUS
    <3>1. j \in 1..L
      BY <1>3
    <3>2. score[j] > score[i] \/ (score[j] = score[i] /\ j < i)
      BY DEF Ahead
    <3>3. score[i] > score[k] \/ (score[i] = score[k] /\ i < k)
      BY DEF Ahead
    <3>4. score[j] > score[k] \/ (score[j] = score[k] /\ j < k)
      BY <2>1, <3>1, <3>2, <3>3
    <3> QED BY <1>1, <3>1, <3>4 DEF Ahead
  <2>3. Ahead(score, i) # Ahead(score, k)
    BY <1>3
  <2>4. IsFiniteSet(Ahead(score, k))
    BY <1>2, <1>3, FS_Subset
  <2>5. IsFiniteSet(Ahead(score, i))
    BY <1>2, <1>3, FS_Subset
  <2> QED BY <2>2, <2>3, <2>4, <2>5, FS_Subset, FS_CardinalityType
<1>6. \A i, k \in 1..L : i = k \/ i \in Ahead(score, k) \/ k \in Ahead(score, i)
  <2>1. \A i \in 1..L : score[i] \in Int
    BY <1>1
  <2> QED BY <1>1, <2>1 DEF Ahead
<1> HIDE DEF Card
<1>7. \A i, k \in 1..L : Card(i) = Card(k) => i = k
  BY <1>4, <1>5, <1>6
<1>8. rank \in [1..L -> 1..L] /\ \A i, k \in 1..L : rank[i] = rank[k] => i = k
  BY <1>4, <1>7
<1>9. \A i \in 1..L : rank[i] = Card(i) + 1
  OBVIOUS
<1> HIDE DEF rank
<1>10. PICK D : D = 1..L
  OBVIOUS
<1>11. rank \in Surjection(D, D)
  <2>1. rank \in Injection(D, D)
    BY <1>8, <1>10, Fun_IsInj
  <2>2. IsFiniteSet(D) /\ Cardinality(D) = Cardinality(D)
    BY <1>2, <1>10
  <2> QED BY <2>1, <2>2, FS_Injection
<1>12. \A n \in D : \E i \in D : rank[i] = n
  BY <1>11, Fun_SurjectionProperties
<1>13. ASSUME NEW n \in 1..L
       PROVE  Ranked(score, n) \in 1..L
  <2>1. PICK i \in 1..L : rank[i] = n
    BY <1>10, <1>12
  <2>2. Card(i) = n - 1
    BY <2>1, <1>4, <1>9
  <2> QED BY <1>1, <2>2 DEF Card, Ranked
<1>14. PICK b : b = Best(s, score)
  OBVIOUS
<1>15. b = [n \in 1..L |-> s[Ranked(score, n)]]
  BY <1>1, <1>14 DEF Best
<1>16. DOMAIN b = 1..L /\ \A n \in 1..L : \E i \in 1..L : b[n] = s[i]
  BY <1>13, <1>15
<1>17. b = [n \in 1..L |-> b[n]]
  BY <1>15
<1>18. IsList(b) /\ Len(b) = L
  BY <1>16, <1>17, ListOf
<1> QED BY <1>1, <1>14, <1>16, <1>18

-----------------------------------------------------------------------------
(* The rows of a memory, and what the matcher finds among them.            *)

\* A row of events, whatever it says.
IsRow(e) ==
    /\ e = [key |-> e.key, title |-> e.title, summary |-> e.summary, org |-> e.org,
            product |-> e.product, type |-> e.type, seen |-> e.seen,
            entities |-> e.entities, urls |-> e.urls, count |-> e.count]
    /\ IsFiniteSet(e.title) /\ IsFiniteSet(e.summary) /\ IsFiniteSet(e.entities)
    /\ e.seen \in Nat

EventsFit ==
    /\ IsList(events) /\ \A id \in DOMAIN events : IsRow(events[id])
    /\ IsList(recent) /\ \A n \in DOMAIN recent : recent[n] \in DOMAIN events
    /\ today \in Nat

\* What a story of the catalog holds.
LEMMA StoryFacts ==
    ASSUME NEW name \in DOMAIN Story
    PROVE  /\ Story[name].date \in Nat \cup {NoDate}
           /\ IsFiniteSet(Story[name].title) /\ IsFiniteSet(Story[name].summary)
           /\ IsFiniteSet(Story[name].entities)
BY StorylinesAssumption

\* The row of a new event is one.
LEMMA CreatedIsRow ==
    ASSUME EventsFit, NEW name \in DOMAIN Story
    PROVE  IsRow(Created(Story[name]))
<1>1. PICK s : s = Story[name]
  OBVIOUS
<1>2. PICK k, t, u : k = FreshKey(s.slug, Keys) /\ t = StoredType(s) /\ u = KeptUrls(s.urls)
  OBVIOUS
<1>3. Created(s) = [key |-> k, title |-> s.title, summary |-> s.summary, org |-> s.org,
                    product |-> s.product, type |-> t, seen |-> today,
                    entities |-> s.entities, urls |-> u, count |-> 1]
  BY <1>2 DEF Created
<1>4. IsFiniteSet(s.title) /\ IsFiniteSet(s.summary) /\ IsFiniteSet(s.entities)
  BY <1>1, StoryFacts
<1>5. PICK r : r = Created(s)
  OBVIOUS
<1>6. IsRow(r)
  BY <1>3, <1>4, <1>5 DEF IsRow, EventsFit
<1> QED BY <1>1, <1>5, <1>6

\* A row an item has been merged into is one.
LEMMA MergedIsRow ==
    ASSUME EventsFit, NEW name \in DOMAIN Story, NEW e, IsRow(e)
    PROVE  IsRow(MergeIdentity(e, Story[name]))
<1>1. PICK s : s = Story[name]
  OBVIOUS
<1>2. PICK o, p, t, u, n, k :
        /\ o = Filled(e.org, s.org, <<>>) /\ p = Filled(e.product, s.product, <<>>)
        /\ t = Filled(e.type, StoredType(s), {}) /\ u = MergedUrls(e.urls, s.urls)
        /\ n = e.entities \cup s.entities /\ k = e.count + 1
  OBVIOUS
<1>3. MergeIdentity(e, s) =
        [e EXCEPT !.org = o, !.product = p, !.type = t, !.entities = n, !.urls = u,
                  !.summary = s.summary, !.seen = today, !.count = k]
  BY <1>2 DEF MergeIdentity
<1>4. IsFiniteSet(s.summary) /\ IsFiniteSet(s.entities)
  BY <1>1, StoryFacts
<1>5. IsFiniteSet(n)
  BY <1>2, <1>4, FS_Union DEF IsRow
<1>6. PICK r : r = MergeIdentity(e, s)
  OBVIOUS
<1>7. IsRow(r)
  BY <1>3, <1>4, <1>5, <1>6 DEF IsRow, EventsFit
<1> QED BY <1>1, <1>6, <1>7

\* Rows and items can be compared.
LEMMA BothComparable ==
    /\ \A e : IsRow(e) => Comparable(Known(e))
    /\ \A name \in DOMAIN Story : Comparable(Candidate(Story[name]))
<1>1. ASSUME NEW e, IsRow(e) PROVE Comparable(Known(e))
  <2>1. PICK o, p, t : o = NameKey(e.org) /\ p = NameKey(e.product) /\ t = TypeKey(e.type, order)
    OBVIOUS
  <2>2. PICK k : k = Known(e)
    OBVIOUS
  <2>3. k = [title |-> e.title, summary |-> e.summary, org |-> o, product |-> p, type |-> t,
             date |-> e.seen, entities |-> e.entities, urls |-> e.urls]
    BY <2>1, <2>2 DEF Known
  <2>4. Comparable(k)
    BY <1>1, <2>3 DEF IsRow, Comparable
  <2> QED BY <2>2, <2>4
<1>2. ASSUME NEW name \in DOMAIN Story PROVE Comparable(Candidate(Story[name]))
  <2>1. PICK s : s = Story[name]
    OBVIOUS
  <2>2. PICK o, p, t : o = NameKey(s.org) /\ p = NameKey(s.product) /\ t = TypeKey(s.kind, order)
    OBVIOUS
  <2>3. PICK k : k = Candidate(s)
    OBVIOUS
  <2>4. k = [title |-> s.title, summary |-> s.summary, org |-> o, product |-> p, type |-> t,
             date |-> s.date, entities |-> s.entities, urls |-> s.urls]
    BY <2>2, <2>3 DEF Candidate
  <2>5. Comparable(k)
    BY <2>1, <2>4, StoryFacts DEF Comparable
  <2> QED BY <2>1, <2>3, <2>5
<1> QED BY <1>1, <1>2

\* The shortlist holds events that are stored.
LEMMA CandidateFacts ==
    ASSUME EventsFit
    PROVE  /\ Numbered(CandidateEvents)
           /\ \A n \in DOMAIN CandidateEvents :
                 /\ CandidateEvents[n].id \in DOMAIN events
                 /\ CandidateEvents[n].known = Known(events[CandidateEvents[n].id])
<1>1. PICK L \in Nat : L = Len(recent) /\ DOMAIN recent = 1..L
  BY ListIsNumbered DEF EventsFit, Numbered
<1>2. PICK kept : kept = {n \in DOMAIN recent : today - events[recent[n]].seen <= Lookback}
  OBVIOUS
<1>3. PICK reach : reach = Keep(recent, kept)
  OBVIOUS
<1>4. IsList(reach) /\ \A n \in DOMAIN reach : \E i \in kept : reach[n] = recent[i]
  <2>1. kept \in SUBSET (1..L)
    BY <1>1, <1>2
  <2>2. Entries(reach, recent, kept)
    BY <1>3, <2>1, KeptEntries
  <2> QED BY <2>2 DEF Entries
<1>5. \A n \in DOMAIN reach : reach[n] \in DOMAIN events
  BY <1>2, <1>4 DEF EventsFit
<1>6. PICK c : c = CandidateEvents
  OBVIOUS
<1>7. c = [n \in DOMAIN reach |-> [id |-> reach[n], known |-> Known(events[reach[n]])]]
  BY <1>2, <1>3, <1>6 DEF CandidateEvents
<1>8. ASSUME NEW n \in DOMAIN c
      PROVE  c[n].id \in DOMAIN events /\ c[n].known = Known(events[c[n].id])
  <2>1. PICK i, k : i = reach[n] /\ k = Known(events[i])
    OBVIOUS
  <2>2. c[n] = [id |-> i, known |-> k] /\ n \in DOMAIN reach
    BY <1>7, <2>1
  <2>3. c[n].id = i /\ c[n].known = k
    BY <2>2
  <2> QED BY <1>5, <2>1, <2>2, <2>3
<1>9. DOMAIN c = 1..Len(reach) /\ c = [n \in 1..Len(reach) |-> c[n]] /\ Len(reach) \in Nat
  BY <1>4, <1>7, ListIsNumbered DEF Numbered
<1>10. Numbered(c)
  BY <1>9, ListOf DEF Numbered
<1> QED BY <1>6, <1>8, <1>10

\* The shortlist holds known events, each with the comparison it earned.
LEMMA ShortlistFacts ==
    ASSUME EventsFit, NEW name \in DOMAIN Story, NEW list, list = ShortlistOf(Story[name])
    PROVE  /\ IsList(list)
           /\ \A n \in DOMAIN list :
                 /\ list[n].id \in DOMAIN events
                 /\ list[n].match.score \in Int /\ list[n].match.lexical \in Int
                 /\ IsStrong(list[n].match) =>
                       Warranted(Candidate(Story[name]), Known(events[list[n].id]))
<1>1. PICK c, all : c = Candidate(Story[name]) /\ all = CandidateEvents
  OBVIOUS
<1>2. /\ Numbered(all)
      /\ \A n \in DOMAIN all : /\ all[n].id \in DOMAIN events
                               /\ all[n].known = Known(events[all[n].id])
  BY <1>1, CandidateFacts
<1>3. PICK entries :
        entries = [n \in DOMAIN all |->
                     [id |-> all[n].id,
                      match |-> CompareIdentity(c, all[n].known, LexicalScore(c, all[n].known))]]
  OBVIOUS
<1>4. Comparable(c)
  BY <1>1, BothComparable
<1> DEFINE Good(x) ==
      /\ x.id \in DOMAIN events /\ x.match.score \in Int /\ x.match.lexical \in Int
      /\ IsStrong(x.match) => Warranted(c, Known(events[x.id]))
<1>5. ASSUME NEW n \in DOMAIN entries PROVE Good(entries[n])
  <2>1. PICK i, k : i = all[n].id /\ k = all[n].known
    OBVIOUS
  <2>2. n \in DOMAIN all /\ i \in DOMAIN events /\ k = Known(events[i])
    BY <1>2, <1>3, <2>1
  <2>3. Comparable(k)
    BY <2>2, BothComparable DEF EventsFit
  <2>4. PICK l : l = LexicalScore(c, k)
    OBVIOUS
  <2>5. l \in Thousandths
    BY <1>4, <2>3, <2>4, LexicalFacts
  <2>6. PICK m : m = CompareIdentity(c, k, l)
    OBVIOUS
  <2>7. entries[n] = [id |-> i, match |-> m]
    BY <1>3, <2>1, <2>2, <2>4, <2>6
  <2>8. m.score \in Thousandths /\ m.lexical = l /\ (IsStrong(m) => Warranted(c, k))
    <3>1. Sound(CompareIdentity(c, k, l), c, k, l)
      BY <1>4, <2>3, <2>5, IdentityFacts
    <3> QED BY <2>6, <3>1 DEF Sound
  <2>9. entries[n].id = i /\ entries[n].match = m
    BY <2>7
  <2>10. PICK x : x = entries[n]
    OBVIOUS
  <2>11. x.id = i /\ x.match = m
    BY <2>9, <2>10
  <2>12. m.score \in Int /\ m.lexical \in Int
    <3>1. m.score \in Thousandths /\ m.lexical \in Thousandths
      BY <2>5, <2>8, Zenon
    <3> QED BY <3>1, ScoresAreNumbers, Zenon
  <2>13. IsStrong(m) => Warranted(c, Known(events[i]))
    BY <2>2, <2>8
  <2>14. Good(x)
    BY <2>2, <2>11, <2>12, <2>13
  <2> QED BY <2>10, <2>14
<1>6. PICK L \in Nat : L = Len(all) /\ DOMAIN all = 1..L
  BY <1>2 DEF Numbered
<1>7. DOMAIN entries = 1..L
  BY <1>3, <1>6
<1>8. PICK kept : kept = {n \in DOMAIN entries :
                            \/ RankScore(entries[n].match) >= IdentityFloor
                            \/ entries[n].match.lexical >= LexicalFloor}
  OBVIOUS
<1>9. PICK worth : worth = Keep(entries, kept)
  OBVIOUS
<1>10. IsList(worth) /\ \A n \in DOMAIN worth : \E i \in kept : worth[n] = entries[i]
  <2>1. kept \in SUBSET (1..L)
    BY <1>7, <1>8
  <2>2. Entries(worth, entries, kept)
    BY <1>9, <2>1, KeptEntries
  <2> QED BY <2>2 DEF Entries
<1> HIDE DEF Good
<1>11. \A n \in DOMAIN worth : Good(worth[n])
  <2>1. \A i \in kept : Good(entries[i])
    BY <1>5, <1>8
  <2> QED BY <1>10, <2>1
<1>12. PICK score : score = [n \in DOMAIN worth |-> RankScore(worth[n].match)]
  OBVIOUS
<1>13. \A n \in DOMAIN worth : score[n] \in Int
  BY <1>11, <1>12 DEF Good, RankScore, Least
<1>14. PICK best : best = Best(worth, score)
  OBVIOUS
<1>15. /\ IsList(best) /\ DOMAIN best = DOMAIN worth
       /\ \A n \in DOMAIN worth : \E i \in DOMAIN worth : best[n] = worth[i]
  <2>1. DOMAIN score = DOMAIN worth
    BY <1>12
  <2>2. Numbered(worth)
    BY <1>10, ListIsNumbered
  <2> QED BY <1>13, <1>14, <2>1, <2>2, BestFacts
<1>16. list = Take(best, ShortlistLimit)
  <2>1. list = Shortlist(c, all)
    BY <1>1 DEF ShortlistOf
  <2> QED BY <2>1, <1>3, <1>8, <1>9, <1>12, <1>14 DEF Shortlist
<1>17. ShortlistLimit \in Nat
  BY MatcherAssumption
<1>18. IsList(list) /\ \A n \in DOMAIN list : n \in DOMAIN best /\ list[n] = best[n]
  BY <1>15, <1>16, <1>17, TakeFacts
<1>19. \A n \in DOMAIN list : Good(list[n])
  BY <1>11, <1>15, <1>18
<1> QED BY <1>1, <1>18, <1>19 DEF Good

\* What the matcher decides names a known event or none, and what identity alone
\* decides it has a reason for.
LEMMA DecisionFacts ==
    ASSUME EventsFit, NEW name \in DOMAIN Story, NEW answer, NEW list,
           list = ShortlistOf(Story[name]), NEW d, d = Decide(list, answer)
    PROVE  /\ d.event \in {0} \cup DOMAIN events
           /\ d.how = "identity" =>
                /\ d.event \in DOMAIN events
                /\ Warranted(Candidate(Story[name]), Known(events[d.event]))
<1>1. /\ IsList(list)
      /\ \A n \in DOMAIN list :
            /\ list[n].id \in DOMAIN events
            /\ list[n].match.score \in Int /\ list[n].match.lexical \in Int
            /\ IsStrong(list[n].match) =>
                  Warranted(Candidate(Story[name]), Known(events[list[n].id]))
  BY ShortlistFacts
<1>2. CASE list = <<>>
  BY <1>2 DEF Decide, NewEvent
<1>3. CASE list # <<>>
  <2>1. 1 \in DOMAIN list
    <3>1. PICK L \in Nat : L = Len(list) /\ DOMAIN list = 1..L
      BY <1>1, ListIsNumbered DEF Numbered
    <3>2. L # 0
      BY <1>1, <1>3, <3>1 DEF IsList
    <3> QED BY <3>1, <3>2
  <2>2. CASE IsStrong(list[1].match)
    <3>1. PICK i : i = list[1].id
      OBVIOUS
    <3>2. d = [event |-> i, how |-> "identity"]
      BY <1>3, <2>2, <3>1 DEF Decide, Match
    <3> QED BY <1>1, <2>1, <2>2, <3>1, <3>2
  <2>3. CASE ~IsStrong(list[1].match) /\ HasDecided(answer)
    <3>1. d = ModelDecision(list, answer)
      BY <1>3, <2>3 DEF Decide
    <3>2. CASE \E i \in DOMAIN list : list[i].id = answer.event
      <4>1. answer.event \in DOMAIN events
        BY <1>1, <3>2
      <4>2. PICK a : a = answer.event
        OBVIOUS
      <4> QED BY <3>1, <4>1, <4>2 DEF ModelDecision, Match, NewEvent
    <3>3. CASE ~\E i \in DOMAIN list : list[i].id = answer.event
      BY <3>1, <3>3 DEF ModelDecision, NewEvent
    <3> QED BY <3>2, <3>3
  <2>4. CASE ~IsStrong(list[1].match) /\ ~HasDecided(answer)
    <3>1. d = RuleDecision(list)
      BY <1>3, <2>4 DEF Decide
    <3>2. PICK score : score = [n \in DOMAIN list |-> list[n].match.lexical]
      OBVIOUS
    <3>3. DOMAIN score = DOMAIN list /\ \A n \in DOMAIN list : score[n] \in Int
      BY <1>1, <3>2
    <3>4. PICK b : b = Best(list, score)[1]
      OBVIOUS
    <3>5. PICK i \in DOMAIN list : b = list[i]
      <4>1. Numbered(list)
        BY <1>1, ListIsNumbered
      <4> QED BY <4>1, <2>1, <3>3, <3>4, BestFacts
    <3>6. PICK id : id = b.id
      OBVIOUS
    <3>7. id \in DOMAIN events
      BY <1>1, <3>5, <3>6
    <3>8. d = [event |-> id, how |-> "rules"] \/ d = [event |-> 0, how |-> "rules"]
      BY <3>1, <3>2, <3>4, <3>6 DEF RuleDecision, Match, NewEvent
    <3> QED BY <3>7, <3>8
  <2> QED BY <2>2, <2>3, <2>4
<1> QED BY <1>2, <1>3

-----------------------------------------------------------------------------
(* What every step keeps.                                                  *)

\* An observation belongs to a known event and was made by today.
ObservationsFit ==
    /\ IsList(obs)
    /\ \A o \in DOMAIN obs :
         /\ obs[o].event \in DOMAIN events
         /\ obs[o].date \in Nat /\ obs[o].date <= today

\* An item of the run or of a report names an observation and its event.
Points(item) == item.obs \in DOMAIN obs /\ obs[item.obs].event = item.event

\* An item is none of a report's, and new only if the report knows nothing of
\* its event.
FreshFor(item, report) ==
    \A i \in DOMAIN report.items :
      /\ report.items[i].obs # item.obs
      /\ item.label = "new" => report.items[i].event # item.event

RecordedFits ==
    /\ IsList(recorded)
    /\ \A k \in DOMAIN recorded :
         /\ Points(recorded[k])
         /\ \A n \in DOMAIN reports : FreshFor(recorded[k], reports[n])

\* A report has a number that was given out, shows what was observed by its day,
\* and nothing that an earlier report shows.
ReportsFit ==
    /\ filed \in Nat /\ DOMAIN reports \in SUBSET (1..filed)
    /\ \A n \in DOMAIN reports :
         /\ reports[n].date \in Nat /\ reports[n].date <= today
         /\ IsList(reports[n].items)
         /\ \A i \in DOMAIN reports[n].items :
              /\ Points(reports[n].items[i])
              /\ obs[reports[n].items[i].obs].date <= reports[n].date
    /\ \A m, n \in DOMAIN reports :
         m < n => /\ reports[m].date <= reports[n].date
                  /\ \A i \in DOMAIN reports[n].items : FreshFor(reports[n].items[i], reports[m])

MemoryFits == EventsFit /\ ObservationsFit /\ RecordedFits /\ ReportsFit

\* The empty memory is in order.
LEMMA MemoryBegins == MemoryInit => MemoryFits
<1> SUFFICES ASSUME MemoryInit PROVE MemoryFits
  OBVIOUS
<1>1. today \in Nat
  BY StorylinesAssumption DEF MemoryInit
<1> QED BY <1>1, EmptyIsList
        DEF MemoryInit, MemoryFits, EventsFit, ObservationsFit, RecordedFits, ReportsFit

\* Recording an item: the row it adds or merges, its observation, its entry.
LEMMA RecordKeepsEvents ==
    ASSUME MemoryFits, NEW name \in DOMAIN Story, NEW decision, RecordEvent(name, decision),
           decision.event \in {0} \cup DOMAIN events
    PROVE  /\ EventsFit'
           /\ DOMAIN events \in SUBSET DOMAIN events'
           /\ \E id \in DOMAIN events' :
                /\ obs' = Append(obs, Observation(name, id))
                /\ recorded' = Append(recorded, [event |-> id, obs |-> Len(obs) + 1,
                                   label |-> IF decision.event = 0 THEN "new" ELSE "updated",
                                   story |-> name, how |-> decision.how])
                /\ IF decision.event = 0 THEN id \notin DOMAIN events ELSE id = decision.event
                /\ recent' = ToFront(id)
<1>1. PICK id : id = IF decision.event = 0 THEN Len(events) + 1 ELSE decision.event
  OBVIOUS
<1>2. /\ obs' = Append(obs, Observation(name, id))
      /\ recorded' = Append(recorded, [event |-> id, obs |-> Len(obs) + 1,
                         label |-> IF decision.event = 0 THEN "new" ELSE "updated",
                         story |-> name, how |-> decision.how])
      /\ recent' = ToFront(id) /\ today' = today
  BY <1>1 DEF RecordEvent
<1>3. /\ IsList(events) /\ \A e \in DOMAIN events : IsRow(events[e])
      /\ IsList(recent) /\ \A n \in DOMAIN recent : recent[n] \in DOMAIN events
      /\ today \in Nat
  BY DEF MemoryFits, EventsFit
<1>4. Len(events) \in Nat /\ DOMAIN events = 1..Len(events)
  BY <1>3, ListIsNumbered DEF Numbered
<1>5. /\ IsList(events') /\ DOMAIN events \in SUBSET DOMAIN events' /\ id \in DOMAIN events'
      /\ \A e \in DOMAIN events' : IsRow(events'[e])
      /\ IF decision.event = 0 THEN id \notin DOMAIN events ELSE id = decision.event
  <2>1. CASE decision.event = 0
    <3>1. PICK row : row = Created(Story[name])
      OBVIOUS
    <3>2. IsRow(row)
      BY <3>1, CreatedIsRow DEF MemoryFits
    <3>3. events' = Append(events, row)
      BY <2>1, <3>1 DEF RecordEvent
    <3>4. /\ IsList(events') /\ DOMAIN events' = 1..(Len(events) + 1)
          /\ \A e \in DOMAIN events : events'[e] = events[e]
          /\ events'[Len(events) + 1] = row
      BY <1>3, <3>3, AppendFacts
    <3>5. \A e \in DOMAIN events' : e \in DOMAIN events \/ e = Len(events) + 1
      BY <1>4, <3>4
    <3>6. \A e \in DOMAIN events' : IsRow(events'[e])
      BY <1>3, <3>2, <3>4, <3>5
    <3>7. id \notin DOMAIN events /\ id \in DOMAIN events'
      BY <1>1, <1>4, <2>1, <3>4
    <3>8. DOMAIN events \in SUBSET DOMAIN events'
      BY <1>4, <3>4
    <3> QED BY <2>1, <3>4, <3>6, <3>7, <3>8
  <2>2. CASE decision.event # 0
    <3>1. id = decision.event /\ id \in DOMAIN events
      BY <1>1, <2>2
    <3>2. PICK row : row = MergeIdentity(events[id], Story[name])
      OBVIOUS
    <3>3. IsRow(row)
      BY <1>3, <3>1, <3>2, MergedIsRow DEF MemoryFits
    <3>4. events' = [events EXCEPT ![id] = row]
      BY <1>1, <2>2, <3>2 DEF RecordEvent
    <3>5. /\ DOMAIN events' = DOMAIN events
          /\ \A e \in DOMAIN events : events'[e] = IF e = id THEN row ELSE events[e]
      BY <1>3, <3>4 DEF IsList
    <3>6. events' = [e \in 1..Len(events) |-> events'[e]]
      BY <1>3, <1>4, <3>4 DEF IsList
    <3>7. IsList(events')
      BY <1>4, <3>5, <3>6, ListOf
    <3>8. \A e \in DOMAIN events' : IsRow(events'[e])
      BY <1>3, <3>3, <3>5
    <3> QED BY <2>2, <3>1, <3>5, <3>7, <3>8
  <2> QED BY <2>1, <2>2
<1>6. IsList(recent') /\ \A n \in DOMAIN recent' : recent'[n] \in DOMAIN events'
  <2>1. PICK L \in Nat : L = Len(recent) /\ DOMAIN recent = 1..L
    BY <1>3, ListIsNumbered DEF Numbered
  <2>2. PICK kept : kept = {n \in DOMAIN recent : recent[n] # id}
    OBVIOUS
  <2>3. PICK rest : rest = Keep(recent, kept)
    OBVIOUS
  <2>4. IsList(rest) /\ \A n \in DOMAIN rest : \E i \in kept : rest[n] = recent[i]
    <3>1. kept \in SUBSET (1..L)
      BY <2>1, <2>2
    <3>2. Entries(rest, recent, kept)
      BY <2>3, <3>1, KeptEntries
    <3> QED BY <3>2 DEF Entries
  <2>5. rest \in Seq(DOMAIN events')
    <3>1. \A n \in DOMAIN rest : rest[n] \in DOMAIN events'
      BY <1>3, <1>5, <2>2, <2>4
    <3> QED BY <2>4, <3>1 DEF IsList
  <2>6. PICK r : r = <<id>> \o rest
    OBVIOUS
  <2>7. r \in Seq(DOMAIN events')
    BY <1>5, <2>5, <2>6
  <2>8. recent' = r
    BY <1>2, <2>2, <2>3, <2>6 DEF ToFront
  <2> QED BY <2>7, <2>8 DEF IsList
<1>7. EventsFit'
  BY <1>2, <1>3, <1>5, <1>6 DEF EventsFit
<1> QED BY <1>2, <1>5, <1>7

\* An item that is recorded leaves the memory in order.
LEMMA RecordKeepsFits ==
    ASSUME MemoryFits, NEW name \in DOMAIN Story, NEW decision, RecordEvent(name, decision),
           decision.event \in {0} \cup DOMAIN events
    PROVE  MemoryFits'
<1>1. /\ EventsFit'
      /\ DOMAIN events \in SUBSET DOMAIN events'
      /\ \E id \in DOMAIN events' :
           /\ obs' = Append(obs, Observation(name, id))
           /\ recorded' = Append(recorded, [event |-> id, obs |-> Len(obs) + 1,
                              label |-> IF decision.event = 0 THEN "new" ELSE "updated",
                              story |-> name, how |-> decision.how])
           /\ IF decision.event = 0 THEN id \notin DOMAIN events ELSE id = decision.event
           /\ recent' = ToFront(id)
  BY RecordKeepsEvents
<1>2. PICK id, note, label, item, how :
        /\ id \in DOMAIN events'
        /\ note = Observation(name, id)
        /\ label = IF decision.event = 0 THEN "new" ELSE "updated"
        /\ how = decision.how
        /\ item = [event |-> id, obs |-> Len(obs) + 1, label |-> label,
                   story |-> name, how |-> how]
        /\ obs' = Append(obs, note) /\ recorded' = Append(recorded, item)
        /\ decision.event = 0 => id \notin DOMAIN events
  <2>1. PICK id \in DOMAIN events' :
           /\ obs' = Append(obs, Observation(name, id))
           /\ recorded' = Append(recorded, [event |-> id, obs |-> Len(obs) + 1,
                              label |-> IF decision.event = 0 THEN "new" ELSE "updated",
                              story |-> name, how |-> decision.how])
           /\ IF decision.event = 0 THEN id \notin DOMAIN events ELSE id = decision.event
    BY <1>1
  <2> QED BY <2>1
<1>3. note.event = id /\ note.date = today
  <2>1. PICK f, g, h : f = Story[name].summary /\ g = Story[name].figure /\ h = Story[name].correction
    OBVIOUS
  <2>2. note = [event |-> id, date |-> today, facts |-> f, figure |-> g, correction |-> h]
    BY <1>2, <2>1 DEF Observation
  <2> QED BY <2>2
<1>4. item.event = id /\ item.obs = Len(obs) + 1 /\ item.label = label
  BY <1>2
<1>5. /\ IsList(obs') /\ Len(obs) \in Nat /\ DOMAIN obs = 1..Len(obs)
      /\ DOMAIN obs' = 1..(Len(obs) + 1)
      /\ \A o \in DOMAIN obs : obs'[o] = obs[o]
      /\ obs'[Len(obs) + 1] = note
  BY <1>2, AppendFacts DEF MemoryFits, ObservationsFit
<1>6. /\ IsList(recorded') /\ Len(recorded) \in Nat /\ DOMAIN recorded = 1..Len(recorded)
      /\ DOMAIN recorded' = 1..(Len(recorded) + 1)
      /\ \A k \in DOMAIN recorded : recorded'[k] = recorded[k]
      /\ recorded'[Len(recorded) + 1] = item
  BY <1>2, AppendFacts DEF MemoryFits, RecordedFits
<1>7. today' = today /\ reports' = reports /\ filed' = filed
  BY DEF RecordEvent
<1>8. today \in Nat
  BY DEF MemoryFits, EventsFit
<1>9. /\ \A o \in DOMAIN obs : /\ obs[o].event \in DOMAIN events
                               /\ obs[o].date \in Nat /\ obs[o].date <= today
      /\ \A k \in DOMAIN recorded : /\ Points(recorded[k])
                                    /\ \A n \in DOMAIN reports : FreshFor(recorded[k], reports[n])
  BY DEF MemoryFits, ObservationsFit, RecordedFits
<1>10. ObservationsFit'
  <2>1. ASSUME NEW o \in DOMAIN obs'
        PROVE  obs'[o].event \in DOMAIN events' /\ obs'[o].date \in Nat /\ obs'[o].date <= today
    <3>1. CASE o \in DOMAIN obs
      BY <1>1, <1>5, <1>9, <3>1
    <3>2. CASE o \notin DOMAIN obs
      <4>1. o = Len(obs) + 1
        BY <1>5, <3>2
      <4>2. obs'[o].event = id /\ id \in DOMAIN events' /\ obs'[o].date = today
        BY <1>2, <1>3, <1>5, <4>1
      <4> QED BY <1>8, <4>2
    <3> QED BY <3>1, <3>2
  <2> QED BY <1>5, <1>7, <2>1 DEF ObservationsFit
<1>11. \A t : Points(t) => t.obs \in DOMAIN obs' /\ obs'[t.obs] = obs[t.obs] /\ obs'[t.obs].event = t.event
  BY <1>5 DEF Points
<1>12. \A n \in DOMAIN reports : \A i \in DOMAIN reports[n].items : Points(reports[n].items[i])
  BY DEF MemoryFits, ReportsFit
<1>13. ASSUME NEW n \in DOMAIN reports PROVE FreshFor(item, reports[n])
  <2> SUFFICES ASSUME NEW i \in DOMAIN reports[n].items
               PROVE  /\ reports[n].items[i].obs # item.obs
                      /\ item.label = "new" => reports[n].items[i].event # item.event
    BY DEF FreshFor
  <2>1. PICK t : t = reports[n].items[i]
    OBVIOUS
  <2>2. t.obs \in DOMAIN obs /\ obs[t.obs].event = t.event
    BY <1>12, <2>1 DEF Points
  <2>3. t.event \in DOMAIN events
    BY <1>9, <2>2
  <2>4. t.obs # Len(obs) + 1
    BY <1>5, <2>2
  <2>5. label = "new" => id \notin DOMAIN events
    BY <1>2
  <2> QED BY <1>4, <2>1, <2>3, <2>4, <2>5
<1>14. RecordedFits'
  <2>1. ASSUME NEW k \in DOMAIN recorded'
        PROVE  /\ recorded'[k].obs \in DOMAIN obs' /\ obs'[recorded'[k].obs].event = recorded'[k].event
               /\ \A n \in DOMAIN reports : FreshFor(recorded'[k], reports[n])
    <3>1. CASE k \in DOMAIN recorded
      BY <1>6, <1>9, <1>11, <3>1
    <3>2. CASE k \notin DOMAIN recorded
      <4>1. k = Len(recorded) + 1
        BY <1>6, <3>2
      <4>2. recorded'[k] = item
        BY <1>6, <4>1
      <4>3. item.obs \in DOMAIN obs' /\ obs'[item.obs].event = item.event
        BY <1>3, <1>4, <1>5
      <4> QED BY <1>13, <4>2, <4>3
    <3> QED BY <3>1, <3>2
  <2> QED BY <1>6, <1>7, <2>1 DEF RecordedFits, Points, FreshFor
<1>15. ReportsFit'
  <2>1. ASSUME NEW n \in DOMAIN reports, NEW i \in DOMAIN reports[n].items
        PROVE  /\ reports[n].items[i].obs \in DOMAIN obs'
               /\ obs'[reports[n].items[i].obs].event = reports[n].items[i].event
               /\ obs'[reports[n].items[i].obs].date <= reports[n].date
    <3>1. PICK t : t = reports[n].items[i]
      OBVIOUS
    <3>2. Points(t)
      BY <1>12, <3>1
    <3>3. obs[t.obs].date <= reports[n].date
      BY <3>1 DEF MemoryFits, ReportsFit
    <3> QED BY <1>11, <3>1, <3>2, <3>3
  <2>2. ReportsFit
    BY DEF MemoryFits
  <2> QED BY <1>7, <2>1, <2>2 DEF ReportsFit, Points, FreshFor
<1> QED BY <1>1, <1>10, <1>14, <1>15 DEF MemoryFits

\* So does a report that is published.
LEMMA PublishKeepsFits ==
    ASSUME MemoryFits, Publish
    PROVE  MemoryFits'
<1>1. PICK n \in Nat : n = filed + 1 /\ filed \in Nat
  BY DEF MemoryFits, ReportsFit
<1>2. /\ UNCHANGED <<engine, events, obs, recent, today, order>>
      /\ recorded' = <<>> /\ filed' = n
  BY <1>1 DEF Publish
<1>3. PICK r : r = Report
  OBVIOUS
<1>4. /\ DOMAIN reports' = DOMAIN reports \cup {n} /\ n \notin DOMAIN reports
      /\ DOMAIN reports \in SUBSET (1..filed)
      /\ reports'[n] = r /\ \A m \in DOMAIN reports : reports'[m] = reports[m]
  <2>1. reports' = [m \in DOMAIN reports \cup {n} |-> IF m = n THEN r ELSE reports[m]]
    BY <1>2, <1>3 DEF Publish
  <2>2. DOMAIN reports \in SUBSET (1..filed)
    BY DEF MemoryFits, ReportsFit
  <2>3. n \notin DOMAIN reports
    BY <1>1, <2>2
  <2> QED BY <2>1, <2>2, <2>3
<1>5. PICK list : list = [k \in DOMAIN recorded |->
                            [event |-> recorded[k].event, obs |-> recorded[k].obs,
                             label |-> recorded[k].label]]
  OBVIOUS
<1>6. r.date = today /\ r.items = list
  <2>1. r = [date |-> today, items |-> list]
    BY <1>3, <1>5 DEF Report
  <2> QED BY <2>1
<1>7. /\ DOMAIN list = DOMAIN recorded
      /\ \A k \in DOMAIN recorded : /\ list[k].event = recorded[k].event
                                    /\ list[k].obs = recorded[k].obs
                                    /\ list[k].label = recorded[k].label
  BY <1>5
<1>8. IsList(list)
  <2>1. PICK L \in Nat : DOMAIN recorded = 1..L
    BY ListIsNumbered DEF MemoryFits, RecordedFits, Numbered
  <2>2. DOMAIN list = 1..L /\ list = [k \in 1..L |-> list[k]]
    BY <1>5, <2>1
  <2> QED BY <2>2, ListOf
<1>9. \A k \in DOMAIN recorded : /\ Points(recorded[k])
                                 /\ \A m \in DOMAIN reports : FreshFor(recorded[k], reports[m])
  BY DEF MemoryFits, RecordedFits
<1>10. today \in Nat
  BY DEF MemoryFits, EventsFit
<1>11. EventsFit' /\ ObservationsFit'
  <2>1. EventsFit /\ ObservationsFit
    BY DEF MemoryFits
  <2> QED BY <1>2, <2>1 DEF EventsFit, ObservationsFit, IsRow
<1>12. RecordedFits'
  BY <1>2, EmptyIsList DEF RecordedFits
<1>13. ReportsFit'
  <2>1. \A m \in DOMAIN reports :
          /\ reports[m].date \in Nat /\ reports[m].date <= today
          /\ IsList(reports[m].items)
          /\ \A i \in DOMAIN reports[m].items :
               /\ Points(reports[m].items[i])
               /\ obs[reports[m].items[i].obs].date <= reports[m].date
    BY DEF MemoryFits, ReportsFit
  <2>2. \A i \in DOMAIN list : Points(list[i]) /\ obs[list[i].obs].date <= today
    <3> TAKE i \in DOMAIN list
    <3>1. PICK t, u : t = list[i] /\ u = recorded[i]
      OBVIOUS
    <3>2. t.event = u.event /\ t.obs = u.obs /\ Points(u)
      BY <1>7, <1>9, <3>1
    <3>3. \A o \in DOMAIN obs : obs[o].date <= today
      BY DEF MemoryFits, ObservationsFit
    <3> QED BY <3>1, <3>2, <3>3 DEF Points
  <2>3. \A m \in DOMAIN reports' :
          /\ reports'[m].date \in Nat /\ reports'[m].date <= today
          /\ IsList(reports'[m].items)
          /\ \A i \in DOMAIN reports'[m].items :
               /\ Points(reports'[m].items[i])
               /\ obs[reports'[m].items[i].obs].date <= reports'[m].date
    <3> TAKE m \in DOMAIN reports'
    <3>1. CASE m \in DOMAIN reports
      BY <1>4, <2>1, <3>1
    <3>2. CASE m = n
      BY <1>4, <1>6, <1>8, <1>10, <2>2, <3>2
    <3> QED BY <1>4, <3>1, <3>2
  <2>4. \A m, k \in DOMAIN reports :
          m < k => /\ reports[m].date <= reports[k].date
                   /\ \A i \in DOMAIN reports[k].items : FreshFor(reports[k].items[i], reports[m])
    BY DEF MemoryFits, ReportsFit
  <2>5. \A m \in DOMAIN reports, i \in DOMAIN list : FreshFor(list[i], reports[m])
    <3> TAKE m \in DOMAIN reports, i \in DOMAIN list
    <3>1. PICK t, u : t = list[i] /\ u = recorded[i]
      OBVIOUS
    <3>2. t.event = u.event /\ t.obs = u.obs /\ t.label = u.label /\ FreshFor(u, reports[m])
      BY <1>7, <1>9, <3>1
    <3> QED BY <3>1, <3>2 DEF FreshFor
  <2>6. \A m, k \in DOMAIN reports' :
          m < k => /\ reports'[m].date <= reports'[k].date
                   /\ \A i \in DOMAIN reports'[k].items : FreshFor(reports'[k].items[i], reports'[m])
    <3> SUFFICES ASSUME NEW m \in DOMAIN reports', NEW k \in DOMAIN reports', m < k
                 PROVE  /\ reports'[m].date <= reports'[k].date
                        /\ \A i \in DOMAIN reports'[k].items : FreshFor(reports'[k].items[i], reports'[m])
      OBVIOUS
    <3>1. m \in DOMAIN reports
      BY <1>1, <1>4
    <3>2. CASE k \in DOMAIN reports
      BY <1>4, <2>4, <3>1, <3>2
    <3>3. CASE k = n
      BY <1>4, <1>6, <2>1, <2>5, <3>1, <3>3
    <3> QED BY <1>4, <3>2, <3>3
  <2>7. filed' \in Nat /\ DOMAIN reports' \in SUBSET (1..filed')
    BY <1>1, <1>2, <1>4
  <2> QED BY <1>2, <2>3, <2>6, <2>7 DEF ReportsFit, Points, FreshFor
<1> QED BY <1>11, <1>12, <1>13 DEF MemoryFits

\* Failing forgets the run, a new day moves today on, deleting removes a report.
LEMMA OthersKeepFits ==
    ASSUME MemoryFits, FailRun \/ NextDay \/ Restart \/ DeleteReport \/ UNCHANGED memoryVars
    PROVE  MemoryFits'
<1> USE DEF EventsFit, ObservationsFit, RecordedFits, ReportsFit, Points, FreshFor, IsRow
<1>1. CASE FailRun
  BY <1>1, EmptyIsList DEF FailRun, MemoryFits
<1>2. CASE NextDay
  <2>1. today \in Nat /\ today' \in Nat /\ today < today'
    BY <1>2, StorylinesAssumption DEF NextDay, MemoryFits
  <2>2. \A d \in Nat : d <= today => d <= today'
    BY <2>1
  <2>3. /\ events' = events /\ obs' = obs /\ reports' = reports /\ filed' = filed
        /\ recent' = recent /\ recorded' = recorded
    BY <1>2 DEF NextDay
  <2>4. EventsFit' /\ RecordedFits'
    BY <2>1, <2>3 DEF MemoryFits
  <2>5. ObservationsFit'
    BY <2>2, <2>3 DEF MemoryFits
  <2>6. ReportsFit'
    BY <2>2, <2>3 DEF MemoryFits
  <2> QED BY <2>4, <2>5, <2>6 DEF MemoryFits
<1>3. CASE Restart
  BY <1>3 DEF Restart, MemoryFits
<1>4. CASE DeleteReport
  <2>1. PICK n \in DOMAIN reports : reports' = [m \in DOMAIN reports \ {n} |-> reports[m]]
    BY <1>4 DEF DeleteReport
  <2>2. DOMAIN reports' \in SUBSET DOMAIN reports /\ \A m \in DOMAIN reports' : reports'[m] = reports[m]
    BY <2>1
  <2>3. UNCHANGED <<engine, events, obs, filed, recent, today, recorded, order>>
    BY <1>4 DEF DeleteReport
  <2>4. EventsFit' /\ ObservationsFit'
    BY <2>3 DEF MemoryFits
  <2>5. RecordedFits'
    BY <2>2, <2>3 DEF MemoryFits
  <2>6. ReportsFit'
    BY <2>2, <2>3 DEF MemoryFits
  <2> QED BY <2>4, <2>5, <2>6 DEF MemoryFits
<1>5. CASE UNCHANGED memoryVars
  BY <1>5 DEF memoryVars, MemoryFits
<1> QED BY <1>1, <1>2, <1>3, <1>4, <1>5

\* So does every step.
LEMMA MemoryStep == MemoryFits /\ [MemoryNext]_memoryVars => MemoryFits'
<1> SUFFICES ASSUME MemoryFits, [MemoryNext]_memoryVars PROVE MemoryFits'
  OBVIOUS
<1>1. CASE Record
  <2>1. PICK name \in Items :
          \E answer \in Answers(ShortlistOf(Story[name])) :
             RecordEvent(name, Decide(ShortlistOf(Story[name]), answer))
    BY <1>1 DEF Record
  <2>2. PICK answer : RecordEvent(name, Decide(ShortlistOf(Story[name]), answer))
    BY <2>1
  <2>3. name \in DOMAIN Story
    BY DEF Items
  <2>4. PICK decision : decision = Decide(ShortlistOf(Story[name]), answer)
    OBVIOUS
  <2>5. decision.event \in {0} \cup DOMAIN events
    BY <2>3, <2>4, DecisionFacts DEF MemoryFits
  <2> QED BY <2>2, <2>3, <2>4, <2>5, RecordKeepsFits
<1>2. CASE Publish
  BY <1>2, PublishKeepsFits
<1>3. CASE FailRun \/ NextDay \/ Restart \/ DeleteReport \/ UNCHANGED memoryVars
  BY <1>3, OthersKeepFits
<1> QED BY <1>1, <1>2, <1>3 DEF MemoryNext

\* The memory is always in order: the invariant of the three theorems.
LEMMA MemoryIsSound == MemorySpec => []MemoryFits
<1> QED BY MemoryBegins, MemoryStep, PTL DEF MemorySpec

-----------------------------------------------------------------------------
(* What identity merges is warranted.                                      *)

\* What one step merges by identity has the support for it.
LEMMA StepIsWarranted ==
    ASSUME MemoryFits, [MemoryNext]_memoryVars,
           NEW n \in DOMAIN recorded' \ DOMAIN recorded, recorded'[n].how = "identity"
    PROVE  Warranted(Candidate(Story[recorded'[n].story]), Known(events[recorded'[n].event]))
<1>1. CASE Record
  <2>1. PICK name \in Items :
          \E answer \in Answers(ShortlistOf(Story[name])) :
             RecordEvent(name, Decide(ShortlistOf(Story[name]), answer))
    BY <1>1 DEF Record
  <2>2. PICK answer : RecordEvent(name, Decide(ShortlistOf(Story[name]), answer))
    BY <2>1
  <2>3. name \in DOMAIN Story
    BY DEF Items
  <2>4. PICK decision : decision = Decide(ShortlistOf(Story[name]), answer)
    OBVIOUS
  <2>5. /\ decision.event \in {0} \cup DOMAIN events
        /\ decision.how = "identity" =>
             /\ decision.event \in DOMAIN events
             /\ Warranted(Candidate(Story[name]), Known(events[decision.event]))
    BY <2>3, <2>4, DecisionFacts DEF MemoryFits
  <2>6. PICK id, label, how, item :
          /\ how = decision.how
          /\ id = IF decision.event = 0 THEN Len(events) + 1 ELSE decision.event
          /\ item = [event |-> id, obs |-> Len(obs) + 1, label |-> label,
                     story |-> name, how |-> how]
          /\ recorded' = Append(recorded, item)
    BY <2>2, <2>4 DEF RecordEvent
  <2>7. item.event = id /\ item.story = name /\ item.how = how
    BY <2>6
  <2>8. recorded'[n] = item
    <3>1. IsList(recorded)
      BY DEF MemoryFits, RecordedFits
    <3>2. /\ Len(recorded) \in Nat /\ DOMAIN recorded = 1..Len(recorded)
          /\ DOMAIN recorded' = 1..(Len(recorded) + 1)
          /\ recorded'[Len(recorded) + 1] = item
      BY <2>6, <3>1, AppendFacts
    <3>3. n = Len(recorded) + 1
      BY <3>2
    <3> QED BY <3>2, <3>3
  <2>9. decision.event \in DOMAIN events /\ decision.event # 0
    <3>1. DOMAIN events = 1..Len(events) /\ Len(events) \in Nat
      BY ListIsNumbered DEF MemoryFits, EventsFit, Numbered
    <3> QED BY <2>5, <2>6, <2>7, <2>8, <3>1
  <2> QED BY <2>5, <2>6, <2>7, <2>8, <2>9
<1>2. CASE Publish \/ FailRun
  BY <1>2, EmptyIsList DEF Publish, FailRun
<1>3. CASE NextDay \/ Restart \/ DeleteReport \/ UNCHANGED memoryVars
  BY <1>3 DEF NextDay, Restart, DeleteReport, memoryVars
<1> QED BY <1>1, <1>2, <1>3 DEF MemoryNext

\* The item that identity alone adds to a known event cites one of its pages or
\* is about its product and of no other kind (compare_identity and
\* EventMatcher.match): names of companies and people, dates and wording together
\* stay below the threshold, whatever the items say.
THEOREM IdentityOnlySupports == MemorySpec => MergeIsWarranted
<1> DEFINE Step ==
      \A n \in DOMAIN recorded' \ DOMAIN recorded :
        recorded'[n].how = "identity" =>
          LET e == Known(events[recorded'[n].event])
              c == Candidate(Story[recorded'[n].story])
          IN \/ SharesPage(c, e)
             \/ Related(c.product, e.product) /\ (c.type = e.type \/ {"", "other"} \cap {c.type, e.type} # {})
<1>1. ASSUME MemoryFits, [MemoryNext]_memoryVars PROVE Step
  BY <1>1, StepIsWarranted DEF Warranted
<1> HIDE DEF Step
<1>2. MemoryFits /\ [MemoryNext]_memoryVars => [Step]_memoryVars
  BY <1>1
<1>3. MemorySpec => [][Step]_memoryVars
  BY <1>2, MemoryIsSound, PTL DEF MemorySpec
<1> QED BY <1>3 DEF MergeIsWarranted, Step

-----------------------------------------------------------------------------
(* What the pages show.                                                    *)

\* The largest of some positive numbers, 0 of none.
LEMMA Max0Facts ==
    ASSUME NEW L \in Nat, NEW S \in SUBSET (1..L)
    PROVE  /\ Max0(S) \in S \cup {0}
           /\ S # {} => Max0(S) \in S
<1>1. \E n \in S \cup {0} : \A m \in S : m <= n
  <2>1. CASE S = {}
    BY <2>1
  <2>2. CASE S # {}
    BY <2>2, LargestExists
  <2> QED BY <2>1, <2>2
<1>2. Max0(S) \in S \cup {0} /\ \A m \in S : m <= Max0(S)
  BY <1>1 DEF Max0
<1>3. \A m \in S : ~(m <= 0)
  OBVIOUS
<1> QED BY <1>2, <1>3

\* The item that stands for an event in a report.
LEMMA ItemFacts ==
    ASSUME NEW report, IsList(report.items), NEW e \in EventsOf(report)
    PROVE  \E i \in DOMAIN report.items :
             ItemOf(report, e) = report.items[i] /\ report.items[i].event = e
<1>1. PICK L \in Nat : DOMAIN report.items = 1..L
  BY ListIsNumbered DEF Numbered
<1>2. PICK S : S = {i \in DOMAIN report.items : report.items[i].event = e}
  OBVIOUS
<1>3. S \in SUBSET (1..L) /\ S # {}
  BY <1>1, <1>2 DEF EventsOf
<1>4. Max0(S) \in S
  BY <1>3, Max0Facts
<1>5. ItemOf(report, e) = report.items[Max0(S)]
  BY <1>2 DEF ItemOf
<1> QED BY <1>2, <1>4, <1>5

\* The report that comes last of some, by date and then by number.
LEMMA LatestExists ==
    ASSUME NEW L \in Nat, NEW E \in SUBSET (1..L), E # {}, NEW date, NEW D \in Nat,
           \A m \in E : date[m] \in Nat /\ date[m] <= D
    PROVE  \E m \in E : \A k \in E : date[k] < date[m] \/ (date[k] = date[m] /\ k <= m)
<1> DEFINE short == {D - date[m] : m \in E}
<1>1. short \in SUBSET Nat /\ short # {}
  <2>1. \A m \in E : D - date[m] \in Nat
    OBVIOUS
  <2> QED BY <2>1
<1>2. PICK d \in short : \A x \in short : d <= x
  BY <1>1, SmallestExists
<1>3. PICK last \in E : d = D - date[last]
  BY <1>2
<1>4. \A k \in E : date[k] <= date[last]
  <2> TAKE k \in E
  <2>1. D - date[last] <= D - date[k]
    BY <1>2, <1>3
  <2> QED BY <2>1
<1> DEFINE same == {m \in E : date[m] = date[last]}
<1>5. same \in SUBSET (1..L) /\ same # {}
  OBVIOUS
<1>6. PICK m \in same : \A k \in same : k <= m
  BY <1>5, LargestExists
<1>7. m \in E /\ date[m] = date[last]
  OBVIOUS
<1>8. \A k \in E : date[k] < date[m] \/ (date[k] = date[m] /\ k <= m)
  <2> TAKE k \in E
  <2>1. CASE date[k] = date[last]
    BY <1>6, <1>7, <2>1
  <2>2. CASE date[k] # date[last]
    <3>1. date[k] \in Nat /\ date[last] \in Nat /\ date[k] <= date[last]
      BY <1>4
    <3> QED BY <1>7, <2>2, <3>1
  <2> QED BY <2>1, <2>2
<1> QED BY <1>7, <1>8

\* The base of a page: an earlier report of no later date.
LEMMA BaselineFacts ==
    ASSUME MemoryFits, NEW n \in DOMAIN reports, NEW topical \in BOOLEAN,
           Earlier(reports, n, topical) # {}
    PROVE  \E b \in DOMAIN reports :
             /\ Baseline(reports, n, topical) = b /\ b < n
             /\ reports[b].date <= reports[n].date
<1>1. PICK L \in Nat : L = filed /\ DOMAIN reports \in SUBSET (1..L)
  BY DEF MemoryFits, ReportsFit
<1>2. PICK E : E = Earlier(reports, n, topical)
  OBVIOUS
<1>3. E \in SUBSET (1..L) /\ E # {} /\ E \in SUBSET DOMAIN reports
  BY <1>1, <1>2 DEF Earlier
<1>4. PICK date : date = [m \in DOMAIN reports |-> reports[m].date]
  OBVIOUS
<1>5. today \in Nat /\ \A m \in DOMAIN reports : reports[m].date \in Nat /\ reports[m].date <= today
  BY DEF MemoryFits, EventsFit, ReportsFit
<1>6. \A m \in DOMAIN reports : date[m] = reports[m].date
  BY <1>4
<1>7. \A m \in E : date[m] \in Nat /\ date[m] <= today
  BY <1>3, <1>5, <1>6
<1>8. \E m \in E : \A k \in E : date[k] < date[m] \/ (date[k] = date[m] /\ k <= m)
  BY <1>3, <1>5, <1>7, LatestExists
<1>9. \E m \in E : \A k \in E :
         reports[k].date < reports[m].date \/ (reports[k].date = reports[m].date /\ k <= m)
  BY <1>3, <1>6, <1>8
<1>10. PICK b \in E : b = Baseline(reports, n, topical)
  BY <1>2, <1>9 DEF Baseline
<1>11. b \in DOMAIN reports
  BY <1>3
<1>12. reports[b].date < reports[n].date \/ (reports[b].date = reports[n].date /\ b < n)
  BY <1>2 DEF Earlier
<1>13. n < b => reports[n].date <= reports[b].date
  BY <1>11 DEF MemoryFits, ReportsFit
<1>14. b \in Nat /\ n \in Nat
  BY <1>1, <1>11
<1> QED BY <1>5, <1>10, <1>11, <1>12, <1>13, <1>14

\* A timeline that has two observations to choose from shows two.
LEMMA TimelineFacts ==
    ASSUME NEW L \in Nat, NEW T \in SUBSET (1..L), NEW a \in T, NEW b \in T, a # b
    PROVE  Cardinality({o \in T : Cardinality({p \in T : p > o}) < TimelineLimit}) > 1
<1>1. PICK x \in T : \A y \in T : y <= x
  BY LargestExists
<1>2. T \ {x} \in SUBSET (1..L) /\ T \ {x} # {}
  OBVIOUS
<1>3. PICK y \in T \ {x} : \A z \in T \ {x} : z <= y
  BY <1>2, LargestExists
<1>4. x \in Nat /\ y \in Nat /\ y < x /\ \A z \in T : z \in Nat
  BY <1>1
<1>5. {p \in T : p > x} = {}
  <2>1. \A p \in T : ~(p > x)
    BY <1>1, <1>4
  <2> QED BY <2>1
<1>6. {p \in T : p > y} = {x}
  <2>1. \A p \in T : p > y <=> p = x
    BY <1>3, <1>4
  <2> QED BY <2>1
<1>7. PICK shown : shown = {o \in T : Cardinality({p \in T : p > o}) < TimelineLimit}
  OBVIOUS
<1>8. Cardinality({}) = 0 /\ Cardinality({x}) = 1
  BY FS_EmptySet, FS_Singleton
<1>9. {x, y} \in SUBSET shown
  <2>1. x \in shown
    BY <1>5, <1>7, <1>8 DEF TimelineLimit
  <2>2. y \in shown
    BY <1>6, <1>7, <1>8 DEF TimelineLimit
  <2> QED BY <2>1, <2>2
<1>10. IsFiniteSet(shown)
  <2>1. IsFiniteSet(1..L)
    BY FS_Interval
  <2>2. shown \in SUBSET (1..L)
    BY <1>7
  <2> QED BY <2>1, <2>2, FS_Subset
<1>11. Cardinality({x, y}) = 2
  <2>1. IsFiniteSet({x}) /\ Cardinality({x}) = 1
    BY FS_Singleton
  <2>2. {x, y} = {x} \cup {y} /\ y \notin {x}
    BY <1>4
  <2>3. Cardinality({x} \cup {y}) = 2
    BY <2>1, <2>2, FS_AddElement
  <2> QED BY <2>2, <2>3
<1>12. Cardinality(shown) \in Nat /\ Cardinality({x, y}) <= Cardinality(shown)
  BY <1>9, <1>10, FS_Subset, FS_CardinalityType
<1> QED BY <1>7, <1>11, <1>12

\* What a comparison of an older report with a newer one says.
Sorted(diff, old, new) ==
    /\ DOMAIN diff = EventsOf(old) \cup EventsOf(new)
    /\ \A e \in DOMAIN diff :
         /\ diff[e] = "NEW" <=> e \notin EventsOf(old)
         /\ diff[e] = "RESOLVED" <=> e \notin EventsOf(new)

\* A comparison sorts the events of two reports into its groups.
LEMMA CompareFacts ==
    ASSUME NEW old, NEW new, NEW table, old.date <= new.date, old.date \in Nat, new.date \in Nat,
           NEW diff, diff = CompareReports(old, new, table)
    PROVE  Sorted(diff, old, new)
<1>1. diff = [e \in EventsOf(old) \cup EventsOf(new) |-> Classify(e, old, new, table)]
  <2>1. ~(old.date > new.date)
    OBVIOUS
  <2> QED BY <2>1 DEF CompareReports
<1>2. ASSUME NEW e \in DOMAIN diff
      PROVE  /\ diff[e] = "NEW" <=> e \notin EventsOf(old)
             /\ diff[e] = "RESOLVED" <=> e \notin EventsOf(new)
  <2>1. diff[e] = Classify(e, old, new, table) /\ e \in EventsOf(old) \cup EventsOf(new)
    BY <1>1
  <2>2. CASE e \notin EventsOf(old)
    BY <2>1, <2>2 DEF Classify
  <2>3. CASE e \in EventsOf(old) /\ e \notin EventsOf(new)
    BY <2>1, <2>3 DEF Classify
  <2>4. CASE e \in EventsOf(old) /\ e \in EventsOf(new)
    <3>1. diff[e] \in {"CORRECTION", "DATA_CHANGE", "UPDATED", "UNCHANGED"}
      BY <2>1, <2>4 DEF Classify
    <3> QED BY <2>4, <3>1
  <2> QED BY <2>2, <2>3, <2>4
<1> QED BY <1>1, <1>2 DEF Sorted

\* The changes page of a report repeats the labels of its items.
LEMMA PagesAgree == MemoryFits => PagesMatchLabels
<1> SUFFICES ASSUME MemoryFits, NEW n \in DOMAIN reports, Earlier(reports, n, OfTopic) # {},
                    NEW view, view = Changes(reports, n, OfTopic, obs)
             PROVE  /\ \A i \in DOMAIN reports[n].items :
                         reports[n].items[i].label = "new" => reports[n].items[i].event \in view.new
                    /\ \A e \in view.updated : Cardinality(Timeline(e, reports[n], obs)) > 1
  BY DEF PagesMatchLabels
<1>1. PICK topical \in BOOLEAN : topical = OfTopic
  BY DEF OfTopic
<1>2. PICK b \in DOMAIN reports : /\ Baseline(reports, n, topical) = b /\ b < n
                                  /\ reports[b].date <= reports[n].date
  BY <1>1, BaselineFacts
<1>3. PICK old, new : old = reports[b] /\ new = reports[n]
  OBVIOUS
<1>4. PICK diff : diff = CompareReports(old, new, obs)
  OBVIOUS
<1>5. view = [label \in DOMAIN ChangeGroups |-> Group(diff, label)]
  BY <1>1, <1>2, <1>3, <1>4 DEF Changes
<1>6. view.new = Group(diff, "new") /\ view.updated = Group(diff, "updated")
  <2>1. "new" \in DOMAIN ChangeGroups /\ "updated" \in DOMAIN ChangeGroups
    BY DEF ChangeGroups
  <2> QED BY <1>5, <2>1
<1>7. /\ old.date \in Nat /\ new.date \in Nat /\ old.date <= new.date
      /\ IsList(old.items) /\ IsList(new.items)
      /\ \A i \in DOMAIN old.items :
           Points(old.items[i]) /\ obs[old.items[i].obs].date <= old.date
      /\ \A i \in DOMAIN new.items :
           /\ Points(new.items[i]) /\ obs[new.items[i].obs].date <= new.date
           /\ FreshFor(new.items[i], old)
  BY <1>2, <1>3 DEF MemoryFits, ReportsFit
<1>8. /\ DOMAIN diff = EventsOf(old) \cup EventsOf(new)
      /\ \A e \in DOMAIN diff :
           /\ diff[e] = "NEW" <=> e \notin EventsOf(old)
           /\ diff[e] = "RESOLVED" <=> e \notin EventsOf(new)
  <2>1. Sorted(diff, old, new)
    BY <1>4, <1>7, CompareFacts
  <2> QED BY <2>1 DEF Sorted
<1>9. ASSUME NEW i \in DOMAIN new.items, new.items[i].label = "new"
      PROVE  new.items[i].event \in view.new
  <2>1. PICK e : e = new.items[i].event
    OBVIOUS
  <2>2. e \in EventsOf(new) /\ e \notin EventsOf(old)
    BY <1>7, <1>9, <2>1 DEF EventsOf, FreshFor
  <2>3. e \in DOMAIN diff /\ diff[e] = "NEW"
    BY <1>8, <2>2
  <2> QED BY <1>6, <2>1, <2>3 DEF Group, ChangeGroups
<1>10. ASSUME NEW e \in view.updated
       PROVE  Cardinality(Timeline(e, reports[n], obs)) > 1
  <2>1. e \in DOMAIN diff /\ diff[e] \in {"UPDATED", "DATA_CHANGE", "CORRECTION"}
    BY <1>6 DEF Group, ChangeGroups
  <2>2. e \in EventsOf(old) /\ e \in EventsOf(new)
    <3>1. diff[e] # "NEW" /\ diff[e] # "RESOLVED"
      BY <2>1
    <3> QED BY <1>8, <2>1, <3>1
  <2>3. PICK i, s : i \in DOMAIN old.items /\ s = old.items[i] /\ s.event = e
    BY <2>2 DEF EventsOf
  <2>4. PICK j, t : j \in DOMAIN new.items /\ t = new.items[j] /\ t.event = e
    BY <2>2 DEF EventsOf
  <2>5. PICK T : T = {o \in DOMAIN obs : obs[o].event = e /\ obs[o].date <= new.date}
    OBVIOUS
  <2>6. \A o \in DOMAIN obs : obs[o].date \in Nat
    BY DEF MemoryFits, ObservationsFit
  <2>7. s.obs \in T
    BY <1>7, <2>3, <2>5, <2>6 DEF Points
  <2>8. t.obs \in T
    BY <1>7, <2>4, <2>5 DEF Points
  <2>9. s.obs # t.obs
    BY <1>7, <2>3, <2>4 DEF FreshFor
  <2>10. PICK L \in Nat : DOMAIN obs = 1..L
    BY ListIsNumbered DEF MemoryFits, ObservationsFit, Numbered
  <2>11. T \in SUBSET (1..L)
    BY <2>5, <2>10
  <2>12. Cardinality({o \in T : Cardinality({p \in T : p > o}) < TimelineLimit}) > 1
    BY <2>7, <2>8, <2>9, <2>11, TimelineFacts
  <2>13. Timeline(e, reports[n], obs)
           = {o \in T : Cardinality({p \in T : p > o}) < TimelineLimit}
    BY <1>3, <2>5 DEF Timeline
  <2> QED BY <2>12, <2>13
<1> QED BY <1>3, <1>9, <1>10

\* Two dates compare the same way in both directions.
LEMMA ComparisonsAgree == MemoryFits => CompareIsSymmetric
<1> SUFFICES ASSUME MemoryFits, NEW a \in Days, NEW b \in Days,
                    NEW diff, diff = CompareDates(reports, a, b, obs),
                    NEW older, older = reports[ByDate(reports, IF a < b THEN a ELSE b)]
             PROVE  /\ diff = CompareDates(reports, b, a, obs)
                    /\ \A e \in DOMAIN diff :
                         /\ diff[e] = "RESOLVED" => e \in EventsOf(older)
                         /\ diff[e] = "NEW" => e \notin EventsOf(older)
  BY DEF CompareIsSymmetric
<1>1. PICK x, y : x = ByDate(reports, a) /\ y = ByDate(reports, b)
  OBVIOUS
<1>2. a \in Nat /\ b \in Nat
  BY StorylinesAssumption
<1>3. PICK L \in Nat : DOMAIN reports \in SUBSET (1..L)
  BY DEF MemoryFits, ReportsFit
<1>4. \A d : \/ ByDate(reports, d) = 0
             \/ ByDate(reports, d) \in DOMAIN reports /\ reports[ByDate(reports, d)].date = d
  <2> TAKE d
  <2>1. PICK S : S = {m \in DOMAIN reports : reports[m].date = d}
    OBVIOUS
  <2>2. S \in SUBSET (1..L)
    BY <1>3, <2>1
  <2>3. Max0(S) \in S \cup {0}
    BY <2>2, Max0Facts
  <2>4. ByDate(reports, d) = Max0(S)
    BY <2>1 DEF ByDate
  <2> QED BY <2>1, <2>3, <2>4
<1>5. CASE x = 0 \/ y = 0
  <2>1. diff = <<>> /\ CompareDates(reports, b, a, obs) = <<>>
    BY <1>1, <1>5 DEF CompareDates
  <2>2. DOMAIN diff = {}
    BY <2>1, EmptyIsList
  <2> QED BY <2>1, <2>2
<1>6. CASE x # 0 /\ y # 0
  <2>1. x \in DOMAIN reports /\ reports[x].date = a /\ y \in DOMAIN reports /\ reports[y].date = b
    BY <1>1, <1>4, <1>6
  <2>2. PICK p, q : p = reports[x] /\ q = reports[y]
    OBVIOUS
  <2>3. p.date = a /\ q.date = b
    BY <2>1, <2>2
  <2>4. /\ diff = CompareReports(p, q, obs)
        /\ CompareDates(reports, b, a, obs) = CompareReports(q, p, obs)
    BY <1>1, <1>6, <2>2 DEF CompareDates
  <2>5. CASE a < b
    <3>1. older = p
      BY <1>1, <2>2, <2>5
    <3>2. CompareReports(q, p, obs) = CompareReports(p, q, obs)
      BY <1>2, <2>3, <2>5 DEF CompareReports
    <3>3. Sorted(diff, p, q)
      BY <1>2, <2>3, <2>4, <2>5, CompareFacts
    <3> QED BY <2>4, <3>1, <3>2, <3>3 DEF Sorted
  <2>6. CASE b < a
    <3>1. older = q
      BY <1>1, <1>2, <2>2, <2>6
    <3>2. CompareReports(q, p, obs) = CompareReports(p, q, obs)
      BY <1>2, <2>3, <2>6 DEF CompareReports
    <3>3. Sorted(diff, q, p)
      BY <1>2, <2>3, <2>4, <2>6, <3>2, CompareFacts
    <3> QED BY <2>4, <3>1, <3>2, <3>3 DEF Sorted
  <2>7. CASE a = b
    <3>1. older = q /\ p = q
      BY <1>1, <1>2, <2>2, <2>7
    <3>2. Sorted(diff, q, q)
      BY <1>2, <2>3, <2>4, <3>1, CompareFacts
    <3> QED BY <2>4, <3>1, <3>2 DEF Sorted
  <2> QED BY <1>2, <2>5, <2>6, <2>7
<1> QED BY <1>5, <1>6

\* What a report calls new its changes page shows as new, what the page shows as
\* an update has two observations to compare, and two dates compare the same way
\* round (EventMatcher.match, _baseline, compare_dates and _timeline): of any
\* number of items, reports and days, with failed runs and deleted reports.
THEOREM PagesFollowMemory == MemorySpec => []ChangesMatchHistory
<1>1. MemoryFits => ChangesMatchHistory
  BY PagesAgree, ComparisonsAgree DEF ChangesMatchHistory
<1> QED BY <1>1, MemoryIsSound, PTL

-----------------------------------------------------------------------------
(* PART IV.  The monitoring configuration: see Monitoring.                  *)
(* A draft that has been validated: see DraftConfig.                       *)

\* Nothing occurs twice.
Distinct(keys) == \A i, j \in DOMAIN keys : keys[i] = keys[j] => i = j

\* Keeping the first ones, and keeping everything.
LEMMA KeepPrefix ==
    ASSUME NEW s, NEW k \in Nat
    PROVE  Keep(s, 1..k) = [n \in 1..k |-> s[n]]
<1>1. PICK all : all = 1..k
  OBVIOUS
<1>2. Cardinality(all) = k
  BY <1>1, FS_Interval
<1>3. \A i \in all : Cardinality(Below(all, i)) = i - 1
  <2> TAKE i \in all
  <2>1. Below(all, i) = 1..(i - 1)
    BY <1>1 DEF Below
  <2>2. i - 1 \in Nat
    BY <1>1
  <2> QED BY <2>1, <2>2, FS_Interval
<1>4. \A n \in all : Position(all, n) = n
  <2> TAKE n \in all
  <2>1. \A i \in all : i - 1 = n - 1 => i = n
    BY <1>1
  <2>2. \E i \in all : Cardinality(Below(all, i)) = n - 1
    BY <1>3
  <2>3. Position(all, n) \in all /\ Cardinality(Below(all, Position(all, n))) = n - 1
    BY <2>2 DEF Position
  <2> QED BY <1>3, <2>1, <2>3
<1>5. Keep(s, all) = [n \in 1..k |-> s[Position(all, n)]]
  BY <1>2 DEF Keep
<1>6. [n \in 1..k |-> s[Position(all, n)]] = [n \in 1..k |-> s[n]]
  BY <1>1, <1>4
<1> QED BY <1>1, <1>5, <1>6

LEMMA KeepAll ==
    ASSUME NEW s, IsList(s)
    PROVE  Keep(s, DOMAIN s) = s
<1>1. PICK L \in Nat : DOMAIN s = 1..L /\ s = [n \in 1..L |-> s[n]]
  BY DEF IsList
<1> QED BY <1>1, KeepPrefix

\* A list that is short enough is taken whole.
LEMMA TakeAll ==
    ASSUME NEW s, IsList(s), NEW n \in Nat, Len(s) <= n
    PROVE  Take(s, n) = s
<1>1. PICK L \in Nat : L = Len(s)
  BY DEF IsList
<1>2. Take(s, n) = SubSeq(s, 1, L)
  BY <1>1 DEF Take
<1> QED BY <1>1, <1>2 DEF IsList

\* Of keys that differ, every one is a first one.
LEMMA FirstsOfDistinct ==
    ASSUME NEW keys, IsList(keys), Distinct(keys)
    PROVE  Firsts(keys) = DOMAIN keys
<1>1. PICK L \in Nat : DOMAIN keys = 1..L
  BY ListIsNumbered DEF Numbered
<1>2. ASSUME NEW i \in 1..L, NEW j \in 1..(i - 1) PROVE keys[j] # keys[i]
  <2>1. j \in 1..L /\ j # i
    OBVIOUS
  <2> QED BY <1>1, <2>1 DEF Distinct
<1> QED BY <1>1, <1>2 DEF Firsts

\* The entries a validation keeps: a part of the list, of distinct keys, and not
\* empty if the list is not.
Part(u, s, keys) ==
    /\ IsList(u)
    /\ \A n \in DOMAIN u : \E i \in DOMAIN s : u[n] = s[i]
    /\ \A m, n \in DOMAIN u : \A i, j \in DOMAIN s :
          u[m] = s[i] /\ u[n] = s[j] /\ keys[i] = keys[j] => m = n

\* Dropping repetitions leaves a part with distinct keys.
LEMMA FirstOfFacts ==
    ASSUME NEW s, IsList(s), NEW keys, IsList(keys), DOMAIN keys = DOMAIN s,
           \A i, j \in DOMAIN s : s[i] = s[j] => keys[i] = keys[j]
    PROVE  /\ Part(FirstOf(s, keys), s, keys)
           /\ s # <<>> => FirstOf(s, keys) # <<>>
<1>1. PICK L \in Nat : L = Len(s) /\ DOMAIN s = 1..L
  BY ListIsNumbered DEF Numbered
<1>2. PICK kept : kept = Firsts(keys)
  OBVIOUS
<1>3. kept \in SUBSET (1..L)
  BY <1>1, <1>2 DEF Firsts
<1>4. PICK u, N : u = FirstOf(s, keys) /\ N = Cardinality(kept)
  OBVIOUS
<1>5. /\ IsList(u) /\ DOMAIN u = 1..N /\ N \in Nat
      /\ \A n \in 1..N : Position(kept, n) \in kept /\ u[n] = s[Position(kept, n)]
  <2>1. Selected(Keep(s, kept), s, kept)
    BY <1>3, KeepSelects
  <2>2. u = Keep(s, kept)
    BY <1>2, <1>4 DEF FirstOf
  <2>3. Selected(u, s, kept)
    BY <2>1, <2>2
  <2> QED BY <1>4, <2>3 DEF Selected
<1>6. \A m, n \in 1..N : m < n => Position(kept, m) < Position(kept, n)
  BY <1>3, <1>4, PositionsAreOrdered
<1>7. \A i, j \in kept : i < j => keys[i] # keys[j]
  <2> SUFFICES ASSUME NEW i \in kept, NEW j \in kept, i < j PROVE keys[i] # keys[j]
    OBVIOUS
  <2>1. i \in 1..(j - 1) /\ \A k \in 1..(j - 1) : keys[k] # keys[j]
    BY <1>2, <1>3 DEF Firsts
  <2> QED BY <2>1
<1>8. \A m, n \in 1..N : m < n => keys[Position(kept, m)] # keys[Position(kept, n)]
  BY <1>5, <1>6, <1>7
<1>9. ASSUME NEW m \in DOMAIN u, NEW n \in DOMAIN u, NEW i \in DOMAIN s, NEW j \in DOMAIN s,
             u[m] = s[i], u[n] = s[j], keys[i] = keys[j]
      PROVE  m = n
  <2>1. PICK p, q : p = Position(kept, m) /\ q = Position(kept, n)
    OBVIOUS
  <2>2. p \in DOMAIN s /\ q \in DOMAIN s /\ s[p] = s[i] /\ s[q] = s[j]
    BY <1>1, <1>3, <1>5, <1>9, <2>1
  <2>3. keys[p] = keys[q]
    BY <1>9, <2>2
  <2>4. ~(m < n) /\ ~(n < m)
    BY <1>5, <1>8, <2>1, <2>3
  <2> QED BY <1>5, <2>4
<1>10. Part(u, s, keys)
  <2>1. \A n \in DOMAIN u : \E i \in DOMAIN s : u[n] = s[i]
    BY <1>1, <1>3, <1>5
  <2> QED BY <1>5, <1>9, <2>1 DEF Part
<1>11. ASSUME s # <<>> PROVE u # <<>>
  <2>1. L # 0
    BY <1>1, <1>11 DEF IsList
  <2>2. 1 \in kept
    BY <1>1, <1>2, <2>1 DEF Firsts
  <2>3. N # 0
    <3>1. \E n \in 1..N : Position(kept, n) = 1
      BY <1>3, <1>4, <2>2, PositionsAreOrdered
    <3> QED BY <3>1
  <2>4. 1 \in DOMAIN u
    BY <1>5, <2>3
  <2> QED BY <2>4, EmptyIsList
<1> QED BY <1>4, <1>10, <1>11

\* Taking the first ones leaves a part.
LEMMA TakePart ==
    ASSUME NEW s, NEW keys, NEW u, Part(u, s, keys), NEW n \in Nat
    PROVE  /\ Part(Take(u, n), s, keys) /\ Len(Take(u, n)) <= n
           /\ u # <<>> /\ n # 0 => Take(u, n) # <<>>
<1>1. IsList(u)
  BY DEF Part
<1>2. PICK t : t = Take(u, n)
  OBVIOUS
<1>3. /\ IsList(t) /\ \A i \in DOMAIN t : i \in DOMAIN u /\ t[i] = u[i]
  BY <1>1, <1>2, TakeFacts
<1>4. Part(t, s, keys)
  BY <1>3 DEF Part
<1>5. /\ Len(t) = IF Len(u) < n THEN Len(u) ELSE n
      /\ Len(u) \in Nat /\ (u # <<>> => Len(u) # 0)
  <2>1. PICK m : m = IF Len(u) < n THEN Len(u) ELSE n
    OBVIOUS
  <2>2. t = SubSeq(u, 1, m)
    BY <1>2, <2>1 DEF Take
  <2>3. Len(u) \in Nat /\ (u # <<>> => Len(u) # 0)
    BY <1>1 DEF IsList
  <2>4. m \in Nat /\ m <= Len(u)
    BY <2>1, <2>3
  <2>5. Len(t) = m
    BY <1>1, <2>2, <2>4 DEF IsList
  <2> QED BY <2>1, <2>3, <2>5
<1>6. u # <<>> /\ n # 0 => t # <<>>
  BY <1>5, EmptyIsList
<1> QED BY <1>2, <1>4, <1>5, <1>6

-----------------------------------------------------------------------------
(* Lists run together: see Selection.                                      *)

\* When of any two one is before the other, the number of those before it tells
\* each from the others.
LEMMA Ranking ==
    ASSUME NEW S, IsFiniteSet(S), NEW B \in [S -> SUBSET S],
           \A p \in S : p \notin B[p],
           \A p, q \in S : p = q \/ p \in B[q] \/ q \in B[p],
           \A p, q \in S : p \in B[q] => B[p] \subseteq B[q]
    PROVE  /\ Cardinality(S) \in Nat
           /\ \A p, q \in S : Cardinality(B[p]) = Cardinality(B[q]) => p = q
           /\ \A p \in S : Cardinality(B[p]) \in 0..(Cardinality(S) - 1)
           /\ \A n \in 1..Cardinality(S) : \E p \in S : Cardinality(B[p]) = n - 1
<1> DEFINE Card(p) == Cardinality(B[p])
<1> DEFINE rank == [p \in S |-> Card(p) + 1]
<1>1. PICK N \in Nat : N = Cardinality(S)
  BY FS_CardinalityType
<1>2. ASSUME NEW p \in S PROVE IsFiniteSet(B[p]) /\ Card(p) \in 0..(N - 1)
  <2>1. B[p] \in SUBSET (S \ {p})
    OBVIOUS
  <2>2. IsFiniteSet(S \ {p}) /\ Cardinality(S \ {p}) = N - 1
    BY <1>1, FS_RemoveElement
  <2>3. IsFiniteSet(B[p]) /\ Cardinality(B[p]) <= N - 1
    BY <2>1, <2>2, FS_Subset
  <2>4. Cardinality(B[p]) \in Nat
    BY <2>3, FS_CardinalityType
  <2> QED BY <1>1, <2>3, <2>4
<1>3. ASSUME NEW p \in S, NEW q \in S, p \in B[q] PROVE Card(p) < Card(q)
  <2>1. B[p] \subseteq B[q] /\ B[p] # B[q]
    BY <1>3
  <2>2. IsFiniteSet(B[p]) /\ IsFiniteSet(B[q])
    BY <1>2
  <2> QED BY <2>1, <2>2, FS_Subset, FS_CardinalityType
<1> HIDE DEF Card
<1>4. \A p, q \in S : Card(p) = Card(q) => p = q
  BY <1>1, <1>2, <1>3
<1>5. rank \in [S -> 1..N] /\ \A p, q \in S : rank[p] = rank[q] => p = q
  BY <1>1, <1>2, <1>4
<1>6. \A p \in S : rank[p] = Card(p) + 1
  OBVIOUS
<1> HIDE DEF rank
<1>7. rank \in Injection(S, 1..N)
  BY <1>5, Fun_IsInj
<1>8. IsFiniteSet(1..N) /\ Cardinality(1..N) = N
  BY <1>1, FS_Interval
<1>9. rank \in Surjection(S, 1..N)
  BY <1>1, <1>7, <1>8, FS_Injection
<1>10. \A n \in 1..N : \E p \in S : rank[p] = n
  BY ONLY <1>9, Fun_SurjectionProperties
<1>11. ASSUME NEW n \in 1..N PROVE \E p \in S : Card(p) = n - 1
  <2>1. PICK p \in S : rank[p] = n
    BY <1>10
  <2>2. Card(p) \in Nat /\ n = Card(p) + 1
    BY <1>2, <1>6, <2>1
  <2> QED BY <2>2
<1> QED BY <1>1, <1>2, <1>4, <1>11 DEF Card

\* A list of lists.
Nested(lists) == IsList(lists) /\ \A i \in DOMAIN lists : IsList(lists[i])

\* The places of nested lists are pairs of positions.
LEMMA PlacesAreFinite ==
    ASSUME NEW lists, Nested(lists)
    PROVE  /\ IsFiniteSet(Places(lists))
           /\ \A p \in Places(lists) :
                 /\ p = <<p[1], p[2]>> /\ p[1] \in Nat /\ p[2] \in Nat
                 /\ p[1] \in DOMAIN lists /\ p[2] \in DOMAIN lists[p[1]]
           /\ \A i \in DOMAIN lists : \A j \in DOMAIN lists[i] : <<i, j>> \in Places(lists)
<1> DEFINE Row(i) == {<<i, j>> : j \in DOMAIN lists[i]}
<1> DEFINE recs == {Row(i) : i \in DOMAIN lists}
<1>1. PICK L \in Nat : DOMAIN lists = 1..L
  BY ListIsNumbered DEF Nested, Numbered
<1>2. ASSUME NEW i \in DOMAIN lists
      PROVE  IsFiniteSet(Row(i)) /\ \A j \in DOMAIN lists[i] : j \in Nat
  <2>1. PICK M \in Nat : DOMAIN lists[i] = 1..M
    BY ListIsNumbered DEF Nested, Numbered
  <2>2. IsFiniteSet(1..M)
    BY FS_Interval
  <2> DEFINE pair == [j \in 1..M |-> <<i, j>>]
  <2>3. pair \in Surjection(1..M, Row(i))
    <3>1. pair \in [1..M -> Row(i)]
      BY <2>1
    <3>2. \A p \in Row(i) : \E j \in 1..M : pair[j] = p
      BY <2>1
    <3> QED BY <3>1, <3>2, Fun_IsSurj
  <2>4. IsFiniteSet(Row(i))
    BY <2>2, <2>3, FS_Surjection
  <2> QED BY <2>1, <2>4
<1>3. IsFiniteSet(recs)
  <2>1. IsFiniteSet(1..L)
    BY FS_Interval
  <2> DEFINE of == [i \in 1..L |-> Row(i)]
  <2>2. of \in Surjection(1..L, recs)
    <3>1. of \in [1..L -> recs]
      BY <1>1
    <3>2. \A r \in recs : \E i \in 1..L : of[i] = r
      BY <1>1
    <3> QED BY <3>1, <3>2, Fun_IsSurj
  <2> QED BY <2>1, <2>2, FS_Surjection
<1>4. \A r \in recs : IsFiniteSet(r)
  BY <1>2
<1>5. Places(lists) = UNION recs
  BY DEF Places
<1>6. IsFiniteSet(UNION recs)
  <2> HIDE DEF recs
  <2> QED BY <1>3, <1>4, FS_UNION
<1>7. \A i \in DOMAIN lists : i \in Nat
  BY <1>1
<1>8. ASSUME NEW p \in Places(lists)
      PROVE  /\ p = <<p[1], p[2]>> /\ p[1] \in Nat /\ p[2] \in Nat
             /\ p[1] \in DOMAIN lists /\ p[2] \in DOMAIN lists[p[1]]
  <2>1. PICK i \in DOMAIN lists : p \in Row(i)
    BY <1>5
  <2>2. PICK j \in DOMAIN lists[i] : p = <<i, j>>
    BY <2>1
  <2> QED BY <1>2, <1>7, <2>2
<1>9. \A i \in DOMAIN lists : \A j \in DOMAIN lists[i] : <<i, j>> \in Places(lists)
  BY <1>5
<1> QED BY <1>5, <1>6, <1>8, <1>9

\* The entries of f are those of the lists, each place of them once.
Flattened(f, lists) ==
    /\ IsList(f)
    /\ \E place \in [DOMAIN f -> Places(lists)] :
          /\ \A n \in DOMAIN f : f[n] = lists[place[n][1]][place[n][2]]
          /\ \A m, n \in DOMAIN f : place[m] = place[n] => m = n
          /\ \A p \in Places(lists) : \E n \in DOMAIN f : place[n] = p

\* Flattening keeps the entries and their order.
LEMMA FlatFacts ==
    ASSUME NEW lists, Nested(lists)
    PROVE  Flattened(Flat(lists), lists)
<1> DEFINE S == Places(lists)
<1> DEFINE B == [p \in S |-> Preceding(lists, p)]
<1>1. /\ IsFiniteSet(S)
      /\ \A p \in S : p = <<p[1], p[2]>> /\ p[1] \in Nat /\ p[2] \in Nat
  BY PlacesAreFinite
<1>2. B \in [S -> SUBSET S]
  BY DEF Preceding
<1>3. \A p, q \in S : q \in B[p] <=> (q[1] < p[1] \/ (q[1] = p[1] /\ q[2] < p[2]))
  BY DEF Preceding
<1>4. \A p \in S : B[p] = Preceding(lists, p)
  OBVIOUS
<1> HIDE DEF S, B
<1>5. \A p \in S : p \notin B[p]
  BY <1>1, <1>3
<1>6. \A p, q \in S : p = q \/ p \in B[q] \/ q \in B[p]
  <2> TAKE p, q \in S
  <2>1. p = <<p[1], p[2]>> /\ q = <<q[1], q[2]>>
    BY <1>1
  <2>2. PICK a, b, c, d \in Nat : a = p[1] /\ b = p[2] /\ c = q[1] /\ d = q[2]
    BY <1>1
  <2>3. a < c \/ c < a \/ (a = c /\ (b < d \/ d < b \/ b = d))
    OBVIOUS
  <2> QED BY <1>3, <2>1, <2>2, <2>3
<1>7. \A p, q \in S : p \in B[q] => B[p] \subseteq B[q]
  <2> SUFFICES ASSUME NEW p \in S, NEW q \in S, p \in B[q], NEW x \in B[p] PROVE x \in B[q]
    OBVIOUS
  <2>1. x \in S
    BY <1>2
  <2>2. x[1] < p[1] \/ (x[1] = p[1] /\ x[2] < p[2])
    BY <1>3, <2>1
  <2>3. p[1] < q[1] \/ (p[1] = q[1] /\ p[2] < q[2])
    BY <1>3
  <2>4. PICK a, b, c, d, e, f \in Nat :
            a = p[1] /\ b = p[2] /\ c = q[1] /\ d = q[2] /\ e = x[1] /\ f = x[2]
    BY <1>1, <2>1
  <2>5. e < c \/ (e = c /\ f < d)
    BY <2>2, <2>3, <2>4
  <2> QED BY <1>3, <2>1, <2>4, <2>5
<1>8. PICK N : N = Cardinality(S)
  OBVIOUS
<1>9. /\ N \in Nat
      /\ \A p, q \in S : Cardinality(B[p]) = Cardinality(B[q]) => p = q
      /\ \A p \in S : Cardinality(B[p]) \in 0..(N - 1)
      /\ \A n \in 1..N : \E p \in S : Cardinality(B[p]) = n - 1
  BY <1>1, <1>2, <1>5, <1>6, <1>7, <1>8, Ranking
<1>10. \A n \in 1..N : /\ PlaceAt(lists, n) \in S
                       /\ Cardinality(B[PlaceAt(lists, n)]) = n - 1
  <2> TAKE n \in 1..N
  <2>1. PICK p \in S : Cardinality(B[p]) = n - 1
    BY <1>9
  <2>2. p \in Places(lists) /\ Cardinality(Preceding(lists, p)) = n - 1
    BY <1>4, <2>1 DEF S
  <2>3. /\ PlaceAt(lists, n) \in Places(lists)
        /\ Cardinality(Preceding(lists, PlaceAt(lists, n))) = n - 1
    BY <2>2 DEF PlaceAt
  <2> QED BY <1>4, <2>3 DEF S
<1> DEFINE place == [n \in 1..N |-> PlaceAt(lists, n)]
<1>11. place \in [1..N -> S]
  BY <1>10
<1>12. \A n \in 1..N : Cardinality(B[place[n]]) = n - 1
  BY <1>10
<1>13. \A n \in 1..N : place[n] = PlaceAt(lists, n)
  OBVIOUS
<1> HIDE DEF place
<1>14. \A m, n \in 1..N : place[m] = place[n] => m = n
  <2> SUFFICES ASSUME NEW m \in 1..N, NEW n \in 1..N, place[m] = place[n] PROVE m = n
    OBVIOUS
  <2>1. m - 1 = n - 1
    BY <1>12
  <2> QED BY <2>1
<1>15. \A p \in S : \E n \in 1..N : place[n] = p
  <2> TAKE p \in S
  <2>1. PICK c \in 0..(N - 1) : c = Cardinality(B[p])
    BY <1>9
  <2>2. c + 1 \in 1..N /\ (c + 1) - 1 = c
    BY <1>9
  <2>3. Cardinality(B[place[c + 1]]) = c /\ place[c + 1] \in S
    BY <1>11, <1>12, <2>2
  <2>4. place[c + 1] = p
    BY <1>9, <2>1, <2>3
  <2> QED BY <2>2, <2>4
<1>16. PICK f : f = Flat(lists)
  OBVIOUS
<1>17. f = [n \in 1..N |-> lists[place[n][1]][place[n][2]]]
  BY <1>8, <1>13, <1>16 DEF Flat, S
<1>18. DOMAIN f = 1..N /\ f = [n \in 1..N |-> f[n]]
  BY <1>17
<1>19. IsList(f)
  BY <1>9, <1>18, ListOf
<1>20. \A n \in 1..N : f[n] = lists[place[n][1]][place[n][2]]
  BY <1>17
<1>21. Flattened(f, lists)
  <2>1. place \in [DOMAIN f -> Places(lists)]
    BY <1>11, <1>18 DEF S
  <2>2. \A p \in Places(lists) : \E n \in DOMAIN f : place[n] = p
    BY <1>15, <1>18 DEF S
  <2>3. \A m, n \in DOMAIN f : place[m] = place[n] => m = n
    BY <1>14, <1>18
  <2>4. \A n \in DOMAIN f : f[n] = lists[place[n][1]][place[n][2]]
    BY <1>18, <1>20
  <2> QED BY <1>19, <2>1, <2>2, <2>3, <2>4 DEF Flattened
<1> QED BY <1>16, <1>21

-----------------------------------------------------------------------------
(* What validation makes of a topic: see DraftConfig.                      *)

Folds(qs) == [i \in DOMAIN qs |-> Fold(qs[i].text)]
WordFolds(ws) == [i \in DOMAIN ws |-> Fold(ws[i])]

CleanQuery(q) == Clean(q.text) = q.text /\ q.text \notin Addresses \cup {Blank}

\* A topic after the field validators.
CleanTopic(t) ==
    /\ t = [name |-> t.name, queries |-> t.queries, sources |-> t.sources,
            banned |-> t.banned]
    /\ Clean(t.name) = t.name /\ t.queries # <<>>
    /\ \A i \in DOMAIN t.queries : CleanQuery(t.queries[i])
    /\ \A i \in DOMAIN t.sources : t.sources[i] # NotADomain
    /\ IsList(t.queries) /\ IsList(t.sources) /\ IsList(t.banned)

\* A topic of the draft that is shown.
FitTopic(t) ==
    /\ CleanTopic(t)
    /\ Len(t.queries) <= MaxQueries /\ Distinct(Folds(t.queries))
    /\ Len(t.sources) <= MaxSources /\ Distinct(t.sources)
    /\ Len(t.banned) <= MaxExclusions /\ Distinct(WordFolds(t.banned))

\* The limits are positive numbers (schemas/monitoring.py).
LEMMA Budgets == {MaxTopics, MaxQueries, MaxTotal, MaxSources, MaxExclusions} \subseteq Nat \ {0}
BY BudgetAssumption

\* A list without a double within its budget is left as it is.
LEMMA FirstsTaken ==
    ASSUME NEW s, IsList(s), NEW keys, IsList(keys), DOMAIN keys = DOMAIN s,
           Distinct(keys), NEW n \in Nat, Len(s) <= n
    PROVE  Take(FirstOf(s, keys), n) = s
<1>1. Firsts(keys) = DOMAIN s
  BY FirstsOfDistinct
<1>2. FirstOf(s, keys) = s
  BY <1>1, KeepAll DEF FirstOf
<1> QED BY <1>2, TakeAll

\* Something computed entry by entry is a list of the same length.
LEMMA MapIsList ==
    ASSUME NEW s, IsList(s), NEW t, DOMAIN t = DOMAIN s, t = [i \in DOMAIN t |-> t[i]]
    PROVE  IsList(t) /\ Len(t) = Len(s)
<1>1. PICK L \in Nat : DOMAIN s = 1..L /\ L = Len(s)
  BY ListIsNumbered DEF Numbered
<1>2. t = [i \in 1..L |-> t[i]]
  BY <1>1
<1> QED BY <1>1, <1>2, ListOf

\* Keeping some positions of a list.
LEMMA KeepIsList ==
    ASSUME NEW s, IsList(s), NEW kept \in SUBSET DOMAIN s
    PROVE  Entries(Keep(s, kept), s, kept)
<1>1. PICK L \in Nat : DOMAIN s = 1..L
  BY ListIsNumbered DEF Numbered
<1>2. kept \in SUBSET (1..L)
  BY <1>1
<1> QED BY <1>2, KeptEntries

\* c is one list after the other.
Concatenated(c, a, b) ==
    /\ IsList(c) /\ Len(a) \in Nat /\ DOMAIN a = 1..Len(a)
    /\ \A i \in DOMAIN a : i \in DOMAIN c /\ c[i] = a[i]
    /\ \A j \in DOMAIN b : Len(a) + j \in DOMAIN c /\ c[Len(a) + j] = b[j]
    /\ \A n \in DOMAIN c : n \in DOMAIN a \/ \E j \in DOMAIN b : n = Len(a) + j

\* One list after another.
LEMMA ConcatFacts ==
    ASSUME NEW a, IsList(a), NEW b, IsList(b)
    PROVE  Concatenated(a \o b, a, b)
<1> DEFINE S == {a[i] : i \in DOMAIN a} \cup {b[i] : i \in DOMAIN b}
<1>1. a \in Seq(S) /\ b \in Seq(S)
  <2>1. a \in Seq({a[i] : i \in DOMAIN a}) /\ b \in Seq({b[i] : i \in DOMAIN b})
    BY DEF IsList
  <2> QED BY <2>1
<1> HIDE DEF S
<1>2. PICK c : c = a \o b
  OBVIOUS
<1>3. PICK K \in Nat, M \in Nat : /\ K = Len(a) /\ M = Len(b)
                                  /\ DOMAIN a = 1..K /\ DOMAIN b = 1..M
  BY <1>1
<1>4. /\ c \in Seq(S) /\ Len(c) = K + M
      /\ \A i \in 1..(K + M) : c[i] = IF i <= K THEN a[i] ELSE b[i - K]
  BY <1>1, <1>2, <1>3
<1>5. DOMAIN c = 1..(K + M) /\ c = [i \in 1..(K + M) |-> c[i]]
  BY <1>3, <1>4
<1>6. IsList(c)
  BY <1>3, <1>5, ListOf
<1>7. \A i \in 1..K : i \in DOMAIN c /\ c[i] = a[i]
  BY <1>3, <1>4, <1>5
<1>8. \A j \in 1..M : K + j \in DOMAIN c /\ c[K + j] = b[j]
  <2> TAKE j \in 1..M
  <2>1. K + j \in 1..(K + M) /\ ~(K + j <= K) /\ (K + j) - K = j
    BY <1>3
  <2> QED BY <1>4, <1>5, <2>1
<1>9. \A n \in DOMAIN c : n \in 1..K \/ \E j \in 1..M : n = K + j
  <2> TAKE n \in DOMAIN c
  <2>1. n \in 1..(K + M)
    BY <1>5
  <2>2. n \in 1..K \/ (n - K \in 1..M /\ n = K + (n - K))
    BY <1>3, <2>1
  <2> QED BY <2>2
<1>10. Concatenated(c, a, b)
  BY <1>3, <1>6, <1>7, <1>8, <1>9 DEF Concatenated
<1> QED BY <1>2, <1>10

\* No lists hold no entries.
LEMMA NothingIsFlat ==
    ASSUME NEW lists, DOMAIN lists = {}
    PROVE  Flat(lists) = <<>>
<1>1. Places(lists) = {}
  BY DEF Places
<1>2. Cardinality({}) = 0
  BY FS_EmptySet
<1>3. 1..0 = {}
  OBVIOUS
<1>4. Flat(lists) = [n \in {} |-> lists[PlaceAt(lists, n)[1]][PlaceAt(lists, n)[2]]]
  BY <1>1, <1>2, <1>3 DEF Flat
<1> QED BY <1>4

\* A topic whose texts are clean and whose searches are within the budget keeps
\* them when it is validated again.
LEMMA SearchesStay ==
    ASSUME NEW t, IsList(t.queries), Clean(t.name) = t.name,
           \A i \in DOMAIN t.queries : CleanQuery(t.queries[i]),
           Len(t.queries) <= MaxQueries, Distinct(Folds(t.queries))
    PROVE  SameTopic(GeneratedTopic(t), t)
<1>1. PICK q, c : /\ q = t.queries
                  /\ c = [i \in DOMAIN q |-> [text |-> Clean(q[i].text), priority |-> q[i].priority]]
  OBVIOUS
<1>2. IsList(q) /\ Len(q) <= MaxQueries /\ Distinct(Folds(q))
  BY <1>1
<1>3. /\ DOMAIN c = DOMAIN q /\ c = [i \in DOMAIN c |-> c[i]]
      /\ \A i \in DOMAIN q : c[i].text = q[i].text
  BY <1>1 DEF CleanQuery
<1>4. IsList(c) /\ Len(c) = Len(q)
  BY <1>2, <1>3, MapIsList
<1>5. PICK k : k = Folds(c)
  OBVIOUS
<1>6. DOMAIN k = DOMAIN c /\ k = [i \in DOMAIN k |-> k[i]] /\ k = Folds(q)
  BY <1>3, <1>5 DEF Folds
<1>7. IsList(k)
  BY <1>4, <1>6, MapIsList
<1>8. MaxQueries \in Nat
  BY Budgets
<1>9. Take(FirstOf(c, k), MaxQueries) = c
  BY ONLY <1>2, <1>4, <1>6, <1>7, <1>8, FirstsTaken
<1>10. PICK g, d : g = GeneratedTopic(t) /\ d = Cleaned(t)
  OBVIOUS
<1>11. d.queries = c /\ d.name = Clean(t.name)
  BY <1>1, <1>10 DEF Cleaned
<1>12. g = Budgeted(d)
  BY <1>10 DEF GeneratedTopic
<1>13. g.queries = Take(FirstOf(c, k), MaxQueries) /\ g.name = d.name
  BY <1>5, <1>11, <1>12 DEF Budgeted, Folds
<1>14. g.name = t.name /\ g.queries = c
  BY <1>9, <1>11, <1>13
<1>15. SameTopic(g, t)
  BY <1>1, <1>3, <1>4, <1>14 DEF SameTopic
<1> QED BY <1>10, <1>15

\* The firsts of a list, within a budget.
LEMMA FirstsWithin ==
    ASSUME NEW s, IsList(s), NEW keys, DOMAIN keys = DOMAIN s, IsList(keys),
           \A i, j \in DOMAIN s : s[i] = s[j] => keys[i] = keys[j],
           NEW n \in Nat
    PROVE  /\ Part(Take(FirstOf(s, keys), n), s, keys)
           /\ Len(Take(FirstOf(s, keys), n)) <= n
           /\ s # <<>> /\ n # 0 => Take(FirstOf(s, keys), n) # <<>>
<1>1. PICK u : u = FirstOf(s, keys)
  OBVIOUS
<1>2. Part(u, s, keys) /\ (s # <<>> => u # <<>>)
  BY <1>1, FirstOfFacts
<1> QED BY <1>1, <1>2, TakePart

\* The field validators clean a topic that is not refused.
LEMMA CleanedTopicIsClean ==
    ASSUME NEW t, Proposed(t), ~TopicRefused(t)
    PROVE  CleanTopic(Cleaned(t))
<1>1. PICK q, s, b : q = t.queries /\ s = t.sources /\ b = t.banned
  OBVIOUS
<1>2. /\ IsList(q) /\ IsList(s) /\ IsList(b)
      /\ Clean(Clean(t.name)) = Clean(t.name)
      /\ \A i \in DOMAIN q : Clean(Clean(q[i].text)) = Clean(q[i].text)
  BY <1>1 DEF Proposed, Settles
<1>3. /\ q # <<>> /\ \A i \in DOMAIN q : Clean(q[i].text) \notin Addresses \cup {Blank}
      /\ \A i \in DOMAIN s : CleanDomain(s[i]) # NotADomain
  BY <1>1 DEF TopicRefused, ValidQuery
<1>4. PICK u, v, r, w :
         /\ u = [i \in DOMAIN q |-> [text |-> Clean(q[i].text), priority |-> q[i].priority]]
         /\ v = [i \in DOMAIN s |-> CleanDomain(s[i])]
         /\ r = [i \in DOMAIN b |-> CleanWord(b[i])]
         /\ w = Keep(r, {i \in DOMAIN r : r[i] # Blank})
  OBVIOUS
<1>5. /\ DOMAIN u = DOMAIN q /\ u = [i \in DOMAIN u |-> u[i]]
      /\ \A i \in DOMAIN u : u[i].text = Clean(q[i].text)
  BY <1>4
<1>6. DOMAIN v = DOMAIN s /\ v = [i \in DOMAIN v |-> v[i]]
  BY <1>4
<1>7. DOMAIN r = DOMAIN b /\ r = [i \in DOMAIN r |-> r[i]]
  BY <1>4
<1>8. IsList(u) /\ IsList(v) /\ IsList(r) /\ Len(u) = Len(q)
  BY <1>2, <1>5, <1>6, <1>7, MapIsList
<1>9. IsList(w)
  BY <1>4, <1>8, KeepIsList DEF Entries
<1>10. u # <<>>
  <2>1. DOMAIN q # {}
    BY <1>2, <1>3 DEF IsList
  <2> QED BY <1>5, <2>1, EmptyIsList
<1>11. PICK c, n : c = Cleaned(t) /\ n = Clean(t.name)
  OBVIOUS
<1>12. c = [name |-> n, queries |-> u, sources |-> v, banned |-> w]
  BY <1>1, <1>4, <1>11 DEF Cleaned, Without
<1>13. /\ c.name = n /\ c.queries = u /\ c.sources = v /\ c.banned = w
       /\ c = [name |-> c.name, queries |-> c.queries, sources |-> c.sources, banned |-> c.banned]
  BY <1>12
<1>14. Clean(n) = n
  BY <1>2, <1>11
<1>15. \A i \in DOMAIN u : CleanQuery(u[i])
  BY <1>2, <1>3, <1>5 DEF CleanQuery
<1>16. \A i \in DOMAIN v : v[i] # NotADomain
  BY <1>3, <1>4, <1>6
<1>17. CleanTopic(c)
  BY <1>8, <1>9, <1>10, <1>13, <1>14, <1>15, <1>16 DEF CleanTopic
<1> QED BY <1>11, <1>17

\* The sources that are left are among those that were there.
SourcesFrom(g, t) == \A k \in DOMAIN g.sources : \E i \in DOMAIN t.sources :
                        g.sources[k] = CleanDomain(t.sources[i])

\* A clean topic cut to its budget fits.
LEMMA BudgetedTopicIsFit ==
    ASSUME NEW t, CleanTopic(t)
    PROVE  /\ FitTopic(Budgeted(t)) /\ Budgeted(t).name = t.name
           /\ \A k \in DOMAIN Budgeted(t).sources : \E i \in DOMAIN t.sources :
                 Budgeted(t).sources[k] = t.sources[i]
<1>1. PICK q, s, b : q = t.queries /\ s = t.sources /\ b = t.banned
  OBVIOUS
<1>2. PICK qk, bk : qk = Folds(q) /\ bk = WordFolds(b)
  OBVIOUS
<1>3. /\ DOMAIN qk = DOMAIN q /\ qk = [i \in DOMAIN qk |-> qk[i]]
      /\ \A i \in DOMAIN q : qk[i] = Fold(q[i].text)
  BY <1>2 DEF Folds
<1>4. /\ DOMAIN bk = DOMAIN b /\ bk = [i \in DOMAIN bk |-> bk[i]]
      /\ \A i \in DOMAIN b : bk[i] = Fold(b[i])
  BY <1>2 DEF WordFolds
<1>5. IsList(q) /\ IsList(s) /\ IsList(b)
  BY <1>1 DEF CleanTopic
<1>6. IsList(qk) /\ IsList(bk)
  BY <1>3, <1>4, <1>5, MapIsList
<1>7. MaxQueries \in Nat \ {0} /\ MaxSources \in Nat /\ MaxExclusions \in Nat
  BY Budgets
<1>8. PICK u, v, w : /\ u = Take(FirstOf(q, qk), MaxQueries)
                     /\ v = Take(FirstOf(s, s), MaxSources)
                     /\ w = Take(FirstOf(b, bk), MaxExclusions)
  OBVIOUS
<1>9. Part(u, q, qk) /\ Len(u) <= MaxQueries /\ (q # <<>> => u # <<>>)
  BY <1>3, <1>5, <1>6, <1>7, <1>8, FirstsWithin
<1>10. Part(v, s, s) /\ Len(v) <= MaxSources
  BY <1>5, <1>7, <1>8, FirstsWithin
<1>11. Part(w, b, bk) /\ Len(w) <= MaxExclusions
  BY <1>4, <1>5, <1>6, <1>7, <1>8, FirstsWithin
<1>12. PICK g, n : g = Budgeted(t) /\ n = t.name
  OBVIOUS
<1>13. g = [name |-> n, queries |-> u, sources |-> v, banned |-> w]
  BY <1>1, <1>2, <1>8, <1>12 DEF Budgeted, Folds, WordFolds
<1>14. g.name = n /\ g.queries = u /\ g.sources = v /\ g.banned = w
  BY <1>13
<1>15. /\ Clean(n) = n /\ q # <<>>
       /\ \A i \in DOMAIN q : CleanQuery(q[i])
       /\ \A i \in DOMAIN s : s[i] # NotADomain
  BY <1>1, <1>12 DEF CleanTopic
<1>16. /\ \A k \in DOMAIN u : \E i \in DOMAIN q : u[k] = q[i]
       /\ \A k \in DOMAIN v : \E i \in DOMAIN s : v[k] = s[i]
       /\ IsList(u) /\ IsList(v) /\ IsList(w)
  BY <1>9, <1>10, <1>11 DEF Part
<1>17. CleanTopic(g)
  <2>1. \A k \in DOMAIN u : CleanQuery(u[k])
    BY <1>15, <1>16
  <2>2. \A k \in DOMAIN v : v[k] # NotADomain
    BY <1>15, <1>16
  <2>3. g = [name |-> g.name, queries |-> g.queries, sources |-> g.sources, banned |-> g.banned]
    BY <1>13, <1>14
  <2> QED BY <1>9, <1>14, <1>15, <1>16, <2>1, <2>2, <2>3 DEF CleanTopic
<1>18. Distinct(Folds(u))
  <2> SUFFICES ASSUME NEW k \in DOMAIN u, NEW l \in DOMAIN u,
                      Fold(u[k].text) = Fold(u[l].text)
               PROVE  k = l
    BY DEF Distinct, Folds
  <2>1. PICK i \in DOMAIN q, j \in DOMAIN q : u[k] = q[i] /\ u[l] = q[j]
    BY <1>16
  <2>2. qk[i] = qk[j]
    BY <1>3, <2>1
  <2> QED BY <1>9, <2>1, <2>2 DEF Part
<1>19. Distinct(v)
  <2> SUFFICES ASSUME NEW k \in DOMAIN v, NEW l \in DOMAIN v, v[k] = v[l] PROVE k = l
    BY DEF Distinct
  <2>1. PICK i \in DOMAIN s, j \in DOMAIN s : v[k] = s[i] /\ v[l] = s[j]
    BY <1>16
  <2> QED BY <1>10, <2>1 DEF Part
<1>20. Distinct(WordFolds(w))
  <2> SUFFICES ASSUME NEW k \in DOMAIN w, NEW l \in DOMAIN w, Fold(w[k]) = Fold(w[l])
               PROVE  k = l
    BY DEF Distinct, WordFolds
  <2>1. PICK i \in DOMAIN b, j \in DOMAIN b : w[k] = b[i] /\ w[l] = b[j]
    BY <1>11 DEF Part
  <2>2. bk[i] = bk[j]
    BY <1>4, <2>1
  <2> QED BY <1>11, <2>1, <2>2 DEF Part
<1>21. FitTopic(g)
  BY <1>9, <1>10, <1>11, <1>14, <1>17, <1>18, <1>19, <1>20 DEF FitTopic
<1> QED BY <1>1, <1>12, <1>14, <1>16, <1>21

\* A topic that has been validated fits.
LEMMA ValidatedTopicIsFit ==
    ASSUME NEW t, Proposed(t), ~TopicRefused(t)
    PROVE  FitTopic(GeneratedTopic(t)) /\ SourcesFrom(GeneratedTopic(t), t)
<1>1. PICK c, g : c = Cleaned(t) /\ g = GeneratedTopic(t)
  OBVIOUS
<1>2. g = Budgeted(c)
  BY <1>1 DEF GeneratedTopic
<1>3. CleanTopic(c)
  BY <1>1, CleanedTopicIsClean
<1>4. /\ FitTopic(g)
      /\ \A k \in DOMAIN g.sources : \E i \in DOMAIN c.sources : g.sources[k] = c.sources[i]
  BY <1>2, <1>3, BudgetedTopicIsFit
<1>5. c.sources = [i \in DOMAIN t.sources |-> CleanDomain(t.sources[i])]
  BY <1>1 DEF Cleaned
<1>6. SourcesFrom(g, t)
  BY <1>4, <1>5 DEF SourcesFrom
<1> QED BY <1>1, <1>4, <1>6

\* What fits can be validated again.
LEMMA FitTopicIsProposed ==
    ASSUME NEW t, FitTopic(t)
    PROVE  Proposed(t)
<1>1. Clean(Clean(t.name)) = Clean(t.name)
  BY DEF FitTopic, CleanTopic
<1>2. \A i \in DOMAIN t.queries : Clean(Clean(t.queries[i].text)) = Clean(t.queries[i].text)
  BY DEF FitTopic, CleanTopic, CleanQuery
<1> QED BY <1>1, <1>2 DEF FitTopic, CleanTopic, Proposed, Settles

\* The form loses the priorities, and nothing that is validated.
LEMMA FormOfFitTopic ==
    ASSUME NEW t, FitTopic(t)
    PROVE  /\ FitTopic(TopicFromForm(t)) /\ TopicFromForm(t).name = t.name
           /\ DOMAIN TopicFromForm(t).queries = DOMAIN t.queries
           /\ Len(TopicFromForm(t).queries) = Len(t.queries)
           /\ SameTopic(TopicFromForm(t), t) /\ TopicFromForm(t).sources = t.sources
<1>1. PICK q, p : /\ q = t.queries
                  /\ p = [i \in DOMAIN q |-> [text |-> q[i].text, priority |-> 5]]
  OBVIOUS
<1>2. IsList(q)
  BY <1>1 DEF FitTopic, CleanTopic
<1>3. DOMAIN p = DOMAIN q /\ p = [i \in DOMAIN p |-> p[i]]
  BY <1>1
<1>4. \A i \in DOMAIN q : p[i].text = q[i].text
  BY <1>1
<1>5. IsList(p) /\ Len(p) = Len(q)
  BY <1>2, <1>3, MapIsList
<1>6. PICK f : f = TopicFromForm(t)
  OBVIOUS
<1>7. f = [name |-> t.name, sources |-> t.sources, banned |-> t.banned, queries |-> p]
  BY <1>1, <1>6 DEF TopicFromForm
<1>8. /\ f.name = t.name /\ f.sources = t.sources /\ f.banned = t.banned /\ f.queries = p
      /\ f = [name |-> f.name, queries |-> f.queries, sources |-> f.sources,
              banned |-> f.banned]
  BY <1>7
<1>9. Distinct(Folds(p))
  <2>1. Folds(p) = Folds(q)
    BY <1>3, <1>4 DEF Folds
  <2> QED BY <1>1, <2>1 DEF FitTopic
<1>10. CleanTopic(f)
  <2>1. p # <<>>
    <3>1. q # <<>>
      BY <1>1 DEF FitTopic, CleanTopic
    <3>2. DOMAIN q # {}
      BY <1>2, <3>1 DEF IsList
    <3> QED BY <1>3, <3>2, EmptyIsList
  <2>2. \A i \in DOMAIN p : CleanQuery(p[i])
    BY <1>1, <1>3, <1>4 DEF FitTopic, CleanTopic, CleanQuery
  <2>3. /\ Clean(t.name) = t.name /\ IsList(t.sources) /\ IsList(t.banned)
        /\ \A i \in DOMAIN t.sources : t.sources[i] # NotADomain
    BY DEF FitTopic, CleanTopic
  <2> QED BY <1>5, <1>8, <2>1, <2>2, <2>3 DEF CleanTopic
<1>11. FitTopic(f)
  BY <1>1, <1>5, <1>8, <1>9, <1>10 DEF FitTopic
<1>12. SameTopic(f, t)
  BY <1>1, <1>4, <1>5, <1>8 DEF SameTopic
<1> QED BY <1>1, <1>3, <1>5, <1>6, <1>8, <1>11, <1>12

\* A topic that is shown is refused only when it is spoilt.
LEMMA UnspoiltIsTaken ==
    ASSUME NEW t, CleanTopic(t), NEW u, SameTopic(u, t), IsList(u.queries),
           t.name \notin BadNames,
           \A i \in DOMAIN t.queries : t.queries[i].text \notin BadQueries,
           \A i \in DOMAIN u.sources : CleanDomain(u.sources[i]) # NotADomain
    PROVE  ~TopicRefused(u)
<1>1. PICK p, q : p = u.queries /\ q = t.queries
  OBVIOUS
<1>2. /\ IsList(p) /\ IsList(q) /\ q # <<>> /\ Len(p) = Len(q)
      /\ \A i \in DOMAIN q : p[i].text = q[i].text
  BY <1>1 DEF SameTopic, CleanTopic
<1>3. DOMAIN p = DOMAIN q
  BY <1>2, ListIsNumbered DEF Numbered
<1>4. p # <<>>
  <2>1. DOMAIN q # {}
    BY <1>2 DEF IsList
  <2> QED BY <1>3, <2>1, EmptyIsList
<1>5. \A i \in DOMAIN p : ValidQuery(p[i])
  <2> TAKE i \in DOMAIN p
  <2>1. p[i].text = q[i].text /\ q[i].text \notin BadQueries /\ CleanQuery(q[i])
    BY <1>1, <1>2, <1>3 DEF CleanTopic
  <2> QED BY <2>1 DEF CleanQuery, ValidQuery
<1>6. u.name \notin BadNames
  BY DEF SameTopic
<1> QED BY <1>1, <1>4, <1>5, <1>6 DEF TopicRefused

\* The form of a topic that is shown, and what validation makes of it.
LEMMA FormIsTakenOrSpoilt ==
    ASSUME NEW t, FitTopic(t), NEW n \in {1, 2}, TopicRefused(TopicFromForm(t))
    PROVE  Spoilt(t, n)
<1>1. PICK f : f = TopicFromForm(t)
  OBVIOUS
<1>2. FitTopic(f) /\ SameTopic(f, t) /\ f.sources = t.sources
  BY <1>1, FormOfFitTopic
<1>3. CleanTopic(t) /\ IsList(f.queries)
  BY <1>2 DEF FitTopic, CleanTopic
<1>4. ASSUME ~Spoilt(t, n)
      PROVE  /\ t.name \notin BadNames
             /\ \A i \in DOMAIN t.queries : t.queries[i].text \notin BadQueries
             /\ \A i \in DOMAIN f.sources : CleanDomain(f.sources[i]) # NotADomain
  BY <1>2, <1>4 DEF Spoilt
<1> QED BY <1>1, <1>2, <1>3, <1>4, UnspoiltIsTaken

\* Posted, a topic is validated: it keeps its name and its searches.
LEMMA PostedTopicIsShown ==
    ASSUME NEW t, FitTopic(t), ~TopicRefused(TopicFromForm(t)),
           NEW g, g = GeneratedTopic(TopicFromForm(t))
    PROVE  /\ FitTopic(g) /\ SameTopic(g, t)
           /\ TopicRefused(g) => Spoilt(t, 2)
<1>1. PICK f : f = TopicFromForm(t)
  OBVIOUS
<1>2. FitTopic(f) /\ SameTopic(f, t) /\ f.sources = t.sources
  BY <1>1, FormOfFitTopic
<1>3. FitTopic(g) /\ SourcesFrom(g, f)
  BY <1>1, <1>2, FitTopicIsProposed, ValidatedTopicIsFit
<1>4. /\ IsList(f.queries) /\ IsList(t.queries) /\ IsList(g.queries) /\ CleanTopic(t)
      /\ Clean(f.name) = f.name /\ \A i \in DOMAIN f.queries : CleanQuery(f.queries[i])
      /\ Len(f.queries) <= MaxQueries /\ Distinct(Folds(f.queries))
  BY <1>2, <1>3 DEF FitTopic, CleanTopic
<1>5. SameTopic(g, f)
  BY <1>1, <1>4, SearchesStay
<1>6. SameTopic(g, t)
  BY <1>2, <1>4, <1>5, ListIsNumbered DEF SameTopic, Numbered
<1>7. ASSUME ~Spoilt(t, 2)
      PROVE  ~TopicRefused(g)
  <2>1. /\ t.name \notin BadNames
        /\ \A i \in DOMAIN t.queries : t.queries[i].text \notin BadQueries
        /\ \A i \in DOMAIN t.sources : CleanDomain(CleanDomain(t.sources[i])) # NotADomain
    BY <1>7 DEF Spoilt
  <2>2. \A k \in DOMAIN g.sources : CleanDomain(g.sources[k]) # NotADomain
    BY <1>2, <1>3, <2>1 DEF SourcesFrom
  <2> QED BY <1>4, <1>6, <2>1, <2>2, UnspoiltIsTaken
<1> QED BY <1>3, <1>6, <1>7

-----------------------------------------------------------------------------
(* What it makes of a module.                                              *)

\* Topics with their queries.
ListedTopics(ts) == IsList(ts) /\ \A i \in DOMAIN ts : IsList(ts[i].queries)
QueryLists(ts) == [n \in DOMAIN ts |-> ts[n].queries]

\* The places of the queries of some topics.
LEMMA QueryPlaces ==
    ASSUME NEW ts, ListedTopics(ts)
    PROVE  /\ IsFiniteSet(Places(QueryLists(ts)))
           /\ \A p \in Places(QueryLists(ts)) :
                 /\ p = <<p[1], p[2]>> /\ p[1] \in Nat /\ p[2] \in Nat
                 /\ p[1] \in DOMAIN ts /\ p[2] \in DOMAIN ts[p[1]].queries
           /\ \A i \in DOMAIN ts : \A j \in DOMAIN ts[i].queries :
                 <<i, j>> \in Places(QueryLists(ts))
<1>1. PICK ls : ls = QueryLists(ts)
  OBVIOUS
<1>2. DOMAIN ls = DOMAIN ts /\ \A i \in DOMAIN ts : ls[i] = ts[i].queries
  BY <1>1 DEF QueryLists
<1>3. IsList(ls)
  BY <1>1, <1>2, MapIsList DEF ListedTopics, QueryLists
<1>4. Nested(ls)
  BY <1>2, <1>3 DEF Nested, ListedTopics
<1>5. /\ IsFiniteSet(Places(ls))
      /\ \A p \in Places(ls) :
            /\ p = <<p[1], p[2]>> /\ p[1] \in Nat /\ p[2] \in Nat
            /\ p[1] \in DOMAIN ls /\ p[2] \in DOMAIN ls[p[1]]
      /\ \A i \in DOMAIN ls : \A j \in DOMAIN ls[i] : <<i, j>> \in Places(ls)
  BY <1>4, PlacesAreFinite
<1>6. \A p \in Places(ls) : p[1] \in DOMAIN ts /\ p[2] \in DOMAIN ts[p[1]].queries
  BY <1>2, <1>5
<1>7. \A i \in DOMAIN ts : \A j \in DOMAIN ts[i].queries : <<i, j>> \in Places(ls)
  <2>1. \A i \in DOMAIN ls : \A j \in DOMAIN ls[i] : <<i, j>> \in Places(ls)
    BY <1>5, Zenon
  <2>2. ASSUME NEW i \in DOMAIN ts, NEW j \in DOMAIN ts[i].queries
        PROVE  <<i, j>> \in Places(ls)
    <3>1. i \in DOMAIN ls /\ j \in DOMAIN ls[i]
      BY <1>2
    <3> QED BY <2>1, <3>1, Zenon
  <2> QED BY <2>2, Zenon
<1> QED BY <1>1, <1>5, <1>6, <1>7, Zenon

\* Fewer queries in fewer topics: no more is offered before a place not later.
LEMMA FewerOffered ==
    ASSUME NEW ts, ListedTopics(ts), NEW us, ListedTopics(us), DOMAIN ts \subseteq DOMAIN us,
           \A i \in DOMAIN ts : DOMAIN ts[i].queries \subseteq DOMAIN us[i].queries,
           NEW i \in Nat, NEW j \in Nat, i <= j
    PROVE  /\ Offered(ts, i) \in Nat /\ Offered(us, j) \in Nat
           /\ Offered(ts, i) <= Offered(us, j)
<1>1. PICK P, Q : P = Places(QueryLists(ts)) /\ Q = Places(QueryLists(us))
  OBVIOUS
<1>2. IsFiniteSet(P) /\ IsFiniteSet(Q)
  BY <1>1, QueryPlaces
<1>3. P \subseteq Q
  <2> SUFFICES ASSUME NEW p \in P PROVE p \in Q
    OBVIOUS
  <2>1. p = <<p[1], p[2]>> /\ p[1] \in DOMAIN ts /\ p[2] \in DOMAIN ts[p[1]].queries
    BY <1>1, QueryPlaces
  <2>2. p[1] \in DOMAIN us /\ p[2] \in DOMAIN us[p[1]].queries
    BY <2>1
  <2> QED BY <1>1, <2>1, <2>2, QueryPlaces
<1>4. \A p \in P : p[1] \in Nat
  BY <1>1, QueryPlaces
<1> DEFINE A == {p \in P : p[1] < i}
<1> DEFINE B == {p \in Q : p[1] < j}
<1>5. A \in SUBSET B
  BY <1>3, <1>4
<1>6. Offered(ts, i) = Cardinality(A) /\ Offered(us, j) = Cardinality(B)
  BY <1>1 DEF Offered, QueryLists
<1>7. A \subseteq P /\ B \subseteq Q
  OBVIOUS
<1> HIDE DEF A, B
<1>8. IsFiniteSet(A) /\ IsFiniteSet(B)
  BY <1>2, <1>7, FS_Subset
<1>9. Cardinality(A) <= Cardinality(B)
  BY <1>5, <1>8, FS_Subset
<1> QED BY <1>6, <1>8, <1>9, FS_CardinalityType

\* No query comes before the first topic.
LEMMA NothingOffered ==
    ASSUME NEW ts, ListedTopics(ts)
    PROVE  Offered(ts, 1) = 0
<1>1. PICK P : P = Places(QueryLists(ts))
  OBVIOUS
<1>2. \A p \in P : p[1] \in DOMAIN ts
  BY <1>1, QueryPlaces
<1>3. PICK L \in Nat : DOMAIN ts = 1..L
  BY ListIsNumbered DEF ListedTopics, Numbered
<1>4. {p \in P : p[1] < 1} = {}
  BY <1>2, <1>3
<1>5. Offered(ts, 1) = Cardinality({p \in P : p[1] < 1})
  BY <1>1 DEF Offered, QueryLists
<1> QED BY <1>4, <1>5, FS_EmptySet

\* The topics of the draft that is shown: within the budgets, no name twice.
FitTopics(ts) ==
    /\ IsList(ts) /\ Len(ts) <= MaxTopics /\ Distinct(NameFolds(ts))
    /\ \A i \in DOMAIN ts : /\ FitTopic(ts[i])
                            /\ Offered(ts, i) + Len(ts[i].queries) <= MaxTotal

\* A key as validation leaves it, or with a suffix.
ShownKey(k) ==
    /\ IsList(k) /\ Len(k) \in 1..SuffixedLen /\ k[1] \notin {Underscore, Dash}
    /\ \A i \in DOMAIN k : k[i] \in 0..Dash

FitConfig(c) ==
    /\ c = [name |-> c.name, key |-> c.key, topics |-> c.topics]
    /\ Clean(c.name) = c.name /\ IsKey(Slug(c.name)) /\ ShownKey(c.key)
    /\ c.topics # <<>> /\ FitTopics(c.topics)

\* Topics that fit can be counted.
LEMMA FitTopicsAreListed ==
    ASSUME NEW ts, FitTopics(ts)
    PROVE  /\ ListedTopics(ts)
           /\ \A i \in DOMAIN ts : /\ i \in Nat /\ Offered(ts, i) \in Nat
                                   /\ Len(ts[i].queries) \in Nat \ {0}
<1>1. ListedTopics(ts)
  BY DEF FitTopics, FitTopic, CleanTopic, ListedTopics
<1>2. PICK L \in Nat : DOMAIN ts = 1..L
  BY <1>1, ListIsNumbered DEF ListedTopics, Numbered
<1>3. ASSUME NEW i \in DOMAIN ts
      PROVE  i \in Nat /\ Offered(ts, i) \in Nat /\ Len(ts[i].queries) \in Nat \ {0}
  <2>1. i \in Nat
    BY <1>2
  <2>2. Offered(ts, i) \in Nat
    BY <1>1, <2>1, FewerOffered
  <2>3. PICK q : q = ts[i].queries
    OBVIOUS
  <2>4. IsList(q) /\ q # <<>>
    BY <2>3 DEF FitTopics, FitTopic, CleanTopic
  <2>5. Len(q) \in Nat \ {0}
    BY <2>4 DEF IsList
  <2> QED BY <2>1, <2>2, <2>3, <2>5
<1> QED BY <1>1, <1>3

\* Spending the budget on topics that fit changes nothing.
LEMMA FitTopicsAreSpent ==
    ASSUME NEW ts, FitTopics(ts)
    PROVE  Spend(ts) = ts
<1>1. /\ ListedTopics(ts)
      /\ \A i \in DOMAIN ts : /\ i \in Nat /\ Offered(ts, i) \in Nat
                              /\ Len(ts[i].queries) \in Nat \ {0}
  BY FitTopicsAreListed
<1>2. MaxTotal \in Nat
  BY Budgets
<1>3. ASSUME NEW i \in DOMAIN ts
      PROVE  /\ Left(ts, i) > 0
             /\ [ts[i] EXCEPT !.queries = Take(ts[i].queries, Left(ts, i))] = ts[i]
  <2>1. PICK o, l, q, t : /\ o = Offered(ts, i) /\ q = ts[i].queries /\ t = ts[i]
                          /\ l = Len(q)
    OBVIOUS
  <2>2. o \in Nat /\ l \in Nat \ {0} /\ o + l <= MaxTotal
    BY <1>1, <2>1 DEF FitTopics
  <2>3. PICK n : n = Left(ts, i)
    OBVIOUS
  <2>4. n = MaxTotal - o /\ n > 0 /\ n \in Nat /\ l <= n
    BY <1>2, <2>1, <2>2, <2>3 DEF Left
  <2>5. IsList(q)
    BY <1>1, <2>1 DEF ListedTopics
  <2>6. Take(q, n) = q
    BY <2>1, <2>4, <2>5, TakeAll
  <2>7. t = [name |-> t.name, queries |-> q, sources |-> t.sources, banned |-> t.banned]
    BY <2>1 DEF FitTopics, FitTopic, CleanTopic
  <2>8. [t EXCEPT !.queries = q] = t
    BY <2>7
  <2> QED BY <2>1, <2>3, <2>4, <2>6, <2>8
<1>4. IsList(ts)
  BY DEF FitTopics
<1>5. ts = [i \in DOMAIN ts |-> ts[i]]
  BY <1>4 DEF IsList
<1>6. Cut(ts) = ts
  BY <1>3, <1>5 DEF Cut
<1>7. {i \in DOMAIN ts : Left(ts, i) > 0} = DOMAIN ts
  BY <1>3
<1> QED BY <1>4, <1>6, <1>7, KeepAll DEF Spend

\* Topics that fit are neither merged nor cut.
LEMMA FitTopicsAreTaken ==
    ASSUME NEW ts, FitTopics(ts)
    PROVE  Spend(Take(FirstOf(ts, NameFolds(ts)), MaxTopics)) = ts
<1>1. PICK ks : ks = NameFolds(ts)
  OBVIOUS
<1>2. DOMAIN ks = DOMAIN ts /\ ks = [i \in DOMAIN ks |-> ks[i]]
  BY <1>1 DEF NameFolds
<1>3. IsList(ts) /\ Distinct(ks) /\ Len(ts) <= MaxTopics /\ MaxTopics \in Nat
  BY <1>1, Budgets DEF FitTopics
<1>4. IsList(ks)
  BY <1>2, <1>3, MapIsList
<1>5. Take(FirstOf(ts, ks), MaxTopics) = ts
  BY ONLY <1>2, <1>3, <1>4, FirstsTaken
<1> QED BY <1>1, <1>5, FitTopicsAreSpent

\* Topics with the names and searches of topics that fit, themselves in order.
LEMMA SameTopicsFit ==
    ASSUME NEW ts, FitTopics(ts), NEW hs, DOMAIN hs = DOMAIN ts, hs = [i \in DOMAIN hs |-> hs[i]],
           \A i \in DOMAIN ts : FitTopic(hs[i]) /\ SameTopic(hs[i], ts[i])
    PROVE  FitTopics(hs) /\ Len(hs) = Len(ts) /\ (ts # <<>> => hs # <<>>)
<1>1. /\ ListedTopics(ts)
      /\ \A i \in DOMAIN ts : i \in Nat /\ Offered(ts, i) \in Nat
  BY FitTopicsAreListed
<1>2. IsList(ts) /\ Len(ts) <= MaxTopics
  BY DEF FitTopics
<1>3. IsList(hs) /\ Len(hs) = Len(ts)
  BY ONLY <1>2, DOMAIN hs = DOMAIN ts, hs = [i \in DOMAIN hs |-> hs[i]], MapIsList
<1>4. ASSUME NEW i \in DOMAIN ts
      PROVE  /\ IsList(hs[i].queries) /\ hs[i].name = ts[i].name
             /\ Len(hs[i].queries) = Len(ts[i].queries)
             /\ DOMAIN hs[i].queries = DOMAIN ts[i].queries
  <2>1. PICK p, q : p = hs[i].queries /\ q = ts[i].queries
    OBVIOUS
  <2>2. IsList(p) /\ IsList(q) /\ Len(p) = Len(q) /\ hs[i].name = ts[i].name
    BY <1>1, <2>1 DEF FitTopic, CleanTopic, SameTopic, ListedTopics
  <2>3. DOMAIN p = DOMAIN q
    BY <2>2, ListIsNumbered DEF Numbered
  <2> QED BY <2>1, <2>2, <2>3
<1>5. ListedTopics(hs)
  BY <1>3, <1>4 DEF ListedTopics
<1>6. \A i \in DOMAIN hs : Offered(hs, i) + Len(hs[i].queries) <= MaxTotal
  <2> TAKE i \in DOMAIN hs
  <2>1. PICK a, b, l : a = Offered(hs, i) /\ b = Offered(ts, i) /\ l = Len(ts[i].queries)
    OBVIOUS
  <2>2. \A j \in DOMAIN hs : DOMAIN hs[j].queries \subseteq DOMAIN ts[j].queries
    BY <1>4
  <2>3. i \in Nat /\ i <= i /\ DOMAIN hs \subseteq DOMAIN ts
    BY <1>1
  <2>4. Offered(hs, i) \in Nat /\ Offered(ts, i) \in Nat /\ Offered(hs, i) <= Offered(ts, i)
    BY ONLY <1>1, <1>5, <2>2, <2>3, FewerOffered
  <2>5. b + l <= MaxTotal /\ Len(hs[i].queries) = l
    BY <1>4, <2>1 DEF FitTopics
  <2>6. l \in Nat /\ MaxTotal \in Nat
    BY <1>1, <2>1, ListIsNumbered, Budgets DEF ListedTopics, Numbered
  <2> QED BY <2>1, <2>4, <2>5, <2>6
<1>7. Distinct(NameFolds(hs))
  BY <1>4 DEF FitTopics, Distinct, NameFolds
<1>8. ts # <<>> => hs # <<>>
  BY <1>2, EmptyIsList DEF IsList
<1> QED BY <1>2, <1>3, <1>6, <1>7, <1>8 DEF FitTopics

\* The limits on keys.
LEMMA KeyLimits ==
    /\ KeyLen \in Nat \ {0} /\ SuffixedLen \in Nat /\ KeyLen <= SuffixedLen
    /\ RawKeyLen \in Nat /\ SuffixedLen <= RawKeyLen /\ MaxSuffix \in 2..99
BY BudgetAssumption

\* As much of it as there is, at most n.
LEMMA TakeLength ==
    ASSUME NEW s, IsList(s), NEW n \in Nat
    PROVE  /\ IsList(Take(s, n)) /\ Len(Take(s, n)) <= n /\ Len(Take(s, n)) <= Len(s)
           /\ Len(s) \in Nat /\ DOMAIN Take(s, n) \subseteq DOMAIN s
           /\ \A i \in DOMAIN Take(s, n) : Take(s, n)[i] = s[i]
           /\ s # <<>> /\ n # 0 => Take(s, n) # <<>>
<1>1. PICK m : m = IF Len(s) < n THEN Len(s) ELSE n
  OBVIOUS
<1>2. Len(s) \in Nat /\ (s # <<>> => Len(s) # 0)
  BY DEF IsList
<1>3. PICK t : t = Take(s, n)
  OBVIOUS
<1>4. t = SubSeq(s, 1, m)
  BY <1>1, <1>3 DEF Take
<1>5. m \in Nat /\ m <= Len(s) /\ m <= n
  BY <1>1, <1>2
<1>6. Len(t) = m
  BY <1>2, <1>4, <1>5 DEF IsList
<1>7. IsList(t) /\ \A i \in DOMAIN t : i \in DOMAIN s /\ t[i] = s[i]
  BY <1>3, TakeFacts
<1>8. s # <<>> /\ n # 0 => t # <<>>
  BY <1>1, <1>2, <1>6, EmptyIsList
<1> QED BY <1>2, <1>3, <1>5, <1>6, <1>7, <1>8

CutTo(t, n) == [t EXCEPT !.queries = Take(t.queries, n)]
WellCut(u, t, n) ==
    /\ FitTopic(u) /\ u.name = t.name /\ Len(u.queries) <= n
    /\ DOMAIN u.queries \subseteq DOMAIN t.queries

\* A topic that has been cut fits.
LEMMA CutTopicIsFit ==
    ASSUME NEW t, FitTopic(t), NEW n \in Nat \ {0}
    PROVE  WellCut(CutTo(t, n), t, n)
<1> SUFFICES ASSUME NEW u, u = [t EXCEPT !.queries = Take(t.queries, n)]
             PROVE  WellCut(u, t, n)
  BY DEF CutTo
<1>1. PICK q, p : q = t.queries /\ p = Take(q, n)
  OBVIOUS
<1>2. /\ t = [name |-> t.name, queries |-> q, sources |-> t.sources, banned |-> t.banned]
      /\ Clean(t.name) = t.name /\ q # <<>> /\ \A i \in DOMAIN q : CleanQuery(q[i])
      /\ \A i \in DOMAIN t.sources : t.sources[i] # NotADomain
      /\ IsList(q) /\ Len(q) <= MaxQueries /\ Distinct(Folds(q))
  BY <1>1 DEF FitTopic, CleanTopic
<1>3. u = [name |-> t.name, queries |-> p, sources |-> t.sources, banned |-> t.banned]
  BY <1>1, <1>2
<1>4. /\ u.name = t.name /\ u.queries = p /\ u.sources = t.sources /\ u.banned = t.banned
      /\ u = [name |-> u.name, queries |-> u.queries, sources |-> u.sources,
              banned |-> u.banned]
  <2>1. PICK a, d, e : a = t.name /\ d = t.sources /\ e = t.banned
    OBVIOUS
  <2>2. u = [name |-> a, queries |-> p, sources |-> d, banned |-> e]
    BY <1>3, <2>1
  <2> QED BY ONLY <2>1, <2>2
<1>5. n \in Nat /\ n # 0
  OBVIOUS
<1>6. /\ IsList(p) /\ Len(p) <= n /\ Len(p) <= Len(q) /\ Len(q) \in Nat
      /\ DOMAIN p \subseteq DOMAIN q /\ \A i \in DOMAIN p : p[i] = q[i]
      /\ q # <<>> => p # <<>>
  BY <1>1, <1>2, <1>5, TakeLength
<1>7. Len(p) \in Nat /\ MaxQueries \in Nat
  BY <1>6, ListIsNumbered, Budgets DEF Numbered
<1>8. Distinct(Folds(p))
  <2> SUFFICES ASSUME NEW i \in DOMAIN p, NEW j \in DOMAIN p, Fold(p[i].text) = Fold(p[j].text)
               PROVE  i = j
    BY DEF Distinct, Folds
  <2>1. i \in DOMAIN q /\ j \in DOMAIN q /\ Fold(q[i].text) = Fold(q[j].text)
    BY <1>6
  <2>2. Folds(q)[i] = Folds(q)[j] /\ DOMAIN Folds(q) = DOMAIN q
    BY <2>1 DEF Folds
  <2> QED BY <1>2, <2>1, <2>2 DEF Distinct
<1>9. CleanTopic(u)
  <2>1. \A i \in DOMAIN p : CleanQuery(p[i])
    BY <1>2, <1>6
  <2>2. IsList(t.sources) /\ IsList(t.banned)
    BY DEF FitTopic, CleanTopic
  <2> QED BY <1>2, <1>4, <1>6, <2>1, <2>2 DEF CleanTopic
<1>10. Len(p) <= MaxQueries
  BY <1>2, <1>6, <1>7
<1>11. /\ Len(u.sources) <= MaxSources /\ Distinct(u.sources)
       /\ Len(u.banned) <= MaxExclusions /\ Distinct(WordFolds(u.banned))
  BY <1>4 DEF FitTopic
<1>12. FitTopic(u)
  BY <1>4, <1>8, <1>9, <1>10, <1>11 DEF FitTopic
<1> QED BY <1>1, <1>4, <1>6, <1>12 DEF WellCut

\* Topics in order, each valid; spending the budget leaves the first ones.
LEMMA SpentTopicsAreFit ==
    ASSUME NEW us, IsList(us), us # <<>>, Len(us) <= MaxTopics, Distinct(NameFolds(us)),
           \A i \in DOMAIN us : FitTopic(us[i])
    PROVE  FitTopics(Spend(us)) /\ Spend(us) # <<>>
<1>1. ListedTopics(us)
  BY DEF ListedTopics, FitTopic, CleanTopic
<1>2. PICK L \in Nat : DOMAIN us = 1..L /\ L = Len(us) /\ L # 0
  BY ListIsNumbered, EmptyIsList DEF Numbered, IsList
<1>3. MaxTotal \in Nat \ {0} /\ MaxTopics \in Nat
  BY Budgets
<1> DEFINE kept == {i \in DOMAIN us : Left(us, i) > 0}
<1>4. \A i \in 1..L : Offered(us, i) \in Nat
  BY <1>1, FewerOffered
<1>5. \A i \in 1..L : /\ Left(us, i) > 0 <=> Offered(us, i) < MaxTotal
                      /\ Left(us, i) > 0 => /\ Left(us, i) = MaxTotal - Offered(us, i)
                                            /\ Left(us, i) \in Nat \ {0}
  <2> TAKE i \in 1..L
  <2>1. PICK o \in Nat : o = Offered(us, i)
    BY <1>4
  <2>2. PICK l : l = Left(us, i)
    OBVIOUS
  <2>3. l = IF o < MaxTotal THEN MaxTotal - o ELSE 0
    BY <2>1, <2>2 DEF Left
  <2>4. (l > 0 <=> o < MaxTotal) /\ (l > 0 => l = MaxTotal - o /\ l \in Nat \ {0})
    BY <1>3, <2>3
  <2> QED BY <2>1, <2>2, <2>4
<1>6. 1 \in kept
  <2>1. Offered(us, 1) = 0
    BY <1>1, NothingOffered
  <2>2. 1 \in 1..L /\ 0 < MaxTotal
    BY <1>2, <1>3
  <2> QED BY <1>2, <1>5, <2>1, <2>2
<1>7. \A i, j \in 1..L : i <= j /\ j \in kept => i \in kept
  <2> SUFFICES ASSUME NEW i \in 1..L, NEW j \in 1..L, i <= j, j \in kept PROVE i \in kept
    OBVIOUS
  <2>1. i \in Nat /\ j \in Nat
    OBVIOUS
  <2>2. PICK a, b \in Nat : a = Offered(us, i) /\ b = Offered(us, j)
    BY <1>4
  <2>3. a <= b
    BY <1>1, <2>1, <2>2, FewerOffered
  <2>4. b < MaxTotal
    BY <1>5, <2>2
  <2>5. a < MaxTotal
    BY <1>3, <2>3, <2>4
  <2> QED BY <1>2, <1>5, <2>2, <2>5
<1>8. PICK k \in 1..L : kept = 1..k
  <2>1. kept \in SUBSET (1..L) /\ kept # {}
    BY <1>2, <1>6
  <2>2. PICK k \in kept : \A i \in kept : i <= k
    BY <2>1, LargestExists
  <2>3. k \in 1..L /\ \A i \in 1..k : i \in 1..L /\ i <= k
    BY <2>1
  <2>4. kept = 1..k
    <3>1. \A i \in 1..k : i \in kept
      BY <1>7, <2>2, <2>3
    <3>2. \A i \in kept : i \in 1..k
      BY <2>1, <2>2
    <3> QED BY <3>1, <3>2
  <2> QED BY <2>3, <2>4
<1>9. PICK ts : ts = Spend(us)
  OBVIOUS
<1>10. ts = [i \in 1..k |-> Cut(us)[i]]
  <2>1. ts = Keep(Cut(us), 1..k)
    BY <1>8, <1>9 DEF Spend
  <2>2. k \in Nat
    OBVIOUS
  <2> QED BY <2>1, <2>2, KeepPrefix
<1>11. IsList(ts) /\ DOMAIN ts = 1..k /\ Len(ts) = k
  <2>1. DOMAIN ts = 1..k /\ ts = [i \in 1..k |-> ts[i]] /\ k \in Nat
    BY <1>10
  <2> QED BY <2>1, ListOf
<1>12. \A i \in 1..k :
          /\ FitTopic(us[i]) /\ i \in 1..L /\ Left(us, i) \in Nat \ {0}
          /\ Left(us, i) = MaxTotal - Offered(us, i)
          /\ ts[i] = [us[i] EXCEPT !.queries = Take(us[i].queries, Left(us, i))]
  <2> TAKE i \in 1..k
  <2>1. i \in kept /\ i \in 1..L
    BY <1>8
  <2>2. ts[i] = Cut(us)[i]
    BY <1>10
  <2>3. Cut(us)[i] = [us[i] EXCEPT !.queries = Take(us[i].queries, Left(us, i))]
    BY <1>2, <2>1 DEF Cut
  <2> QED BY <1>2, <1>5, <2>1, <2>2, <2>3
<1>13. \A i \in 1..k :
          /\ FitTopic(ts[i]) /\ ts[i].name = us[i].name /\ Len(ts[i].queries) <= Left(us, i)
          /\ DOMAIN ts[i].queries \subseteq DOMAIN us[i].queries
  <2> TAKE i \in 1..k
  <2>1. FitTopic(us[i]) /\ Left(us, i) \in Nat \ {0}
    BY <1>12
  <2>2. WellCut(CutTo(us[i], Left(us, i)), us[i], Left(us, i))
    BY <2>1, CutTopicIsFit
  <2>3. ts[i] = CutTo(us[i], Left(us, i))
    BY <1>12 DEF CutTo
  <2>4. WellCut(ts[i], us[i], Left(us, i))
    BY <2>2, <2>3
  <2> QED BY <2>4 DEF WellCut
<1>14. ListedTopics(ts)
  BY <1>11, <1>13 DEF ListedTopics, FitTopic, CleanTopic
<1>15. \A i \in 1..k : Offered(ts, i) + Len(ts[i].queries) <= MaxTotal
  <2> TAKE i \in 1..k
  <2>1. i \in Nat /\ i \in 1..L
    BY <1>12
  <2>2. DOMAIN ts \subseteq DOMAIN us
    BY <1>2, <1>8, <1>11
  <2>3. \A j \in DOMAIN ts : DOMAIN ts[j].queries \subseteq DOMAIN us[j].queries
    BY <1>11, <1>13
  <2>4. Offered(ts, i) \in Nat /\ Offered(us, i) \in Nat /\ Offered(ts, i) <= Offered(us, i)
    BY ONLY <1>1, <1>14, <2>1, <2>2, <2>3, FewerOffered
  <2>5. PICK a, b, l, n : /\ a = Offered(ts, i) /\ b = Offered(us, i)
                          /\ l = Len(ts[i].queries) /\ n = Left(us, i)
    OBVIOUS
  <2>6. l <= n /\ n = MaxTotal - b
    BY <1>12, <1>13, <2>5
  <2>7. l \in Nat
    BY <1>11, <1>14, <2>5, ListIsNumbered DEF ListedTopics, Numbered
  <2>8. a + l <= MaxTotal
    BY <1>3, <2>4, <2>5, <2>6, <2>7
  <2> QED BY <2>5, <2>8
<1>16. Distinct(NameFolds(ts))
  <2> SUFFICES ASSUME NEW i \in DOMAIN ts, NEW j \in DOMAIN ts, Fold(ts[i].name) = Fold(ts[j].name)
               PROVE  i = j
    BY DEF Distinct, NameFolds
  <2>1. i \in DOMAIN us /\ j \in DOMAIN us /\ Fold(us[i].name) = Fold(us[j].name)
    BY <1>2, <1>11, <1>12, <1>13
  <2>2. NameFolds(us)[i] = NameFolds(us)[j] /\ DOMAIN NameFolds(us) = DOMAIN us
    BY <2>1 DEF NameFolds
  <2> QED BY <2>1, <2>2 DEF Distinct
<1>17. Len(ts) <= MaxTopics
  BY <1>2, <1>3, <1>11
<1>18. ts # <<>>
  <2>1. 1 \in DOMAIN ts
    BY <1>6, <1>8, <1>11
  <2> QED BY <2>1, EmptyIsList
<1>19. FitTopics(ts)
  BY <1>11, <1>13, <1>15, <1>16, <1>17 DEF FitTopics
<1> QED BY <1>9, <1>18, <1>19

\* The first part of a list that is not empty keeps its first entry.
LEMMA TakeStarts ==
    ASSUME NEW s, IsList(s), s # <<>>, NEW n \in Nat \ {0}
    PROVE  /\ IsList(Take(s, n)) /\ Len(Take(s, n)) \in 1..n
           /\ Take(s, n)[1] = s[1] /\ Take(s, n) # <<>>
           /\ \A i \in DOMAIN Take(s, n) : i \in DOMAIN s /\ Take(s, n)[i] = s[i]
<1>1. PICK t : t = Take(s, n)
  OBVIOUS
<1>2. /\ IsList(t) /\ Len(t) <= n /\ t # <<>> /\ DOMAIN t \subseteq DOMAIN s
      /\ \A i \in DOMAIN t : t[i] = s[i]
  BY <1>1, TakeLength
<1>3. Len(t) \in Nat /\ DOMAIN t = 1..Len(t) /\ Len(t) # 0
  BY <1>2, EmptyIsList DEF IsList
<1>4. 1 \in DOMAIN t
  BY <1>3
<1> QED BY <1>1, <1>2, <1>3, <1>4

\* Validation makes a key of any list of characters.
LEMMA KeyOfIsKey ==
    ASSUME NEW c, IsList(c.key), IsKey(Slug(Clean(c.name)))
    PROVE  IsKey(KeyOf(c))
<1>1. PICK k, u, kept : /\ k = CleanKey(c.key) /\ kept = {i \in DOMAIN c.key : c.key[i] \in 0..Dash}
                        /\ u = Keep(c.key, kept)
  OBVIOUS
<1>2. IsList(u) /\ \A n \in DOMAIN u : u[n] \in 0..Dash
  <2>1. kept \in SUBSET DOMAIN c.key
    BY <1>1
  <2>2. Entries(u, c.key, kept)
    BY <1>1, <2>1, KeepIsList
  <2> QED BY <1>1, <2>2 DEF Entries
<1>3. k = Take(u, KeyLen)
  BY <1>1 DEF CleanKey
<1>4. CASE k = <<>> \/ k[1] \in {Underscore, Dash}
  BY <1>1, <1>4 DEF KeyOf
<1>5. CASE k # <<>> /\ k[1] \notin {Underscore, Dash}
  <2>1. KeyOf(c) = k
    BY <1>1, <1>5 DEF KeyOf
  <2>2. u # <<>>
    <3>1. KeyLen \in Nat
      BY KeyLimits
    <3>2. u = <<>> => DOMAIN k \subseteq {}
      BY <1>2, <1>3, <3>1, TakeLength, EmptyIsList
    <3>3. IsList(k)
      BY <1>2, <1>3, <3>1, TakeLength
    <3> QED BY <1>5, <3>2, <3>3 DEF IsList
  <2>3. /\ IsList(k) /\ Len(k) \in 1..KeyLen
        /\ \A i \in DOMAIN k : i \in DOMAIN u /\ k[i] = u[i]
    BY <1>2, <1>3, <2>2, KeyLimits, TakeStarts
  <2> QED BY <1>2, <1>5, <2>1, <2>3 DEF IsKey
<1> QED BY <1>4, <1>5

\* A key within its limit is one that may be shown; a suffix keeps it one.
LEMMA KeyIsShown ==
    ASSUME NEW k, IsKey(k)
    PROVE  ShownKey(k)
BY KeyLimits DEF IsKey, ShownKey

LEMMA SuffixedIsShown ==
    ASSUME NEW key, IsKey(key), NEW suffix, IsList(suffix),
           \A i \in DOMAIN suffix : suffix[i] \in 0..Dash
    PROVE  ShownKey(Suffixed(key, suffix))
<1>1. PICK a, b, m : m = <<Underscore>> /\ a = key \o m /\ b = a \o suffix
  OBVIOUS
<1>2. /\ IsList(key) /\ Len(key) \in Nat \ {0} /\ key[1] \notin {Underscore, Dash}
      /\ \A i \in DOMAIN key : key[i] \in 0..Dash
  BY KeyLimits DEF IsKey
<1>3. IsList(m) /\ DOMAIN m = {1} /\ m[1] \in 0..Dash
  BY <1>1 DEF IsList, Underscore, Dash
<1>4. DOMAIN key = 1..Len(key) /\ 1 \in DOMAIN key
  BY <1>2 DEF IsList
<1>5. Concatenated(a, key, m)
  BY <1>1, <1>2, <1>3, ConcatFacts
<1>6. IsList(a) /\ 1 \in DOMAIN a /\ a[1] = key[1] /\ \A n \in DOMAIN a : a[n] \in 0..Dash
  BY <1>2, <1>3, <1>4, <1>5 DEF Concatenated
<1>7. Concatenated(b, a, suffix)
  BY <1>1, <1>6, ConcatFacts
<1>8. IsList(b) /\ 1 \in DOMAIN b /\ b[1] = key[1] /\ \A n \in DOMAIN b : b[n] \in 0..Dash
  BY <1>6, <1>7 DEF Concatenated
<1>9. b # <<>>
  BY <1>8, EmptyIsList
<1>10. PICK s : s = Suffixed(key, suffix)
  OBVIOUS
<1>11. s = Take(b, SuffixedLen)
  BY <1>1, <1>10 DEF Suffixed
<1>12. SuffixedLen \in Nat \ {0}
  BY KeyLimits
<1>13. /\ IsList(s) /\ Len(s) \in 1..SuffixedLen /\ s[1] = b[1]
       /\ \A i \in DOMAIN s : i \in DOMAIN b /\ s[i] = b[i]
  BY <1>8, <1>9, <1>11, <1>12, TakeStarts
<1>14. ShownKey(s)
  BY <1>2, <1>8, <1>13 DEF ShownKey
<1> QED BY <1>10, <1>14

\* A suffix is a number of at most two digits.
LEMMA DigitsAreCharacters ==
    ASSUME NEW n \in 2..MaxSuffix
    PROVE  IsList(Digits(n)) /\ \A i \in DOMAIN Digits(n) : Digits(n)[i] \in 0..Dash
<1>1. n \in 2..99
  BY KeyLimits
<1>2. CASE n < 10
  <2>1. Digits(n) = <<n>> /\ n \in 0..Dash
    BY <1>1, <1>2 DEF Digits, Dash
  <2> QED BY <2>1 DEF IsList
<1>3. CASE ~(n < 10)
  <2>1. PICK a, b : a = n \div 10 /\ b = n % 10
    OBVIOUS
  <2>2. a \in 0..9 /\ b \in 0..9
    BY <1>1, <2>1
  <2>3. Digits(n) = <<a, b>>
    BY <1>3, <2>1 DEF Digits
  <2> QED BY <2>2, <2>3 DEF IsList, Dash
<1> QED BY <1>2, <1>3

\* A key made unique may be shown.
LEMMA UniqueKeyIsShown ==
    ASSUME NEW key, IsKey(key), NEW taken
    PROVE  ShownKey(UniqueKey(key, taken))
<1>1. PICK free : free = {n \in 2..MaxSuffix : Suffixed(key, Digits(n)) \notin taken}
  OBVIOUS
<1>2. CASE key \in taken /\ free = {}
  <2>1. IsList(<<33>>) /\ \A i \in DOMAIN <<33>> : <<33>>[i] \in 0..Dash
    BY DEF IsList, Dash
  <2>2. UniqueKey(key, taken) = Suffixed(key, <<33>>)
    BY <1>1, <1>2 DEF UniqueKey
  <2> QED BY <2>1, <2>2, SuffixedIsShown
<1>3. CASE key \in taken /\ free # {}
  <2>1. PICK n : n = CHOOSE k \in free : \A m \in free : k <= m
    OBVIOUS
  <2>2. free \in SUBSET Nat
    BY <1>1, KeyLimits
  <2>3. \E x \in free : \A m \in free : x <= m
    BY <1>3, <2>2, SmallestExists
  <2>4. n \in free
    BY <2>1, <2>3
  <2>5. n \in 2..MaxSuffix
    BY <1>1, <2>4
  <2>6. UniqueKey(key, taken) = Suffixed(key, Digits(n))
    BY <1>1, <1>3, <2>1 DEF UniqueKey
  <2> QED BY <2>5, <2>6, DigitsAreCharacters, SuffixedIsShown
<1>4. CASE key \notin taken
  <2>1. UniqueKey(key, taken) = key
    BY <1>4 DEF UniqueKey
  <2> QED BY <2>1, KeyIsShown
<1> QED BY <1>2, <1>3, <1>4

\* Validated again, a key that is shown is cut, and nothing else.
LEMMA ShownKeyIsCut ==
    ASSUME NEW c, ShownKey(c.key)
    PROVE  KeyOf(c) = Take(c.key, KeyLen) /\ ~(Len(c.key) > RawKeyLen)
<1>1. PICK k : k = c.key
  OBVIOUS
<1>2. /\ IsList(k) /\ Len(k) \in 1..SuffixedLen /\ k[1] \notin {Underscore, Dash}
      /\ \A i \in DOMAIN k : k[i] \in 0..Dash
  BY <1>1 DEF ShownKey
<1>3. {i \in DOMAIN k : k[i] \in 0..Dash} = DOMAIN k
  BY <1>2
<1>4. CleanKey(k) = Take(k, KeyLen)
  BY <1>2, <1>3, KeepAll DEF CleanKey
<1>5. k # <<>>
  BY <1>2, KeyLimits, EmptyIsList
<1>6. Take(k, KeyLen)[1] = k[1] /\ Take(k, KeyLen) # <<>>
  BY <1>2, <1>5, KeyLimits, TakeStarts
<1>7. KeyOf(c) = Take(k, KeyLen)
  BY <1>1, <1>2, <1>4, <1>6 DEF KeyOf
<1>8. ~(Len(k) > RawKeyLen)
  BY <1>2, KeyLimits
<1> QED BY <1>1, <1>7, <1>8

\* What is read of a payload or of a form.
ProposedConfig(c) ==
    /\ IsList(c.key) /\ IsList(c.topics) /\ \A i \in DOMAIN c.topics : Proposed(c.topics[i])
    /\ Settles(c.name) /\ IsKey(Slug(Clean(c.name)))

\* A draft that has been validated fits.
LEMMA ValidatedConfigIsFit ==
    ASSUME NEW c, ProposedConfig(c), ~ConfigRefused(c)
    PROVE  FitConfig(GeneratedConfig(c)) /\ IsKey(GeneratedConfig(c).key)
<1>1. PICK ps : ps = c.topics
  OBVIOUS
<1>2. /\ IsList(ps) /\ ps # <<>> /\ IsList(c.key)
      /\ \A i \in DOMAIN ps : Proposed(ps[i]) /\ ~TopicRefused(ps[i])
  BY <1>1 DEF ProposedConfig, ConfigRefused
<1>3. PICK ts : ts = [i \in DOMAIN ps |-> GeneratedTopic(ps[i])]
  OBVIOUS
<1>4. DOMAIN ts = DOMAIN ps /\ ts = [i \in DOMAIN ts |-> ts[i]]
  BY <1>3
<1>5. IsList(ts) /\ ts # <<>>
  <2>1. IsList(ts)
    BY <1>2, <1>4, MapIsList
  <2>2. DOMAIN ps # {}
    BY <1>2 DEF IsList
  <2> QED BY <1>4, <2>1, <2>2, EmptyIsList
<1>6. \A i \in DOMAIN ts : FitTopic(ts[i])
  BY <1>2, <1>3, ValidatedTopicIsFit
<1>7. PICK ks : ks = NameFolds(ts)
  OBVIOUS
<1>8. /\ DOMAIN ks = DOMAIN ts /\ ks = [i \in DOMAIN ks |-> ks[i]]
      /\ \A i \in DOMAIN ts : ks[i] = Fold(ts[i].name)
  BY <1>7 DEF NameFolds
<1>9. IsList(ks)
  BY <1>5, <1>8, MapIsList
<1>10. \A i, j \in DOMAIN ts : ts[i] = ts[j] => ks[i] = ks[j]
  BY <1>8
<1>11. MaxTopics \in Nat /\ MaxTopics # 0
  BY Budgets
<1>12. PICK us : us = Take(FirstOf(ts, ks), MaxTopics)
  OBVIOUS
<1>13. Part(us, ts, ks) /\ Len(us) <= MaxTopics /\ us # <<>>
  BY ONLY <1>5, <1>8, <1>9, <1>10, <1>11, <1>12, FirstsWithin
<1>14. IsList(us) /\ \A n \in DOMAIN us : \E i \in DOMAIN ts : us[n] = ts[i]
  BY <1>13 DEF Part
<1>15. \A n \in DOMAIN us : FitTopic(us[n])
  BY <1>6, <1>14
<1>16. Distinct(NameFolds(us))
  <2> SUFFICES ASSUME NEW m \in DOMAIN us, NEW n \in DOMAIN us, Fold(us[m].name) = Fold(us[n].name)
               PROVE  m = n
    BY DEF Distinct, NameFolds
  <2>1. PICK i \in DOMAIN ts, j \in DOMAIN ts : us[m] = ts[i] /\ us[n] = ts[j]
    BY <1>14
  <2>2. ks[i] = ks[j]
    BY <1>8, <2>1
  <2> QED BY <1>13, <2>1, <2>2 DEF Part
<1>17. FitTopics(Spend(us)) /\ Spend(us) # <<>>
  BY ONLY <1>13, <1>14, <1>15, <1>16, SpentTopicsAreFit
<1>18. PICK k, n, s : k = KeyOf(c) /\ n = Clean(c.name) /\ s = Spend(us)
  OBVIOUS
<1>19. IsKey(k) /\ ShownKey(k) /\ Clean(n) = n /\ IsKey(Slug(n))
  BY <1>18, KeyOfIsKey, KeyIsShown DEF ProposedConfig, Settles
<1>20. PICK g : g = GeneratedConfig(c)
  OBVIOUS
<1>21. g = [name |-> n, key |-> k, topics |-> s]
  BY <1>1, <1>3, <1>7, <1>12, <1>18, <1>20 DEF GeneratedConfig
<1>22. /\ g.name = n /\ g.key = k /\ g.topics = s
       /\ g = [name |-> g.name, key |-> g.key, topics |-> g.topics]
  BY <1>21
<1>23. FitConfig(g)
  BY <1>17, <1>18, <1>19, <1>22 DEF FitConfig
<1> QED BY <1>19, <1>20, <1>22, <1>23

\* A topic out of the answer of a model is one to validate.
LEMMA CoercedTopicIsProposed ==
    ASSUME NEW p, p = Junk \/ Proposed(p)
    PROVE  Proposed(CoerceTopic(p))
<1>1. CASE p = Junk
  <2>1. CoerceTopic(p) = [name |-> Blank, queries |-> <<>>, sources |-> <<>>, banned |-> <<>>]
    BY <1>1 DEF CoerceTopic
  <2> QED BY <2>1, EmptyIsList, MonitoringAssumption DEF Proposed, Settles
<1>2. CASE p # Junk
  <2>1. PICK q, s, b : q = p.queries /\ s = p.sources /\ b = p.banned
    OBVIOUS
  <2>2. /\ IsList(q) /\ IsList(s) /\ IsList(b)
        /\ Settles(p.name) /\ \A i \in DOMAIN q : Settles(q[i].text)
    BY <1>2, <2>1 DEF Proposed
  <2>3. PICK u, v, w : /\ u = Keep(q, {i \in DOMAIN q : Clean(q[i].text) # Blank})
                       /\ v = Keep(s, {i \in DOMAIN s : CleanDomain(s[i]) # NotADomain})
                       /\ w = Keep(b, {i \in DOMAIN b : Clean(b[i]) # Blank})
    OBVIOUS
  <2>4. IsList(u) /\ IsList(v) /\ IsList(w)
    BY <2>2, <2>3, KeepIsList DEF Entries
  <2>5. \A n \in DOMAIN u : Settles(u[n].text)
    <3>1. Entries(u, q, {i \in DOMAIN q : Clean(q[i].text) # Blank})
      BY <2>2, <2>3, KeepIsList
    <3> QED BY <2>2, <3>1 DEF Entries
  <2>6. CoerceTopic(p) = [name |-> p.name, queries |-> u, sources |-> v, banned |-> w]
    BY <1>2, <2>1, <2>3 DEF CoerceTopic
  <2> QED BY <2>2, <2>4, <2>5, <2>6 DEF Proposed
<1> QED BY <1>1, <1>2

\* So is a draft.
LEMMA CoercedPayloadIsProposed ==
    ASSUME NEW p \in Payloads
    PROVE  ProposedConfig(CoercePayload(p))
<1>1. PICK ts : ts = p.topics
  OBVIOUS
<1>2. /\ IsList(p.key) /\ IsList(ts) /\ Settles(p.name)
      /\ IsKey(Slug(p.name)) /\ IsKey(Slug(Clean(p.name)))
      /\ \A i \in DOMAIN ts : ts[i] \notin {Blank, Junk} => Proposed(ts[i])
  BY <1>1, MonitoringAssumption
<1>3. PICK some, kept : /\ kept = {i \in DOMAIN ts : ts[i] # Blank}
                        /\ some = Keep(ts, kept)
  OBVIOUS
<1>4. Entries(some, ts, kept)
  BY <1>2, <1>3, KeepIsList
<1>5. \A n \in DOMAIN some : some[n] = Junk \/ Proposed(some[n])
  BY <1>2, <1>3, <1>4 DEF Entries
<1>6. \A n \in DOMAIN some : Proposed(CoerceTopic(some[n]))
  BY <1>5, CoercedTopicIsProposed
<1>7. PICK r, k : /\ r = [i \in DOMAIN some |-> CoerceTopic(some[i])]
                  /\ k = IF p.key = <<>> THEN Slug(p.name) ELSE p.key
  OBVIOUS
<1>8. /\ DOMAIN r = DOMAIN some /\ r = [i \in DOMAIN r |-> r[i]]
      /\ \A i \in DOMAIN r : Proposed(r[i])
  BY <1>6, <1>7
<1>9. IsList(r)
  BY <1>4, <1>8, MapIsList DEF Entries
<1>10. IsList(k)
  BY <1>2, <1>7 DEF IsKey
<1>11. CoercePayload(p) = [name |-> p.name, key |-> k, topics |-> r]
  BY <1>1, <1>3, <1>7 DEF CoercePayload, Without
<1> QED BY <1>2, <1>8, <1>9, <1>10, <1>11 DEF ProposedConfig

\* The page that is shown.
LEMMA ShownModuleIsFit ==
    ASSUME NEW p \in Payloads, ~ConfigRefused(CoercePayload(p)), NEW taken
    PROVE  FitConfig(ModuleDraft(p, taken))
<1>1. PICK c : c = GeneratedConfig(CoercePayload(p))
  OBVIOUS
<1>2. FitConfig(c) /\ IsKey(c.key)
  BY <1>1, CoercedPayloadIsProposed, ValidatedConfigIsFit
<1>3. PICK n, k, ts, u : /\ n = c.name /\ k = c.key /\ ts = c.topics
                         /\ u = UniqueKey(k, taken)
  OBVIOUS
<1>4. /\ c = [name |-> n, key |-> k, topics |-> ts] /\ Clean(n) = n /\ IsKey(Slug(n))
      /\ ts # <<>> /\ FitTopics(ts)
  BY <1>2, <1>3 DEF FitConfig
<1>5. ShownKey(u)
  BY <1>2, <1>3, UniqueKeyIsShown
<1>6. PICK d : d = ModuleDraft(p, taken)
  OBVIOUS
<1>7. d = [name |-> n, key |-> u, topics |-> ts]
  <2>1. d = [c EXCEPT !.key = u]
    BY <1>1, <1>3, <1>6 DEF ModuleDraft
  <2> QED BY <1>4, <2>1
<1>8. /\ d.name = n /\ d.key = u /\ d.topics = ts
      /\ d = [name |-> d.name, key |-> d.key, topics |-> d.topics]
  BY <1>7
<1>9. FitConfig(d)
  BY <1>4, <1>5, <1>8 DEF FitConfig
<1> QED BY <1>6, <1>9

\* A module posted as it is shown is spoilt, or applied as it is shown.
LEMMA PostedModuleIsShown ==
    ASSUME NEW c, FitConfig(c),
           NEW form, form = ConfigFromForm(c, [i \in DOMAIN c.topics |-> i])
    PROVE  IF FormRefused(form)
           THEN c.name \in BadNames \/ \E i \in DOMAIN c.topics : Spoilt(c.topics[i], 2)
           ELSE \A posted \in {PostedConfig(form)} :
                   /\ posted.name = c.name /\ posted.key = Take(c.key, KeyLen)
                   /\ Len(posted.topics) = Len(c.topics)
                   /\ \A i \in DOMAIN c.topics : SameTopic(posted.topics[i], c.topics[i])
<1>1. PICK ts, n, k : ts = c.topics /\ n = c.name /\ k = c.key
  OBVIOUS
<1>2. /\ FitTopics(ts) /\ ts # <<>> /\ Clean(n) = n /\ ShownKey(k)
      /\ IsList(ts) /\ \A i \in DOMAIN ts : FitTopic(ts[i])
  BY <1>1 DEF FitConfig, FitTopics
<1>3. PICK rs, gs : /\ rs = [i \in DOMAIN ts |-> TopicFromForm(ts[i])]
                    /\ gs = [i \in DOMAIN ts |-> GeneratedTopic(rs[i])]
  OBVIOUS
<1>4. form = [name |-> n, key |-> k, topics |-> rs]
  <2>1. PICK all : all = [i \in DOMAIN ts |-> i]
    OBVIOUS
  <2>2. DOMAIN all = DOMAIN ts /\ \A i \in DOMAIN ts : all[i] = i
    BY <2>1
  <2>3. [i \in DOMAIN all |-> TopicFromForm(ts[all[i]])] = rs
    BY <1>3, <2>2
  <2> QED BY <1>1, <2>1, <2>3 DEF ConfigFromForm
<1>5. PICK v : v = Validated(form)
  OBVIOUS
<1>6. v = [name |-> n, key |-> k, topics |-> gs]
  <2>1. form.topics = rs /\ DOMAIN rs = DOMAIN ts
    BY <1>3, <1>4
  <2>2. [i \in DOMAIN rs |-> GeneratedTopic(rs[i])] = gs
    BY <1>3, <2>1
  <2> QED BY <1>4, <1>5, <2>1, <2>2 DEF Validated
<1>7. v.name = n /\ v.key = k /\ v.topics = gs /\ form.topics = rs
  BY <1>4, <1>6
<1>8. ~(Len(k) > RawKeyLen) /\ KeyOf(v) = Take(k, KeyLen)
  BY <1>2, <1>7, ShownKeyIsCut
<1>9. gs # <<>>
  <2>1. DOMAIN ts # {} /\ DOMAIN gs = DOMAIN ts
    BY <1>2, <1>3 DEF IsList
  <2> QED BY <2>1, EmptyIsList
<1>10. CASE \E i \in DOMAIN ts : TopicRefused(rs[i])
  <2>1. PICK i \in DOMAIN ts : TopicRefused(TopicFromForm(ts[i]))
    BY <1>3, <1>10
  <2>2. Spoilt(ts[i], 2)
    BY <1>2, <2>1, FormIsTakenOrSpoilt
  <2>3. FormRefused(form)
    BY <1>3, <1>7, <1>10 DEF FormRefused
  <2> QED BY <1>1, <2>2, <2>3
<1>11. CASE \A i \in DOMAIN ts : ~TopicRefused(rs[i])
  <2>1. \A i \in DOMAIN ts :
           FitTopic(gs[i]) /\ SameTopic(gs[i], ts[i]) /\ (TopicRefused(gs[i]) => Spoilt(ts[i], 2))
    <3> TAKE i \in DOMAIN ts
    <3>1. ~TopicRefused(TopicFromForm(ts[i])) /\ gs[i] = GeneratedTopic(TopicFromForm(ts[i]))
      BY <1>3, <1>11
    <3> QED BY <1>2, <3>1, PostedTopicIsShown
  <2>2. CASE ConfigRefused(v)
    <3>1. n \in BadNames \/ \E i \in DOMAIN gs : TopicRefused(gs[i])
      BY <1>7, <1>8, <1>9, <2>2 DEF ConfigRefused
    <3>2. n \in BadNames \/ \E i \in DOMAIN ts : Spoilt(ts[i], 2)
      BY <1>3, <2>1, <3>1
    <3>3. FormRefused(form)
      BY <1>5, <2>2 DEF FormRefused
    <3> QED BY <1>1, <3>2, <3>3
  <2>3. CASE ~ConfigRefused(v)
    <3>1. ~FormRefused(form)
      BY <1>3, <1>5, <1>7, <1>11, <2>3 DEF FormRefused
    <3>2. PICK hs : hs = [i \in DOMAIN gs |-> GeneratedTopic(gs[i])]
      OBVIOUS
    <3>3. DOMAIN hs = DOMAIN ts /\ hs = [i \in DOMAIN hs |-> hs[i]]
      BY <1>3, <3>2
    <3>4. \A i \in DOMAIN ts : FitTopic(hs[i]) /\ SameTopic(hs[i], ts[i])
      <4> TAKE i \in DOMAIN ts
      <4>1. hs[i] = GeneratedTopic(gs[i]) /\ i \in DOMAIN gs
        BY <1>3, <3>2
      <4>2. FitTopic(gs[i]) /\ SameTopic(gs[i], ts[i]) /\ ~TopicRefused(gs[i])
        BY <1>7, <2>1, <2>3, <4>1 DEF ConfigRefused
      <4>3. FitTopic(hs[i])
        BY <4>1, <4>2, FitTopicIsProposed, ValidatedTopicIsFit
      <4>4. PICK g : g = gs[i]
        OBVIOUS
      <4>5. /\ IsList(g.queries) /\ Clean(g.name) = g.name
            /\ \A j \in DOMAIN g.queries : CleanQuery(g.queries[j])
            /\ Len(g.queries) <= MaxQueries /\ Distinct(Folds(g.queries))
        BY <4>2, <4>4 DEF FitTopic, CleanTopic
      <4>6. SameTopic(hs[i], g)
        BY <4>1, <4>4, <4>5, SearchesStay
      <4>7. IsList(ts[i].queries)
        BY <1>2 DEF FitTopic, CleanTopic
      <4>8. SameTopic(hs[i], ts[i])
        BY <4>2, <4>4, <4>5, <4>6, <4>7, ListIsNumbered DEF SameTopic, Numbered
      <4> QED BY <4>3, <4>8
    <3>5. FitTopics(hs) /\ Len(hs) = Len(ts)
      BY <1>2, <3>3, <3>4, SameTopicsFit
    <3>6. PICK p : p = PostedConfig(form)
      OBVIOUS
    <3>7. p = [name |-> Clean(n), key |-> KeyOf(v),
               topics |-> Spend(Take(FirstOf(hs, NameFolds(hs)), MaxTopics))]
      BY <1>5, <1>7, <3>2, <3>6 DEF PostedConfig, GeneratedConfig
    <3>8. p.name = n /\ p.key = Take(k, KeyLen) /\ p.topics = hs
      BY <1>2, <1>8, <3>5, <3>7, FitTopicsAreTaken
    <3> QED BY <1>1, <3>1, <3>4, <3>5, <3>6, <3>8
  <2> QED BY <2>2, <2>3
<1> QED BY <1>10, <1>11

\* Posted with some of its topics and any key, it can be validated.
LEMMA PostIsProposed ==
    ASSUME FitConfig(page.draft), NEW c \in Posts, ~FormRefused(c)
    PROVE  ProposedConfig(Validated(c))
<1>1. PICK d, ts : d = page.draft /\ ts = d.topics
  OBVIOUS
<1>2. /\ FitTopics(ts) /\ IsList(d.key) /\ d = [name |-> d.name, key |-> d.key, topics |-> ts]
      /\ Clean(d.name) = d.name /\ IsKey(Slug(d.name))
  BY <1>1 DEF FitConfig, ShownKey
<1>3. PICK L \in Nat : DOMAIN ts = 1..L
  BY <1>2, ListIsNumbered DEF FitTopics, Numbered
<1>4. PICK some \in SUBSET DOMAIN ts, key \in ModuleKeys \cup {d.key} :
         c = [ConfigFromForm(d, [n \in 1..Cardinality(some) |-> Position(some, n)])
                EXCEPT !.key = key]
  <2>1. PICK some \in SUBSET DOMAIN page.draft.topics,
             key \in ModuleKeys \cup {page.draft.key} : c = Posted(some, key)
    BY DEF Posts
  <2>2. c = [ConfigFromForm(d, [n \in 1..Cardinality(some) |-> Position(some, n)])
                EXCEPT !.key = key]
    BY <1>1, <2>1 DEF Posted
  <2>3. some \in SUBSET DOMAIN ts /\ key \in ModuleKeys \cup {d.key}
    BY <1>1, <2>1
  <2> QED BY <2>2, <2>3
<1>5. IsList(key)
  BY <1>2, MonitoringAssumption
<1>6. PICK N : N = Cardinality(some)
  OBVIOUS
<1>7. N \in Nat /\ \A n \in 1..N : Position(some, n) \in DOMAIN ts
  <2>1. some \in SUBSET (1..L)
    BY <1>3
  <2>2. IsFiniteSet(some) /\ N \in Nat /\ \A n \in 1..N : Position(some, n) \in some
    BY ONLY <1>6, <2>1, PositionsAreOrdered, L \in Nat
  <2> QED BY <2>2
<1>8. PICK on : on = [n \in 1..N |-> Position(some, n)]
  OBVIOUS
<1>9. PICK rs : rs = [n \in DOMAIN on |-> TopicFromForm(ts[on[n]])]
  OBVIOUS
<1>10. /\ DOMAIN rs = 1..N /\ rs = [n \in 1..N |-> rs[n]]
       /\ \A n \in 1..N : rs[n] = TopicFromForm(ts[Position(some, n)])
  BY <1>8, <1>9
<1>11. IsList(rs)
  BY <1>7, <1>10, ListOf
<1>12. \A n \in DOMAIN rs : Proposed(rs[n])
  <2>1. \A i \in DOMAIN ts : FitTopic(TopicFromForm(ts[i]))
    BY <1>2, FormOfFitTopic DEF FitTopics
  <2>2. \A n \in 1..N : FitTopic(rs[n])
    BY <1>7, <1>10, <2>1
  <2> QED BY <1>10, <2>2, FitTopicIsProposed
<1>13. c = [name |-> d.name, key |-> key, topics |-> rs]
  <2>1. ConfigFromForm(d, on) = [name |-> d.name, key |-> d.key, topics |-> rs]
    BY <1>1, <1>9 DEF ConfigFromForm
  <2>2. c = [ConfigFromForm(d, on) EXCEPT !.key = key]
    BY <1>4, <1>6, <1>8
  <2> QED BY <2>1, <2>2
<1>14. c.topics = rs
  BY <1>13
<1>15. PICK gs : gs = [n \in DOMAIN rs |-> GeneratedTopic(rs[n])]
  OBVIOUS
<1>16. DOMAIN gs = DOMAIN rs /\ gs = [n \in DOMAIN gs |-> gs[n]]
  BY <1>15
<1>17. IsList(gs)
  BY <1>11, <1>16, MapIsList
<1>18. \A n \in DOMAIN gs : Proposed(gs[n])
  <2> TAKE n \in DOMAIN gs
  <2>1. ~TopicRefused(rs[n]) /\ Proposed(rs[n]) /\ gs[n] = GeneratedTopic(rs[n])
    BY <1>12, <1>14, <1>15, <1>16 DEF FormRefused
  <2> QED BY <2>1, ValidatedTopicIsFit, FitTopicIsProposed
<1>19. PICK v : v = Validated(c)
  OBVIOUS
<1>20. v = [name |-> d.name, key |-> key, topics |-> gs]
  BY <1>13, <1>14, <1>15, <1>19 DEF Validated
<1>21. v.name = d.name /\ v.key = key /\ v.topics = gs
  BY <1>20
<1>22. ProposedConfig(v)
  BY <1>2, <1>5, <1>17, <1>18, <1>21 DEF ProposedConfig, Settles
<1> QED BY <1>19, <1>22

-----------------------------------------------------------------------------
(* Rows and what is added to them: see Monitoring.                         *)

Bounded(recs) == \E n \in Nat : DOMAIN recs \subseteq 1..n

\* The last position bounds every other one.
LEMMA LargestFacts ==
    ASSUME NEW n \in Nat, NEW S \in SUBSET (1..n)
    PROVE  Largest(S) \in Nat /\ \A x \in S : x \in Nat /\ 1 <= x /\ x <= Largest(S)
<1>1. \A x \in S : x \in Nat /\ 1 <= x
  OBVIOUS
<1>2. \E m \in S \cup {0} : \A x \in S : x <= m
  <2>1. CASE S = {}
    BY <2>1
  <2>2. CASE S # {}
    BY <2>2, LargestExists
  <2> QED BY <2>1, <2>2
<1>3. PICK m : m = CHOOSE k \in S \cup {0} : \A x \in S : x <= k
  OBVIOUS
<1>4. m \in S \cup {0} /\ \A x \in S : x <= m
  BY <1>2, <1>3
<1>5. m \in Nat
  BY <1>1, <1>4
<1>6. m = Largest(S)
  BY <1>3 DEF Largest
<1> QED BY <1>1, <1>4, <1>5, <1>6

\* a is rows with the entries of new after the last one.
Grown(a, recs, new, last) ==
    /\ last \in Nat /\ DOMAIN recs \subseteq 1..last
    /\ Len(new) \in Nat /\ DOMAIN new = 1..Len(new)
    /\ DOMAIN a = DOMAIN recs \cup {last + j : j \in DOMAIN new}
    /\ \A i \in DOMAIN recs : a[i] = recs[i]
    /\ \A j \in DOMAIN new : last + j \notin DOMAIN recs /\ a[last + j] = new[j]
    /\ a = [i \in DOMAIN a |-> a[i]]
    /\ Bounded(a)

\* Adding rows keeps the old ones and numbers the new ones after them.
LEMMA AddedFacts ==
    ASSUME NEW recs, Bounded(recs), NEW new, IsList(new)
    PROVE  Grown(Added(recs, new), recs, new, Largest(DOMAIN recs))
<1>1. PICK n \in Nat : DOMAIN recs \subseteq 1..n
  BY DEF Bounded
<1>2. PICK last : last = Largest(DOMAIN recs)
  OBVIOUS
<1>3. last \in Nat /\ \A x \in DOMAIN recs : x \in Nat /\ 1 <= x /\ x <= last
  <2>1. DOMAIN recs \in SUBSET (1..n)
    BY <1>1
  <2> QED BY <1>2, <2>1, LargestFacts
<1>4. PICK L \in Nat : L = Len(new) /\ DOMAIN new = 1..L
  BY ListIsNumbered DEF Numbered
<1>5. PICK a : a = Added(recs, new)
  OBVIOUS
<1>6. a = [i \in DOMAIN recs \cup (last + 1)..(last + L) |->
             IF i \in DOMAIN recs THEN recs[i] ELSE new[i - last]]
  BY <1>2, <1>4, <1>5 DEF Added
<1>7. DOMAIN a = DOMAIN recs \cup (last + 1)..(last + L) /\ a = [i \in DOMAIN a |-> a[i]]
  BY <1>6
<1>8. (last + 1)..(last + L) = {last + j : j \in 1..L}
  <2>1. \A x \in (last + 1)..(last + L) : x - last \in 1..L /\ x = last + (x - last)
    BY <1>3
  <2>2. \A j \in 1..L : last + j \in (last + 1)..(last + L)
    BY <1>3
  <2> QED BY <2>1, <2>2
<1>9. \A i \in DOMAIN recs : a[i] = recs[i]
  BY <1>6
<1>10. \A j \in 1..L : last + j \notin DOMAIN recs /\ a[last + j] = new[j]
  <2> TAKE j \in 1..L
  <2>1. last + j \notin DOMAIN recs
    BY <1>3
  <2>2. last + j \in (last + 1)..(last + L) /\ (last + j) - last = j
    BY <1>3
  <2> QED BY <1>6, <2>1, <2>2
<1>11. DOMAIN recs \subseteq 1..last
  BY <1>3
<1>12. last + L \in Nat /\ DOMAIN a \subseteq 1..(last + L)
  <2>1. \A x \in DOMAIN recs : x \in 1..(last + L)
    BY <1>3
  <2>2. \A x \in (last + 1)..(last + L) : x \in 1..(last + L)
    BY <1>3
  <2> QED BY <1>3, <1>7, <2>1, <2>2
<1>13. Bounded(a)
  BY <1>12 DEF Bounded
<1>14. Grown(a, recs, new, last)
  BY <1>3, <1>4, <1>7, <1>8, <1>9, <1>10, <1>11, <1>13 DEF Grown
<1> QED BY <1>2, <1>5, <1>14

\* Nothing in front changes nothing.
LEMMA EmptyConcat ==
    ASSUME NEW s, IsList(s)
    PROVE  <<>> \o s = s
BY DEF IsList

-----------------------------------------------------------------------------
(* What holds of every state.                                              *)

RowsAre(ms, ts, qs) ==
    /\ Bounded(ms) /\ Bounded(ts) /\ Bounded(qs)
    /\ ms = [m \in DOMAIN ms |-> ms[m]]
    /\ \A t \in DOMAIN ts :
          ts[t].module \in DOMAIN ms /\ {"module", "name", "archived"} \subseteq DOMAIN ts[t]
    /\ \A q \in DOMAIN qs : qs[q].topic \in DOMAIN ts /\ "topic" \in DOMAIN qs[q]

RowsFit ==
    /\ RowsAre(modules, topics, queries)
    /\ DOMAIN modules = {} => \A r \in Workers : reqs[r] = Idle

PageFits ==
    /\ page.kind = "module" => FitConfig(page.draft)
    /\ page.kind = "topic" => FitTopic(page.draft) /\ page.module \in DOMAIN modules

\* What a request may have decided, with these modules and topics there.
ChangeOf(ch, M, T) ==
    /\ IsList(ch.modules) /\ \A i \in DOMAIN ch.modules : ListedTopics(ch.modules[i].topics)
    /\ ListedTopics(ch.topics) /\ \A i \in DOMAIN ch.topics : ch.topics[i].module \in M
    /\ IsList(ch.queries) /\ \A i \in DOMAIN ch.queries : ch.queries[i].topic \in T
    /\ \A t \in DOMAIN ch.tops : DOMAIN ch.tops[t] \subseteq {"name", "enabled", "archived"}
    /\ \A q \in DOMAIN ch.qrys : DOMAIN ch.qrys[q] \subseteq {"text", "on"}

ChangeFits(ch) == ChangeOf(ch, DOMAIN modules, DOMAIN topics)

\* A draft only adds.
OnlyAdds(ch) ==
    /\ ch.mods = Nothing /\ ch.tops = Nothing /\ ch.qrys = Nothing
    /\ ch.gone = {} /\ ch.queries = <<>>

RequestsFit ==
    /\ reqs = [r \in Workers |-> reqs[r]]
    /\ \A r \in Workers :
          ChangeFits(reqs[r].change) /\ (reqs[r].draft => OnlyAdds(reqs[r].change))

\* Live topics of one module have different names.
NoTwins(ts) ==
    \A t, u \in DOMAIN ts :
        /\ ~ts[t].archived /\ ~ts[u].archived /\ ts[t].module = ts[u].module
        /\ Fold(ts[t].name) = Fold(ts[u].name)
        => t = u

TwinsFit ==
    "twins" \notin cause =>
        /\ \A q, r \in Workers : reqs[q] # Idle /\ reqs[r] # Idle => q = r
        /\ NoTwins(topics)
        /\ \A r \in Workers : \A ch \in {reqs[r].change} :
              reqs[r] # Idle => NoTwins(TopicsAfter(ch))

EditorFits == RowsFit /\ PageFits /\ RequestsFit /\ TwinsFit

\* The topics that a change creates: a list of topics, of modules that are there or
\* are created with them.
LEMMA TopicsToAddFacts ==
    ASSUME NEW ch, ChangeFits(ch)
    PROVE  /\ ListedTopics(TopicsToAdd(ch))
           /\ \A n \in DOMAIN TopicsToAdd(ch) :
                 \/ TopicsToAdd(ch)[n].module \in DOMAIN modules
                 \/ \E i \in DOMAIN ch.modules :
                       TopicsToAdd(ch)[n].module = Largest(DOMAIN modules) + i
<1>1. PICK last, ms : last = Largest(DOMAIN modules) /\ ms = ch.modules
  OBVIOUS
<1>2. PICK ls : ls = [i \in DOMAIN ms |-> NewTopics(last + i, ms[i].topics)]
  OBVIOUS
<1>3. DOMAIN ls = DOMAIN ms /\ ls = [i \in DOMAIN ls |-> ls[i]]
  BY <1>2
<1>4. IsList(ms) /\ \A i \in DOMAIN ms : ListedTopics(ms[i].topics)
  BY <1>1 DEF ChangeFits, ChangeOf
<1>5. IsList(ls)
  BY <1>3, <1>4, MapIsList
<1>6. \A i \in DOMAIN ls :
         /\ DOMAIN ls[i] = DOMAIN ms[i].topics /\ ls[i] = [j \in DOMAIN ls[i] |-> ls[i][j]]
         /\ \A j \in DOMAIN ls[i] : /\ ls[i][j].module = last + i
                                    /\ ls[i][j].name = ms[i].topics[j].name
                                    /\ ls[i][j].queries = ms[i].topics[j].queries
  BY <1>2 DEF NewTopics
<1>7. Nested(ls)
  <2> SUFFICES ASSUME NEW i \in DOMAIN ls PROVE IsList(ls[i])
    BY <1>5 DEF Nested
  <2>1. PICK a, b : a = ls[i] /\ b = ms[i].topics
    OBVIOUS
  <2>2. IsList(b) /\ DOMAIN a = DOMAIN b /\ a = [j \in DOMAIN a |-> a[j]]
    BY <1>3, <1>4, <1>6, <2>1 DEF ListedTopics
  <2> QED BY <2>1, <2>2, MapIsList
<1>8. PICK f : f = Flat(ls)
  OBVIOUS
<1>9. Flattened(f, ls)
  BY <1>7, <1>8, FlatFacts
<1>10. \A n \in DOMAIN f : \E i \in DOMAIN ls : \E j \in DOMAIN ls[i] : f[n] = ls[i][j]
  <2>1. PICK place \in [DOMAIN f -> Places(ls)] :
           \A n \in DOMAIN f : f[n] = ls[place[n][1]][place[n][2]]
    BY <1>9 DEF Flattened
  <2>2. \A p \in Places(ls) : p[1] \in DOMAIN ls /\ p[2] \in DOMAIN ls[p[1]]
    BY <1>7, PlacesAreFinite
  <2> QED BY <2>1, <2>2
<1>11. \A n \in DOMAIN f :
          IsList(f[n].queries) /\ \E i \in DOMAIN ms : f[n].module = last + i
  <2> TAKE n \in DOMAIN f
  <2>1. PICK i \in DOMAIN ls : \E j \in DOMAIN ls[i] : f[n] = ls[i][j]
    BY <1>10
  <2>2. PICK j \in DOMAIN ls[i] : f[n] = ls[i][j]
    BY <2>1
  <2>3. IsList(ms[i].topics[j].queries)
    BY <1>3, <1>4, <1>6, <2>2 DEF ListedTopics
  <2> QED BY <1>3, <1>6, <2>2, <2>3
<1>12. PICK b : b = ch.topics
  OBVIOUS
<1>13. /\ IsList(b) /\ \A i \in DOMAIN b : IsList(b[i].queries)
       /\ \A i \in DOMAIN b : b[i].module \in DOMAIN modules
  BY <1>12 DEF ChangeFits, ChangeOf, ListedTopics
<1>14. IsList(f)
  BY <1>9 DEF Flattened
<1>15. PICK new : new = f \o b
  OBVIOUS
<1>16. /\ IsList(new)
       /\ \A n \in DOMAIN new :
             \/ n \in DOMAIN f /\ new[n] = f[n]
             \/ \E j \in DOMAIN b : new[n] = b[j]
  <2>1. Concatenated(new, f, b)
    BY <1>13, <1>14, <1>15, ConcatFacts
  <2> QED BY <2>1 DEF Concatenated
<1>17. \A n \in DOMAIN new :
          /\ IsList(new[n].queries)
          /\ \/ new[n].module \in DOMAIN modules
             \/ \E i \in DOMAIN ms : new[n].module = last + i
  BY <1>11, <1>13, <1>16
<1>18. new = TopicsToAdd(ch)
  BY <1>1, <1>2, <1>8, <1>12, <1>15 DEF TopicsToAdd
<1> QED BY <1>1, <1>16, <1>17, <1>18 DEF ListedTopics

\* The rows of topics that are added.
NewRows(new) ==
    [i \in DOMAIN new |->
        [module |-> new[i].module, name |-> new[i].name, order |-> new[i].order,
         enabled |-> TRUE, archived |-> FALSE]]

\* A change patches the topics and adds the new ones after them.
LEMMA TopicsGrow ==
    ASSUME RowsFit, NEW ch, ChangeFits(ch)
    PROVE  Grown(TopicsAfter(ch), Patched(topics, ch.tops), NewRows(TopicsToAdd(ch)),
                 Largest(DOMAIN topics))
<1>1. PICK new, old, recs : /\ new = TopicsToAdd(ch) /\ old = Patched(topics, ch.tops)
                            /\ recs = NewRows(new)
  OBVIOUS
<1>2. IsList(new)
  BY <1>1, TopicsToAddFacts DEF ListedTopics
<1>3. DOMAIN recs = DOMAIN new /\ recs = [i \in DOMAIN recs |-> recs[i]]
  BY <1>1 DEF NewRows
<1>4. IsList(recs)
  BY <1>2, <1>3, MapIsList
<1>5. DOMAIN old = DOMAIN topics
  BY <1>1 DEF Patched
<1>6. Bounded(old)
  BY <1>5 DEF RowsFit, RowsAre, Bounded
<1>7. Grown(Added(old, recs), old, recs, Largest(DOMAIN old))
  BY <1>4, <1>6, AddedFacts
<1>8. TopicsAfter(ch) = Added(old, recs)
  BY <1>1 DEF TopicsAfter, NewRows
<1> QED BY <1>1, <1>5, <1>7, <1>8

\* A patch leaves the topic in its module.
LEMMA PatchedTopics ==
    ASSUME RowsFit, NEW ch, ChangeFits(ch), NEW old, old = Patched(topics, ch.tops)
    PROVE  /\ DOMAIN old = DOMAIN topics
           /\ \A t \in DOMAIN topics :
                 /\ old[t].module = topics[t].module
                 /\ {"module", "name", "archived"} \subseteq DOMAIN old[t]
<1>1. PICK patch : patch = ch.tops
  OBVIOUS
<1>2. \A t \in DOMAIN patch : DOMAIN patch[t] \subseteq {"name", "enabled", "archived"}
  BY <1>1 DEF ChangeFits, ChangeOf
<1>3. \A t \in DOMAIN topics : {"module", "name", "archived"} \subseteq DOMAIN topics[t]
  BY DEF RowsFit, RowsAre
<1>4. DOMAIN old = DOMAIN topics
  BY DEF Patched
<1>5. ASSUME NEW t \in DOMAIN topics
      PROVE  /\ old[t].module = topics[t].module
             /\ {"module", "name", "archived"} \subseteq DOMAIN old[t]
  <2>1. CASE t \notin DOMAIN patch
    <3>1. old[t] = topics[t]
      BY <1>1, <2>1 DEF Patched
    <3> QED BY <1>3, <3>1
  <2>2. CASE t \in DOMAIN patch
    <3>1. PICK a, b, c : a = old[t] /\ b = topics[t] /\ c = patch[t]
      OBVIOUS
    <3>2. a = [f \in DOMAIN b |-> IF f \in DOMAIN c THEN c[f] ELSE b[f]]
      BY <1>1, <2>2, <3>1 DEF Patched
    <3>3. "module" \in DOMAIN b /\ "module" \notin DOMAIN c
      BY <1>2, <1>3, <2>2, <3>1
    <3>4. a["module"] = b["module"] /\ DOMAIN a = DOMAIN b
      BY <3>2, <3>3
    <3> QED BY <1>3, <3>1, <3>4
  <2> QED BY <2>1, <2>2
<1> QED BY <1>4, <1>5

\* So with the modules.
LEMMA ModulesGrow ==
    ASSUME RowsFit, NEW ch, ChangeFits(ch)
    PROVE  \E recs : /\ Grown(ModulesAfter(ch), Patched(modules, ch.mods), recs,
                              Largest(DOMAIN modules))
                     /\ DOMAIN recs = DOMAIN ch.modules
                     /\ DOMAIN Patched(modules, ch.mods) = DOMAIN modules
<1>1. PICK cm, old : cm = ch.modules /\ old = Patched(modules, ch.mods)
  OBVIOUS
<1>2. PICK recs : recs = [i \in DOMAIN cm |->
              [key |-> cm[i].key, order |-> cm[i].order, enabled |-> TRUE, archived |-> FALSE]]
  OBVIOUS
<1>3. DOMAIN recs = DOMAIN cm /\ recs = [i \in DOMAIN recs |-> recs[i]]
  BY <1>2
<1>4. IsList(recs)
  BY <1>1, <1>3, MapIsList DEF ChangeFits, ChangeOf
<1>5. DOMAIN old = DOMAIN modules
  BY <1>1 DEF Patched
<1>6. Bounded(old)
  BY <1>5 DEF RowsFit, RowsAre, Bounded
<1>7. Grown(Added(old, recs), old, recs, Largest(DOMAIN old))
  BY <1>4, <1>6, AddedFacts
<1>8. ModulesAfter(ch) = Added(old, recs)
  BY <1>1, <1>2 DEF ModulesAfter
<1> QED BY <1>1, <1>3, <1>5, <1>7, <1>8

\* The rows after a change: topics of modules that are there.
LEMMA NewTopicsAreOfModules ==
    ASSUME RowsFit, NEW ch, ChangeFits(ch)
    PROVE  /\ DOMAIN modules \subseteq DOMAIN ModulesAfter(ch)
           /\ DOMAIN topics \subseteq DOMAIN TopicsAfter(ch)
           /\ Bounded(ModulesAfter(ch)) /\ Bounded(TopicsAfter(ch))
           /\ ModulesAfter(ch) = [m \in DOMAIN ModulesAfter(ch) |-> ModulesAfter(ch)[m]]
           /\ \A t \in DOMAIN TopicsAfter(ch) :
                 /\ TopicsAfter(ch)[t].module \in DOMAIN ModulesAfter(ch)
                 /\ {"module", "name", "archived"} \subseteq DOMAIN TopicsAfter(ch)[t]
<1>1. PICK last, old, new, recs, ts :
         /\ last = Largest(DOMAIN modules) /\ old = Patched(topics, ch.tops)
         /\ new = TopicsToAdd(ch) /\ recs = NewRows(new) /\ ts = TopicsAfter(ch)
  OBVIOUS
<1>2. PICK ms, olds, mrows : /\ ms = ModulesAfter(ch) /\ Grown(ms, olds, mrows, last)
                             /\ DOMAIN mrows = DOMAIN ch.modules
                             /\ DOMAIN olds = DOMAIN modules
  <2>1. PICK mrows : /\ Grown(ModulesAfter(ch), Patched(modules, ch.mods), mrows, last)
                     /\ DOMAIN mrows = DOMAIN ch.modules
                     /\ DOMAIN Patched(modules, ch.mods) = DOMAIN modules
    BY <1>1, ModulesGrow
  <2> QED BY <2>1
<1>3. Grown(ts, old, recs, Largest(DOMAIN topics))
  BY <1>1, TopicsGrow
<1>4. /\ DOMAIN old = DOMAIN topics
      /\ \A t \in DOMAIN topics :
            /\ old[t].module = topics[t].module
            /\ {"module", "name", "archived"} \subseteq DOMAIN old[t]
  BY <1>1, PatchedTopics
<1>5. /\ ListedTopics(new)
      /\ \A n \in DOMAIN new : \/ new[n].module \in DOMAIN modules
                               \/ \E i \in DOMAIN ch.modules : new[n].module = last + i
  BY <1>1, TopicsToAddFacts
<1>6. DOMAIN ms = DOMAIN modules \cup {last + j : j \in DOMAIN ch.modules}
  BY <1>2 DEF Grown
<1>7. Bounded(ms) /\ ms = [m \in DOMAIN ms |-> ms[m]] /\ Bounded(ts)
  BY <1>2, <1>3 DEF Grown
<1>8. PICK top : top = Largest(DOMAIN topics)
  OBVIOUS
<1>9. /\ DOMAIN ts = DOMAIN topics \cup {top + j : j \in DOMAIN recs}
      /\ \A t \in DOMAIN topics : ts[t] = old[t]
      /\ \A j \in DOMAIN recs : ts[top + j] = recs[j]
  BY <1>3, <1>4, <1>8 DEF Grown
<1>10. \A j \in DOMAIN recs :
          /\ recs[j].module \in DOMAIN ms
          /\ {"module", "name", "archived"} \subseteq DOMAIN recs[j]
  <2> TAKE j \in DOMAIN recs
  <2>1. j \in DOMAIN new /\ recs[j] = [module |-> new[j].module, name |-> new[j].name,
                                       order |-> new[j].order, enabled |-> TRUE,
                                       archived |-> FALSE]
    BY <1>1 DEF NewRows
  <2>2. new[j].module \in DOMAIN ms
    BY <1>5, <1>6, <2>1
  <2> QED BY <2>1, <2>2
<1>11. \A t \in DOMAIN topics : topics[t].module \in DOMAIN ms
  BY <1>6 DEF RowsFit, RowsAre
<1>12. \A t \in DOMAIN ts : /\ ts[t].module \in DOMAIN ms
                            /\ {"module", "name", "archived"} \subseteq DOMAIN ts[t]
  <2> TAKE t \in DOMAIN ts
  <2>1. CASE t \in DOMAIN topics
    BY <1>4, <1>9, <1>11, <2>1
  <2>2. CASE t \notin DOMAIN topics
    <3>1. PICK j \in DOMAIN recs : t = top + j
      BY <1>9, <2>2
    <3> QED BY <1>9, <1>10, <3>1
  <2> QED BY <2>1, <2>2
<1> QED BY <1>1, <1>2, <1>6, <1>7, <1>9, <1>12

\* f has the entries of the lists, and no others.
Collects(f, lists) ==
    /\ IsList(f)
    /\ \A n \in DOMAIN f : \E i \in DOMAIN lists : \E j \in DOMAIN lists[i] : f[n] = lists[i][j]
    /\ \A i \in DOMAIN lists : \A j \in DOMAIN lists[i] : \E n \in DOMAIN f : f[n] = lists[i][j]

\* Flattening collects the entries of the lists.
LEMMA FlatCollects ==
    ASSUME NEW lists, Nested(lists)
    PROVE  Collects(Flat(lists), lists)
<1>1. PICK f : f = Flat(lists)
  OBVIOUS
<1>2. Flattened(f, lists)
  BY <1>1, FlatFacts
<1>3. PICK place \in [DOMAIN f -> Places(lists)] :
         /\ \A n \in DOMAIN f : f[n] = lists[place[n][1]][place[n][2]]
         /\ \A p \in Places(lists) : \E n \in DOMAIN f : place[n] = p
  BY <1>2 DEF Flattened
<1>4. /\ \A p \in Places(lists) : p[1] \in DOMAIN lists /\ p[2] \in DOMAIN lists[p[1]]
      /\ \A i \in DOMAIN lists : \A j \in DOMAIN lists[i] : <<i, j>> \in Places(lists)
  BY PlacesAreFinite
<1>5. \A n \in DOMAIN f : \E i \in DOMAIN lists : \E j \in DOMAIN lists[i] : f[n] = lists[i][j]
  BY <1>3, <1>4
<1>6. ASSUME NEW i \in DOMAIN lists, NEW j \in DOMAIN lists[i]
      PROVE  \E n \in DOMAIN f : f[n] = lists[i][j]
  <2>1. PICK n \in DOMAIN f : place[n] = <<i, j>>
    BY <1>3, <1>4
  <2> QED BY <1>3, <2>1
<1>7. Collects(f, lists)
  BY <1>2, <1>5, <1>6 DEF Collects, Flattened
<1> QED BY <1>1, <1>7

\* The rows of the queries that come with new topics.
DraftedRows(new, top) ==
    [i \in DOMAIN new |->
        [j \in DOMAIN new[i].queries |->
            [topic |-> top + i, text |-> new[i].queries[j].text, on |-> TRUE]]]
KeptQueries(ch) == [q \in DOMAIN queries \ ch.gone |-> Patched(queries, ch.qrys)[q]]
TypedRows(ch) ==
    [i \in DOMAIN ch.queries |->
        [topic |-> ch.queries[i].topic, text |-> ch.queries[i].text, on |-> TRUE]]
NewQueries(ch) ==
    Flat(DraftedRows(TopicsToAdd(ch), Largest(DOMAIN topics))) \o TypedRows(ch)

\* The queries that come with new topics.
LEMMA DraftedAreCollected ==
    ASSUME NEW new, ListedTopics(new), NEW top
    PROVE  Collects(Flat(DraftedRows(new, top)), DraftedRows(new, top))
<1>1. PICK ls : ls = DraftedRows(new, top)
  OBVIOUS
<1>2. DOMAIN ls = DOMAIN new /\ ls = [i \in DOMAIN ls |-> ls[i]]
  BY <1>1 DEF DraftedRows
<1>3. IsList(ls)
  BY <1>2, MapIsList DEF ListedTopics
<1>4. ASSUME NEW i \in DOMAIN ls PROVE IsList(ls[i])
  <2>1. PICK a, b : a = ls[i] /\ b = new[i].queries
    OBVIOUS
  <2>2. DOMAIN a = DOMAIN b /\ a = [j \in DOMAIN a |-> a[j]]
    BY <1>1, <1>2, <2>1 DEF DraftedRows
  <2>3. IsList(b)
    BY <1>2, <2>1 DEF ListedTopics
  <2> QED BY <2>1, <2>2, <2>3, MapIsList
<1>5. Nested(ls)
  BY <1>3, <1>4 DEF Nested
<1> QED BY <1>1, <1>5, FlatCollects

\* The queries after a change.
LEMMA QueriesGrow ==
    ASSUME RowsFit, NEW ch, ChangeFits(ch)
    PROVE  /\ Grown(QueriesAfter(ch), KeptQueries(ch), NewQueries(ch),
                    Largest(DOMAIN KeptQueries(ch)))
           /\ Concatenated(NewQueries(ch),
                           Flat(DraftedRows(TopicsToAdd(ch), Largest(DOMAIN topics))),
                           TypedRows(ch))
           /\ Collects(Flat(DraftedRows(TopicsToAdd(ch), Largest(DOMAIN topics))),
                       DraftedRows(TopicsToAdd(ch), Largest(DOMAIN topics)))
<1>1. PICK new, top, kept, typed, ls, f :
         /\ new = TopicsToAdd(ch) /\ top = Largest(DOMAIN topics)
         /\ kept = KeptQueries(ch) /\ typed = TypedRows(ch)
         /\ ls = DraftedRows(new, top) /\ f = Flat(ls)
  OBVIOUS
<1>2. ListedTopics(new)
  BY <1>1, TopicsToAddFacts
<1>3. Collects(f, ls)
  BY <1>1, <1>2, DraftedAreCollected
<1>4. DOMAIN typed = DOMAIN ch.queries /\ typed = [i \in DOMAIN typed |-> typed[i]]
  BY <1>1 DEF TypedRows
<1>5. IsList(typed)
  BY <1>4, MapIsList DEF ChangeFits, ChangeOf
<1>6. IsList(f)
  BY <1>3 DEF Collects
<1>7. PICK qs : qs = NewQueries(ch)
  OBVIOUS
<1>8. qs = f \o typed
  BY <1>1, <1>7 DEF NewQueries
<1>9. Concatenated(qs, f, typed)
  BY <1>5, <1>6, <1>8, ConcatFacts
<1>10. IsList(qs)
  BY <1>9 DEF Concatenated
<1>11. Bounded(kept)
  <2>1. PICK n \in Nat : DOMAIN queries \subseteq 1..n
    BY DEF RowsFit, RowsAre, Bounded
  <2>2. DOMAIN kept \subseteq DOMAIN queries
    BY <1>1 DEF KeptQueries
  <2> QED BY <2>1, <2>2 DEF Bounded
<1>12. Grown(Added(kept, qs), kept, qs, Largest(DOMAIN kept))
  BY <1>10, <1>11, AddedFacts
<1>13. QueriesAfter(ch) = Added(kept, qs)
  BY <1>1, <1>7 DEF QueriesAfter, NewQueries, KeptQueries, TypedRows, DraftedRows
<1> QED BY <1>1, <1>3, <1>7, <1>9, <1>12, <1>13

\* Every query has a topic that is there.
LEMMA QueriesAreOfTopics ==
    ASSUME RowsFit, NEW ch, ChangeFits(ch)
    PROVE  /\ Bounded(QueriesAfter(ch))
           /\ \A q \in DOMAIN QueriesAfter(ch) :
                 /\ QueriesAfter(ch)[q].topic \in DOMAIN TopicsAfter(ch)
                 /\ "topic" \in DOMAIN QueriesAfter(ch)[q]
<1>1. PICK new, top, kept, typed, ls, f, qs, after, last :
         /\ new = TopicsToAdd(ch) /\ top = Largest(DOMAIN topics)
         /\ kept = KeptQueries(ch) /\ typed = TypedRows(ch)
         /\ ls = DraftedRows(new, top) /\ f = Flat(ls)
         /\ qs = NewQueries(ch) /\ after = QueriesAfter(ch) /\ last = Largest(DOMAIN kept)
  OBVIOUS
<1>2. Grown(after, kept, qs, last) /\ Concatenated(qs, f, typed) /\ Collects(f, ls)
  BY <1>1, QueriesGrow
<1>3. PICK ts, old, recs : /\ ts = TopicsAfter(ch) /\ Grown(ts, old, recs, top)
                           /\ DOMAIN recs = DOMAIN new /\ DOMAIN old = DOMAIN topics
  <2>1. Grown(TopicsAfter(ch), Patched(topics, ch.tops), NewRows(new), top)
    BY <1>1, TopicsGrow
  <2>2. DOMAIN NewRows(new) = DOMAIN new /\ DOMAIN Patched(topics, ch.tops) = DOMAIN topics
    BY DEF NewRows, Patched
  <2> QED BY <2>1, <2>2
<1>4. DOMAIN ts = DOMAIN topics \cup {top + j : j \in DOMAIN new}
  BY <1>3 DEF Grown
<1>5. \A n \in DOMAIN f : f[n].topic \in DOMAIN ts /\ "topic" \in DOMAIN f[n]
  <2> TAKE n \in DOMAIN f
  <2>1. PICK i \in DOMAIN ls : \E j \in DOMAIN ls[i] : f[n] = ls[i][j]
    BY <1>2 DEF Collects
  <2>2. PICK j \in DOMAIN ls[i] : f[n] = ls[i][j]
    BY <2>1
  <2>3. i \in DOMAIN new /\ f[n] = [topic |-> top + i, text |-> new[i].queries[j].text, on |-> TRUE]
    BY <1>1, <2>2 DEF DraftedRows
  <2> QED BY <1>4, <2>3
<1>6. \A n \in DOMAIN typed : typed[n].topic \in DOMAIN ts /\ "topic" \in DOMAIN typed[n]
  <2> TAKE n \in DOMAIN typed
  <2>1. /\ n \in DOMAIN ch.queries
        /\ typed[n] = [topic |-> ch.queries[n].topic, text |-> ch.queries[n].text, on |-> TRUE]
    BY <1>1 DEF TypedRows
  <2>2. ch.queries[n].topic \in DOMAIN topics
    BY <2>1 DEF ChangeFits, ChangeOf
  <2> QED BY <1>4, <2>1, <2>2
<1>7. \A n \in DOMAIN qs : qs[n].topic \in DOMAIN ts /\ "topic" \in DOMAIN qs[n]
  <2> TAKE n \in DOMAIN qs
  <2>1. (n \in DOMAIN f /\ qs[n] = f[n]) \/ \E j \in DOMAIN typed : qs[n] = typed[j]
    BY <1>2 DEF Concatenated
  <2> QED BY <1>5, <1>6, <2>1
<1>8. \A q \in DOMAIN kept : kept[q].topic \in DOMAIN ts /\ "topic" \in DOMAIN kept[q]
  <2> TAKE q \in DOMAIN kept
  <2>1. PICK patch, b : patch = ch.qrys /\ b = queries[q]
    OBVIOUS
  <2>2. q \in DOMAIN queries /\ kept[q] = Patched(queries, patch)[q]
    BY <1>1, <2>1 DEF KeptQueries
  <2>3. b.topic \in DOMAIN topics /\ "topic" \in DOMAIN b
    BY <2>1, <2>2 DEF RowsFit, RowsAre
  <2>4. CASE q \notin DOMAIN patch
    <3>1. kept[q] = b
      BY <2>1, <2>2, <2>4 DEF Patched
    <3> QED BY <1>4, <2>3, <3>1
  <2>5. CASE q \in DOMAIN patch
    <3>1. PICK a, c : a = kept[q] /\ c = patch[q]
      OBVIOUS
    <3>2. a = [f_1 \in DOMAIN b |-> IF f_1 \in DOMAIN c THEN c[f_1] ELSE b[f_1]]
      BY <2>1, <2>2, <2>5, <3>1 DEF Patched
    <3>3. "topic" \notin DOMAIN c
      BY <2>1, <2>5, <3>1 DEF ChangeFits, ChangeOf
    <3>4. a["topic"] = b["topic"] /\ DOMAIN a = DOMAIN b
      BY <2>3, <3>2, <3>3
    <3> QED BY <1>4, <2>3, <3>1, <3>4
  <2> QED BY <2>4, <2>5
<1>9. /\ Bounded(after) /\ DOMAIN after = DOMAIN kept \cup {last + j : j \in DOMAIN qs}
      /\ \A q \in DOMAIN kept : after[q] = kept[q]
      /\ \A j \in DOMAIN qs : after[last + j] = qs[j]
  BY <1>2 DEF Grown
<1>10. \A q \in DOMAIN after : after[q].topic \in DOMAIN ts /\ "topic" \in DOMAIN after[q]
  <2> TAKE q \in DOMAIN after
  <2>1. CASE q \in DOMAIN kept
    BY <1>8, <1>9, <2>1
  <2>2. CASE q \notin DOMAIN kept
    <3>1. PICK j \in DOMAIN qs : q = last + j
      BY <1>9, <2>2
    <3> QED BY <1>7, <1>9, <3>1
  <2> QED BY <2>1, <2>2
<1> QED BY <1>1, <1>3, <1>9, <1>10

\* The rows a change leaves are rows again.
LEMMA RowsAfterAre ==
    ASSUME RowsFit, NEW ch, ChangeFits(ch)
    PROVE  RowsAre(ModulesAfter(ch), TopicsAfter(ch), QueriesAfter(ch))
<1>1. PICK ms, ts, qs : ms = ModulesAfter(ch) /\ ts = TopicsAfter(ch) /\ qs = QueriesAfter(ch)
  OBVIOUS
<1>2. /\ Bounded(ms) /\ Bounded(ts) /\ ms = [m \in DOMAIN ms |-> ms[m]]
      /\ \A t \in DOMAIN ts : /\ ts[t].module \in DOMAIN ms
                              /\ {"module", "name", "archived"} \subseteq DOMAIN ts[t]
  BY <1>1, NewTopicsAreOfModules
<1>3. /\ Bounded(qs)
      /\ \A q \in DOMAIN qs : qs[q].topic \in DOMAIN ts /\ "topic" \in DOMAIN qs[q]
  BY <1>1, QueriesAreOfTopics
<1>4. RowsAre(ms, ts, qs)
  BY <1>2, <1>3 DEF RowsAre
<1> QED BY <1>1, <1>4

-----------------------------------------------------------------------------
(* No twins.                                                               *)

Apart(new) ==
    \A i, j \in DOMAIN new :
        new[i].module = new[j].module /\ Fold(new[i].name) = Fold(new[j].name) => i = j

\* New topics that differ from each other and from the live ones of their module
\* bring no twin.
LEMMA NewcomersAreNoTwins ==
    ASSUME RowsFit, NEW ch, ChangeFits(ch),
           NEW old, old = Patched(topics, ch.tops), NoTwins(old),
           NEW new, new = TopicsToAdd(ch), Apart(new),
           \A i \in DOMAIN new : \A t \in DOMAIN old :
               ~old[t].archived /\ old[t].module = new[i].module
               => Fold(old[t].name) # Fold(new[i].name)
    PROVE  NoTwins(TopicsAfter(ch))
<1>1. PICK ts, recs, top : ts = TopicsAfter(ch) /\ recs = NewRows(new) /\ top = Largest(DOMAIN topics)
  OBVIOUS
<1>2. Grown(ts, old, recs, top)
  BY <1>1, TopicsGrow
<1>3. /\ DOMAIN ts = DOMAIN old \cup {top + j : j \in DOMAIN recs}
      /\ \A t \in DOMAIN old : ts[t] = old[t]
      /\ \A j \in DOMAIN recs : ts[top + j] = recs[j]
  BY <1>2 DEF Grown
<1>4. /\ DOMAIN recs = DOMAIN new
      /\ \A i \in DOMAIN new : recs[i].module = new[i].module /\ recs[i].name = new[i].name
  BY <1>1 DEF NewRows
<1>5. \A t \in DOMAIN ts :
         \/ t \in DOMAIN old /\ ts[t] = old[t]
         \/ \E i \in DOMAIN new : /\ t = top + i /\ ts[t].module = new[i].module
                                  /\ ts[t].name = new[i].name
  BY <1>3, <1>4
<1>6. ASSUME NEW t \in DOMAIN ts, NEW u \in DOMAIN ts, ~ts[t].archived, ~ts[u].archived,
             ts[t].module = ts[u].module, Fold(ts[t].name) = Fold(ts[u].name)
      PROVE  t = u
  <2>1. CASE /\ t \in DOMAIN old /\ ts[t] = old[t]
             /\ u \in DOMAIN old /\ ts[u] = old[u]
    BY <1>6, <2>1 DEF NoTwins
  <2>2. CASE /\ t \in DOMAIN old /\ ts[t] = old[t]
             /\ \E i \in DOMAIN new : /\ u = top + i /\ ts[u].module = new[i].module
                                      /\ ts[u].name = new[i].name
    BY <1>6, <2>2
  <2>3. CASE /\ u \in DOMAIN old /\ ts[u] = old[u]
             /\ \E i \in DOMAIN new : /\ t = top + i /\ ts[t].module = new[i].module
                                      /\ ts[t].name = new[i].name
    BY <1>6, <2>3
  <2>4. CASE /\ \E i \in DOMAIN new : /\ t = top + i /\ ts[t].module = new[i].module
                                      /\ ts[t].name = new[i].name
             /\ \E i \in DOMAIN new : /\ u = top + i /\ ts[u].module = new[i].module
                                      /\ ts[u].name = new[i].name
    BY <1>6, <2>4 DEF Apart
  <2> QED BY <1>5, <2>1, <2>2, <2>3, <2>4
<1>7. NoTwins(ts)
  BY <1>6 DEF NoTwins
<1> QED BY <1>1, <1>7

\* What the forms decide, short of a rename: new modules, one new topic, or switches.
AddsModules(ch) ==
    /\ ch.tops = Nothing /\ ch.topics = <<>>
    /\ \A i \in DOMAIN ch.modules : Distinct(NameFolds(ch.modules[i].topics))
AddsTopic(ch) ==
    /\ ch.tops = Nothing /\ ch.modules = <<>>
    /\ \E x : ch.topics = <<x>> /\ ~HasTopic(x.module, x.name)
SwitchesTopics(ch) ==
    /\ ch.modules = <<>> /\ ch.topics = <<>>
    /\ \A t \in DOMAIN ch.tops :
          /\ "name" \notin DOMAIN ch.tops[t]
          /\ "archived" \in DOMAIN ch.tops[t] => ch.tops[t].archived

\* Without a new module, the new topics are the ones of the change.
LEMMA OnlyTopicsToAdd ==
    ASSUME NEW ch, ChangeFits(ch), ch.modules = <<>>
    PROVE  TopicsToAdd(ch) = ch.topics
<1>1. PICK ls : ls = [i \in DOMAIN ch.modules |->
                        NewTopics(Largest(DOMAIN modules) + i, ch.modules[i].topics)]
  OBVIOUS
<1>2. DOMAIN ls = {}
  BY <1>1, EmptyIsList
<1>3. Flat(ls) = <<>>
  BY <1>2, NothingIsFlat
<1>4. TopicsToAdd(ch) = Flat(ls) \o ch.topics
  BY <1>1 DEF TopicsToAdd
<1>5. IsList(ch.topics)
  BY DEF ChangeFits, ChangeOf, ListedTopics
<1> QED BY <1>3, <1>4, <1>5, EmptyConcat

\* Topics of new modules share a module with no topic that is there.
LEMMA NewModulesAreApart ==
    ASSUME RowsFit, NEW ch, ChangeFits(ch), AddsModules(ch), NEW new, new = TopicsToAdd(ch)
    PROVE  Apart(new) /\ \A n \in DOMAIN new : new[n].module \notin DOMAIN modules
<1>1. PICK last, ms : last = Largest(DOMAIN modules) /\ ms = ch.modules
  OBVIOUS
<1>2. PICK ls : ls = [i \in DOMAIN ms |-> NewTopics(last + i, ms[i].topics)]
  OBVIOUS
<1>3. DOMAIN ls = DOMAIN ms /\ ls = [i \in DOMAIN ls |-> ls[i]]
  BY <1>2
<1>4. IsList(ms) /\ \A i \in DOMAIN ms : ListedTopics(ms[i].topics)
  BY <1>1 DEF ChangeFits, ChangeOf
<1>5. IsList(ls)
  BY <1>3, <1>4, MapIsList
<1>6. \A i \in DOMAIN ls :
         /\ DOMAIN ls[i] = DOMAIN ms[i].topics /\ ls[i] = [j \in DOMAIN ls[i] |-> ls[i][j]]
         /\ \A j \in DOMAIN ls[i] : /\ ls[i][j].module = last + i
                                    /\ ls[i][j].name = ms[i].topics[j].name
  BY <1>2 DEF NewTopics
<1>7. Nested(ls)
  <2> SUFFICES ASSUME NEW i \in DOMAIN ls PROVE IsList(ls[i])
    BY <1>5 DEF Nested
  <2>1. PICK a, b : a = ls[i] /\ b = ms[i].topics
    OBVIOUS
  <2>2. IsList(b) /\ DOMAIN a = DOMAIN b /\ a = [j \in DOMAIN a |-> a[j]]
    BY <1>3, <1>4, <1>6, <2>1 DEF ListedTopics
  <2> QED BY <2>1, <2>2, MapIsList
<1>8. PICK f : f = Flat(ls)
  OBVIOUS
<1>9. Flattened(f, ls)
  BY <1>7, <1>8, FlatFacts
<1>10. new = f \o <<>>
  BY <1>1, <1>2, <1>8 DEF TopicsToAdd, AddsModules
<1>11. DOMAIN new = DOMAIN f /\ \A n \in DOMAIN f : new[n] = f[n]
  <2>1. IsList(f)
    BY <1>9 DEF Flattened
  <2>2. Concatenated(new, f, <<>>)
    BY <1>10, <2>1, EmptyIsList, ConcatFacts
  <2> QED BY <2>2, EmptyIsList DEF Concatenated
<1>12. PICK place \in [DOMAIN f -> Places(ls)] :
          /\ \A n \in DOMAIN f : f[n] = ls[place[n][1]][place[n][2]]
          /\ \A m, n \in DOMAIN f : place[m] = place[n] => m = n
  BY <1>9 DEF Flattened
<1>13. \A p \in Places(ls) : /\ p = <<p[1], p[2]>> /\ p[1] \in DOMAIN ls
                             /\ p[2] \in DOMAIN ls[p[1]]
  BY <1>7, PlacesAreFinite
<1>14. \A n \in DOMAIN f : /\ place[n][1] \in DOMAIN ms
                           /\ place[n][2] \in DOMAIN ms[place[n][1]].topics
                           /\ place[n] = <<place[n][1], place[n][2]>>
                           /\ f[n].module = last + place[n][1]
                           /\ f[n].name = ms[place[n][1]].topics[place[n][2]].name
  BY <1>3, <1>6, <1>12, <1>13
<1>15. /\ last \in Nat /\ \A m \in DOMAIN modules : m \in Nat /\ m <= last
       /\ \A i \in DOMAIN ms : i \in Nat /\ 1 <= i
  <2>1. PICK n \in Nat : DOMAIN modules \subseteq 1..n
    BY DEF RowsFit, RowsAre, Bounded
  <2>2. DOMAIN modules \in SUBSET (1..n)
    BY <2>1
  <2>3. PICK L \in Nat : DOMAIN ms = 1..L
    BY <1>4, ListIsNumbered DEF Numbered
  <2> QED BY <1>1, <2>2, <2>3, LargestFacts
<1>16. ASSUME NEW m \in DOMAIN new, NEW n \in DOMAIN new, new[m].module = new[n].module,
              Fold(new[m].name) = Fold(new[n].name)
       PROVE  m = n
  <2>1. PICK i, j, k, l : /\ i = place[m][1] /\ j = place[m][2]
                          /\ k = place[n][1] /\ l = place[n][2]
    OBVIOUS
  <2>2. /\ i \in DOMAIN ms /\ j \in DOMAIN ms[i].topics /\ place[m] = <<i, j>>
        /\ k \in DOMAIN ms /\ l \in DOMAIN ms[k].topics /\ place[n] = <<k, l>>
        /\ last + i = last + k
        /\ Fold(ms[i].topics[j].name) = Fold(ms[k].topics[l].name)
    BY <1>11, <1>14, <1>16, <2>1
  <2>3. i = k
    BY <1>15, <2>2
  <2>4. PICK ts : ts = ms[i].topics
    OBVIOUS
  <2>5. Distinct(NameFolds(ts))
    BY <1>1, <2>2, <2>4 DEF AddsModules
  <2>6. j \in DOMAIN ts /\ l \in DOMAIN ts /\ Fold(ts[j].name) = Fold(ts[l].name)
    BY <2>2, <2>3, <2>4
  <2>7. j = l
    BY <2>5, <2>6 DEF Distinct, NameFolds
  <2> QED BY <1>11, <1>12, <2>2, <2>3, <2>7
<1>17. Apart(new)
  BY <1>16 DEF Apart
<1>18. ASSUME NEW n \in DOMAIN new PROVE new[n].module \notin DOMAIN modules
  <2>1. PICK i \in DOMAIN ms : new[n].module = last + i
    BY <1>11, <1>14
  <2>2. ~(last + i <= last)
    BY <1>15
  <2> QED BY <1>15, <2>1, <2>2
<1> QED BY <1>17, <1>18

\* Rows without a patch stay as they are.
LEMMA Unpatched ==
    ASSUME NEW recs
    PROVE  /\ DOMAIN Patched(recs, Nothing) = DOMAIN recs
           /\ \A i \in DOMAIN recs : Patched(recs, Nothing)[i] = recs[i]
BY EmptyIsList DEF Patched, Nothing

\* A change of one of the three forms brings no twin if there was none.
LEMMA DecidedChangeBringsNoTwin ==
    ASSUME RowsFit, NoTwins(topics), NEW ch, ChangeFits(ch),
           AddsModules(ch) \/ AddsTopic(ch) \/ SwitchesTopics(ch)
    PROVE  NoTwins(TopicsAfter(ch))
<1>1. PICK old, new : old = Patched(topics, ch.tops) /\ new = TopicsToAdd(ch)
  OBVIOUS
<1>2. CASE ch.tops = Nothing
  <2>1. DOMAIN old = DOMAIN topics /\ \A t \in DOMAIN topics : old[t] = topics[t]
    BY <1>1, <1>2, Unpatched
  <2>2. NoTwins(old)
    BY <2>1 DEF NoTwins
  <2>3. CASE AddsModules(ch)
    <3>1. Apart(new) /\ \A n \in DOMAIN new : new[n].module \notin DOMAIN modules
      BY <1>1, <2>3, NewModulesAreApart
    <3>2. \A t \in DOMAIN old : old[t].module \in DOMAIN modules
      BY <2>1 DEF RowsFit, RowsAre
    <3>3. \A i \in DOMAIN new : \A t \in DOMAIN old : old[t].module # new[i].module
      BY <3>1, <3>2
    <3> QED BY <1>1, <2>2, <3>1, <3>3, NewcomersAreNoTwins
  <2>4. CASE AddsTopic(ch)
    <3>1. new = ch.topics
      BY <1>1, <2>4, OnlyTopicsToAdd DEF AddsTopic
    <3>2. PICK x : new = <<x>> /\ ~HasTopic(x.module, x.name)
      BY <2>4, <3>1 DEF AddsTopic
    <3>3. DOMAIN new = {1} /\ new[1] = x
      BY <3>2
    <3>4. Apart(new)
      BY <3>3 DEF Apart
    <3>5. \A i \in DOMAIN new : \A t \in DOMAIN old :
             ~old[t].archived /\ old[t].module = new[i].module
             => Fold(old[t].name) # Fold(new[i].name)
      BY <2>1, <3>2, <3>3 DEF HasTopic, LiveTopics, TopicsOf
    <3> QED BY <1>1, <2>2, <3>4, <3>5, NewcomersAreNoTwins
  <2>5. CASE SwitchesTopics(ch)
    <3>1. new = <<>>
      BY <1>1, <2>5, OnlyTopicsToAdd DEF SwitchesTopics
    <3>2. DOMAIN new = {}
      BY <3>1, EmptyIsList
    <3>3. Apart(new)
      BY <3>2 DEF Apart
    <3> QED BY <1>1, <2>2, <3>2, <3>3, NewcomersAreNoTwins
  <2> QED BY <2>3, <2>4, <2>5
<1>3. CASE SwitchesTopics(ch)
  <2>1. new = <<>>
    BY <1>1, <1>3, OnlyTopicsToAdd DEF SwitchesTopics
  <2>2. DOMAIN new = {}
    BY <2>1, EmptyIsList
  <2>3. Apart(new)
    BY <2>2 DEF Apart
  <2>4. /\ DOMAIN old = DOMAIN topics
        /\ \A t \in DOMAIN topics :
              /\ old[t].module = topics[t].module
              /\ {"module", "name", "archived"} \subseteq DOMAIN old[t]
    BY <1>1, PatchedTopics
  <2>5. ASSUME NEW t \in DOMAIN topics, ~old[t].archived
        PROVE  ~topics[t].archived /\ old[t].name = topics[t].name
    <3>1. PICK a, b, c, patch : a = old[t] /\ b = topics[t] /\ patch = ch.tops /\ c = patch[t]
      OBVIOUS
    <3>2. CASE t \notin DOMAIN patch
      <4>1. a = b
        BY <1>1, <3>1, <3>2 DEF Patched
      <4> QED BY <2>5, <3>1, <4>1
    <3>3. CASE t \in DOMAIN patch
      <4>1. a = [f \in DOMAIN b |-> IF f \in DOMAIN c THEN c[f] ELSE b[f]]
        BY <1>1, <3>1, <3>3 DEF Patched
      <4>2. {"module", "name", "archived"} \subseteq DOMAIN b
        BY <3>1 DEF RowsFit, RowsAre
      <4>3. "name" \notin DOMAIN c /\ ("archived" \in DOMAIN c => c["archived"])
        BY <1>3, <3>1, <3>3 DEF SwitchesTopics
      <4>4. a["name"] = b["name"]
        BY <4>1, <4>2, <4>3
      <4>5. "archived" \notin DOMAIN c
        <5>1. "archived" \in DOMAIN c => a["archived"] = c["archived"]
          BY <4>1, <4>2
        <5>2. ~a["archived"]
          BY <2>5, <3>1
        <5> QED BY <4>3, <5>1, <5>2
      <4>6. a["archived"] = b["archived"]
        BY <4>1, <4>2, <4>5
      <4>7. ~b["archived"]
        BY <2>5, <3>1, <4>6
      <4> QED BY <3>1, <4>4, <4>7
    <3> QED BY <3>2, <3>3
  <2>6. NoTwins(old)
    BY <2>4, <2>5 DEF NoTwins
  <2> QED BY <1>1, <2>2, <2>3, <2>6, NewcomersAreNoTwins
<1> QED BY <1>2, <1>3 DEF AddsModules, AddsTopic

-----------------------------------------------------------------------------
(* What each form decides.                                                 *)

\* One entry is a list.
LEMMA OneIsList ==
    ASSUME NEW x
    PROVE  IsList(<<x>>) /\ DOMAIN <<x>> = {1} /\ <<x>>[1] = x
BY DEF IsList

\* No topics repeat no name.
LEMMA NothingIsDistinct == ListedTopics(<<>>) /\ Distinct(NameFolds(<<>>))
<1>1. IsList(<<>>) /\ DOMAIN <<>> = {}
  BY EmptyIsList
<1> QED BY <1>1 DEF ListedTopics, Distinct, NameFolds

\* A change of rows that are there, a new query, a query less.
LEMMA PatchesFit ==
    ASSUME NEW x, NEW ch,
           \/ ch = [NoChange EXCEPT !.mods = x]
           \/ ch = [NoChange EXCEPT !.gone = x]
           \/ /\ ch = [NoChange EXCEPT !.qrys = x]
              /\ \A q \in DOMAIN x : DOMAIN x[q] \subseteq {"text", "on"}
           \/ /\ ch = [NoChange EXCEPT !.queries = <<x>>]
              /\ x.topic \in DOMAIN topics
    PROVE  ChangeFits(ch) /\ AddsModules(ch)
<1>1. PICK t : t = x.topic
  OBVIOUS
<1>2. /\ ch.modules = <<>> /\ ch.topics = <<>> /\ ch.tops = Nothing
      /\ ch.queries = <<>> \/ (ch.queries = <<x>> /\ t \in DOMAIN topics)
      /\ ch.qrys = Nothing \/ (ch.qrys = x /\ \A q \in DOMAIN x : DOMAIN x[q] \subseteq {"text", "on"})
  BY <1>1 DEF NoChange
<1>3. IsList(<<>>) /\ DOMAIN <<>> = {} /\ DOMAIN Nothing = {} /\ ListedTopics(<<>>)
  BY EmptyIsList, NothingIsDistinct DEF Nothing
<1>4. IsList(ch.queries) /\ \A i \in DOMAIN ch.queries : ch.queries[i].topic \in DOMAIN topics
  <2>1. CASE ch.queries = <<>>
    BY <1>3, <2>1
  <2>2. CASE ch.queries = <<x>> /\ t \in DOMAIN topics
    BY <1>1, <2>2, OneIsList
  <2> QED BY <1>2, <2>1, <2>2
<1>5. \A q \in DOMAIN ch.qrys : DOMAIN ch.qrys[q] \subseteq {"text", "on"}
  BY <1>2, <1>3
<1> QED BY <1>2, <1>3, <1>4, <1>5 DEF ChangeFits, ChangeOf, AddsModules

\* A change that adds modules.
LEMMA NewModulesFit ==
    ASSUME NEW ms, IsList(ms), \A i \in DOMAIN ms : ListedTopics(ms[i].topics),
           \A i \in DOMAIN ms : Distinct(NameFolds(ms[i].topics)),
           NEW ch, ch = [NoChange EXCEPT !.modules = ms]
    PROVE  ChangeFits(ch) /\ AddsModules(ch) /\ OnlyAdds(ch)
<1>1. /\ ch.modules = ms /\ ch.topics = <<>> /\ ch.tops = Nothing /\ ch.mods = Nothing
      /\ ch.queries = <<>> /\ ch.qrys = Nothing /\ ch.gone = {}
  BY DEF NoChange
<1>2. IsList(<<>>) /\ DOMAIN <<>> = {} /\ DOMAIN Nothing = {} /\ ListedTopics(<<>>)
  BY EmptyIsList, NothingIsDistinct DEF Nothing
<1> QED BY <1>1, <1>2 DEF ChangeFits, ChangeOf, AddsModules, OnlyAdds

\* A change that adds a topic.
LEMMA NewTopicFits ==
    ASSUME NEW x, x.module \in DOMAIN modules, IsList(x.queries), ~HasTopic(x.module, x.name),
           NEW ch, ch = [NoChange EXCEPT !.topics = <<x>>]
    PROVE  ChangeFits(ch) /\ AddsTopic(ch) /\ OnlyAdds(ch)
<1>1. /\ ch.modules = <<>> /\ ch.topics = <<x>> /\ ch.tops = Nothing /\ ch.mods = Nothing
      /\ ch.queries = <<>> /\ ch.qrys = Nothing /\ ch.gone = {}
  BY DEF NoChange
<1>2. IsList(<<>>) /\ DOMAIN <<>> = {} /\ DOMAIN Nothing = {}
  BY EmptyIsList DEF Nothing
<1>3. ListedTopics(<<x>>) /\ \A i \in DOMAIN <<x>> : <<x>>[i].module \in DOMAIN modules
  BY OneIsList DEF ListedTopics
<1> QED BY <1>1, <1>2, <1>3 DEF ChangeFits, ChangeOf, AddsTopic, OnlyAdds

\* A change that switches topics.
LEMMA TopicPatchFits ==
    ASSUME NEW x, \A t \in DOMAIN x : DOMAIN x[t] \subseteq {"name", "enabled", "archived"},
           NEW ch, ch = [NoChange EXCEPT !.tops = x]
    PROVE  /\ ChangeFits(ch)
           /\ (\A t \in DOMAIN x : /\ "name" \notin DOMAIN x[t]
                                   /\ "archived" \in DOMAIN x[t] => x[t].archived)
              => SwitchesTopics(ch)
<1>1. /\ ch.modules = <<>> /\ ch.topics = <<>> /\ ch.tops = x
      /\ ch.queries = <<>> /\ ch.qrys = Nothing
  BY DEF NoChange
<1>2. IsList(<<>>) /\ DOMAIN <<>> = {} /\ DOMAIN Nothing = {} /\ ListedTopics(<<>>)
  BY EmptyIsList, NothingIsDistinct DEF Nothing
<1> QED BY <1>1, <1>2 DEF ChangeFits, ChangeOf, SwitchesTopics

\* What the forms of the modules decide (routers/modules.py).
LEMMA ModuleFormsFit ==
    ASSUME NEW ch \in CreateModule \cup ModuleToggle \cup ModuleArchive \cup ModuleRestore
                        \cup ModuleMove \cup ModuleUpdate
    PROVE  ChangeFits(ch) /\ AddsModules(ch)
<1>1. CASE ch \in CreateModule
  <2>1. PICK k, n : ch = [NoChange EXCEPT !.modules = <<[key |-> k, order |-> n, topics |-> <<>>]>>]
    BY <1>1 DEF CreateModule
  <2>2. PICK x : x = [key |-> k, order |-> n, topics |-> <<>>]
    OBVIOUS
  <2>3. x.topics = <<>> /\ ch = [NoChange EXCEPT !.modules = <<x>>]
    BY <2>1, <2>2
  <2>4. IsList(<<x>>) /\ \A i \in DOMAIN <<x>> : <<x>>[i].topics = <<>>
    BY <2>3, OneIsList
  <2> QED BY <2>3, <2>4, NothingIsDistinct, NewModulesFit
<1>2. CASE ch \in ModuleToggle \cup ModuleArchive \cup ModuleRestore \cup ModuleMove
                    \cup ModuleUpdate
  <2>1. \/ \E m, w : ch = PatchModule(m, w)
        \/ \E m, n : ch = Swap(m, n)
    <3>1. CASE ch \in ModuleToggle \cup ModuleArchive \cup ModuleRestore
      BY <3>1 DEF ModuleToggle, ModuleArchive, ModuleRestore
    <3>2. CASE ch \in ModuleMove
      BY <3>2 DEF ModuleMove
    <3>3. CASE ch \in ModuleUpdate
      BY <3>3 DEF ModuleUpdate
    <3> QED BY <1>2, <3>1, <3>2, <3>3
  <2>2. CASE \E m, w : ch = PatchModule(m, w)
    <3>1. PICK m, w : ch = PatchModule(m, w)
      BY <2>2
    <3>2. PICK x : x = [i \in {m} |-> Changed(modules[m], w)]
      OBVIOUS
    <3>3. ch = [NoChange EXCEPT !.mods = x]
      BY <3>1, <3>2 DEF PatchModule
    <3> QED BY <3>3, PatchesFit
  <2>3. CASE \E m, n : ch = Swap(m, n)
    <3>1. PICK m, n : ch = Swap(m, n)
      BY <2>3
    <3>2. PICK x : x = [i \in {m, n} |->
                Changed(modules[i], [order |-> modules[IF i = m THEN n ELSE m].order])]
      OBVIOUS
    <3>3. ch = [NoChange EXCEPT !.mods = x]
      BY <3>1, <3>2 DEF Swap
    <3> QED BY <3>3, PatchesFit
  <2> QED BY <2>1, <2>2, <2>3
<1> QED BY <1>1, <1>2

\* What the forms that add, switch and archive topics decide (routers/topics.py).
LEMMA TopicFormsFit ==
    ASSUME NEW ch \in CreateTopic \cup TopicToggle \cup TopicArchive
    PROVE  ChangeFits(ch) /\ (AddsTopic(ch) \/ SwitchesTopics(ch))
<1>1. CASE ch \in CreateTopic
  <2>1. PICK m \in DOMAIN modules, n \in Names : ch = EmptyTopic(m, n) /\ ~HasTopic(m, n)
    BY <1>1 DEF CreateTopic
  <2>2. PICK o : o = NextTopicOrder(m)
    OBVIOUS
  <2>3. PICK x : x = [module |-> m, name |-> n, queries |-> <<>>, order |-> o]
    OBVIOUS
  <2>4. /\ ch = [NoChange EXCEPT !.topics = <<x>>]
        /\ x.module = m /\ x.name = n /\ x.queries = <<>>
    BY <2>1, <2>2, <2>3 DEF EmptyTopic
  <2> QED BY <2>1, <2>4, EmptyIsList, NewTopicFits
<1>2. CASE ch \in TopicToggle
  <2>1. PICK t \in DOMAIN topics : ch = PatchTopic(t, [enabled |-> ~topics[t].enabled])
    BY <1>2 DEF TopicToggle
  <2>2. PICK w, c : w = [enabled |-> ~topics[t].enabled] /\ c = Changed(topics[t], w)
    OBVIOUS
  <2>3. DOMAIN c \subseteq {"enabled"}
    BY <2>2 DEF Changed
  <2>4. PICK x : x = [i \in {t} |-> c]
    OBVIOUS
  <2>5. ch = [NoChange EXCEPT !.tops = x]
    BY <2>1, <2>2, <2>4 DEF PatchTopic
  <2>6. \A i \in DOMAIN x : x[i] = c
    BY <2>4
  <2>7. \A i \in DOMAIN x : /\ DOMAIN x[i] \subseteq {"name", "enabled", "archived"}
                            /\ "name" \notin DOMAIN x[i] /\ "archived" \notin DOMAIN x[i]
    BY <2>3, <2>6
  <2> QED BY <2>5, <2>7, TopicPatchFits
<1>3. CASE ch \in TopicArchive
  <2>1. PICK t \in DOMAIN topics : ch = PatchTopic(t, [archived |-> TRUE, enabled |-> FALSE])
    BY <1>3 DEF TopicArchive
  <2>2. PICK w, c : w = [archived |-> TRUE, enabled |-> FALSE] /\ c = Changed(topics[t], w)
    OBVIOUS
  <2>3. /\ DOMAIN c \subseteq {"archived", "enabled"}
        /\ "archived" \in DOMAIN c => c["archived"]
    BY <2>2 DEF Changed
  <2>4. PICK x : x = [i \in {t} |-> c]
    OBVIOUS
  <2>5. ch = [NoChange EXCEPT !.tops = x]
    BY <2>1, <2>2, <2>4 DEF PatchTopic
  <2>6. \A i \in DOMAIN x : x[i] = c
    BY <2>4
  <2>7. \A i \in DOMAIN x : /\ DOMAIN x[i] \subseteq {"name", "enabled", "archived"}
                            /\ "name" \notin DOMAIN x[i]
                            /\ "archived" \in DOMAIN x[i] => x[i].archived
    BY <2>3, <2>6
  <2> QED BY <2>5, <2>7, TopicPatchFits
<1> QED BY <1>1, <1>2, <1>3

\* What the form that edits a topic decides.
LEMMA TopicUpdateFits ==
    ASSUME NEW ch \in TopicUpdate
    PROVE  ChangeFits(ch)
<1>1. PICK t \in DOMAIN topics, n \in Names, on \in BOOLEAN :
         ch = PatchTopic(t, [name |-> n, enabled |-> on])
  BY DEF TopicUpdate
<1>2. PICK w, c : w = [name |-> n, enabled |-> on] /\ c = Changed(topics[t], w)
  OBVIOUS
<1>3. DOMAIN c \subseteq {"name", "enabled"}
  BY <1>2 DEF Changed
<1>4. PICK x : x = [i \in {t} |-> c]
  OBVIOUS
<1>5. ch = [NoChange EXCEPT !.tops = x]
  BY <1>1, <1>2, <1>4 DEF PatchTopic
<1>6. \A i \in DOMAIN x : x[i] = c
  BY <1>4
<1>7. \A i \in DOMAIN x : DOMAIN x[i] \subseteq {"name", "enabled", "archived"}
  BY <1>3, <1>6
<1> QED BY <1>5, <1>7, TopicPatchFits

\* What the forms of the queries decide (routers/queries.py).
LEMMA QueryFormsFit ==
    ASSUME NEW ch \in CreateQuery \cup UpdateQuery \cup ToggleQuery \cup DeleteQuery
    PROVE  ChangeFits(ch) /\ AddsModules(ch)
<1>1. CASE ch \in CreateQuery
  <2>1. PICK t, y : t \in DOMAIN topics /\ ch = [NoChange EXCEPT !.queries = <<[topic |-> t, text |-> y]>>]
    BY <1>1 DEF CreateQuery
  <2>2. PICK x : x = [topic |-> t, text |-> y]
    OBVIOUS
  <2>3. ch = [NoChange EXCEPT !.queries = <<x>>] /\ x.topic \in DOMAIN topics
    BY <2>1, <2>2
  <2> QED BY <2>3, PatchesFit
<1>2. CASE ch \in UpdateQuery \cup ToggleQuery
  <2>1. PICK q, w : /\ q \in DOMAIN queries
                    /\ ch = PatchQuery(q, w)
                    /\ DOMAIN w \subseteq {"text", "on"}
    <3>1. CASE ch \in UpdateQuery
      <4>1. PICK q \in DOMAIN queries, x \in Texts : ch = PatchQuery(q, [text |-> x])
        BY <3>1 DEF UpdateQuery
      <4>2. DOMAIN [text |-> x] \subseteq {"text", "on"}
        OBVIOUS
      <4> QED BY <4>1, <4>2
    <3>2. CASE ch \in ToggleQuery
      <4>1. PICK q \in DOMAIN queries : ch = PatchQuery(q, [on |-> ~queries[q].on])
        BY <3>2 DEF ToggleQuery
      <4>2. PICK w : w = [on |-> ~queries[q].on]
        OBVIOUS
      <4>3. DOMAIN w \subseteq {"text", "on"}
        BY <4>2
      <4> QED BY <4>1, <4>2, <4>3
    <3> QED BY <1>2, <3>1, <3>2
  <2>2. PICK c : c = Changed(queries[q], w)
    OBVIOUS
  <2>3. DOMAIN c \subseteq {"text", "on"}
    BY <2>1, <2>2 DEF Changed
  <2>4. PICK x : x = [i \in {q} |-> c]
    OBVIOUS
  <2>5. ch = [NoChange EXCEPT !.qrys = x]
    BY <2>1, <2>2, <2>4 DEF PatchQuery
  <2>6. \A i \in DOMAIN x : DOMAIN x[i] \subseteq {"text", "on"}
    BY <2>3, <2>4
  <2> QED BY <2>5, <2>6, PatchesFit
<1>3. CASE ch \in DeleteQuery
  <2>1. \E x : ch = [NoChange EXCEPT !.gone = x]
    BY <1>3 DEF DeleteQuery
  <2> QED BY <2>1, PatchesFit
<1> QED BY <1>1, <1>2, <1>3

\* What the apply handlers decide (routers/config_ai.py, routers/simple.py).
LEMMA DraftsFit ==
    ASSUME PageFits, NEW ch \in ApplyModule \cup ApplyTopic
    PROVE  ChangeFits(ch) /\ OnlyAdds(ch) /\ (AddsModules(ch) \/ AddsTopic(ch))
<1>1. CASE ch \in ApplyModule
  <2>1. page.kind = "module"
    BY <1>1 DEF ApplyModule
  <2>2. FitConfig(page.draft)
    BY <2>1 DEF PageFits
  <2>3. PICK x, o : /\ x \in Posts
                    /\ ~FormRefused(x)
                    /\ ch = [NoChange EXCEPT !.modules =
                               <<[key |-> PostedConfig(x).key, order |-> o,
                                  topics |-> PostedConfig(x).topics]>>]
    BY <1>1, <2>1 DEF ApplyModule
  <2>4. PICK c, ts, k : c = PostedConfig(x) /\ ts = c.topics /\ k = c.key
    OBVIOUS
  <2>5. FitTopics(ts)
    <3>1. ProposedConfig(Validated(x))
      BY <2>2, <2>3, PostIsProposed
    <3>2. ~ConfigRefused(Validated(x))
      BY <2>3 DEF FormRefused
    <3>3. FitConfig(c)
      BY <2>4, <3>1, <3>2, ValidatedConfigIsFit DEF PostedConfig
    <3> QED BY <2>4, <3>3 DEF FitConfig
  <2>6. ListedTopics(ts) /\ Distinct(NameFolds(ts))
    BY <2>5, FitTopicsAreListed DEF FitTopics
  <2>7. PICK y : y = [key |-> k, order |-> o, topics |-> ts]
    OBVIOUS
  <2>8. y.topics = ts /\ ch = [NoChange EXCEPT !.modules = <<y>>]
    BY <2>3, <2>4, <2>7
  <2>9. IsList(<<y>>) /\ \A i \in DOMAIN <<y>> : <<y>>[i].topics = ts
    BY <2>8, OneIsList
  <2> QED BY <2>6, <2>8, <2>9, NewModulesFit
<1>2. CASE ch \in ApplyTopic
  <2>1. page.kind = "topic"
    BY <1>2 DEF ApplyTopic
  <2>2. FitTopic(page.draft) /\ page.module \in DOMAIN modules
    BY <2>1 DEF PageFits
  <2>3. PICK form, t, m, o : /\ form = TopicFromForm(page.draft) /\ t = GeneratedTopic(form)
                             /\ m = page.module /\ o = NextTopicOrder(m)
    OBVIOUS
  <2>4. /\ ~HasTopic(m, t.name) /\ ~TopicRefused(form)
        /\ ch = [NoChange EXCEPT !.topics = <<[module |-> m, name |-> t.name, order |-> o,
                                               queries |-> t.queries]>>]
    BY <1>2, <2>1, <2>3 DEF ApplyTopic
  <2>5. FitTopic(t)
    BY <2>2, <2>3, <2>4, PostedTopicIsShown
  <2>6. IsList(t.queries)
    BY <2>5 DEF FitTopic, CleanTopic
  <2>7. PICK n, q : n = t.name /\ q = t.queries
    OBVIOUS
  <2>8. PICK x : x = [module |-> m, name |-> n, order |-> o, queries |-> q]
    OBVIOUS
  <2>9. /\ ch = [NoChange EXCEPT !.topics = <<x>>]
        /\ x.module = m /\ x.name = n /\ x.queries = q
    BY <2>4, <2>7, <2>8
  <2>10. x.module \in DOMAIN modules /\ IsList(x.queries) /\ ~HasTopic(x.module, x.name)
    BY <2>2, <2>3, <2>4, <2>6, <2>7, <2>9
  <2> QED BY <2>9, <2>10, NewTopicFits
<1> QED BY <1>1, <1>2

-----------------------------------------------------------------------------
(* Every step keeps it.                                                    *)

\* A change stays possible when there are more rows.
LEMMA MoreRowsFit ==
    ASSUME NEW ch, NEW M, NEW T, ChangeOf(ch, M, T), NEW N, M \subseteq N, NEW U, T \subseteq U
    PROVE  ChangeOf(ch, N, U)
BY DEF ChangeOf

\* A committed change leaves rows, and takes none away.
LEMMA CommittedRows ==
    ASSUME RowsFit, NEW ch, ChangeFits(ch), Commit(ch)
    PROVE  /\ RowsAre(modules', topics', queries')
           /\ DOMAIN modules \subseteq DOMAIN modules' /\ DOMAIN topics \subseteq DOMAIN topics'
<1>1. modules' = ModulesAfter(ch) /\ topics' = TopicsAfter(ch) /\ queries' = QueriesAfter(ch)
  BY DEF Commit
<1> QED BY <1>1, RowsAfterAre, NewTopicsAreOfModules

\* What has been decided stays possible when rows are added.
LEMMA RequestsStay ==
    ASSUME RequestsFit, DOMAIN modules \subseteq DOMAIN modules',
           DOMAIN topics \subseteq DOMAIN topics'
    PROVE  \A r \in Workers : /\ ChangeOf(reqs[r].change, DOMAIN modules', DOMAIN topics')
                              /\ reqs[r].draft => OnlyAdds(reqs[r].change)
BY MoreRowsFit DEF RequestsFit, ChangeFits

\* A worker that is idle holds no change.
LEMMA IdleFits ==
    ASSUME NEW M, NEW T
    PROVE  ChangeOf(Idle.change, M, T) /\ ~Idle.draft /\ Idle.at = "idle"
<1>1. Idle.change = NoChange /\ Idle.draft = FALSE /\ Idle.at = "idle"
  BY DEF Idle
<1>2. /\ NoChange.modules = <<>> /\ NoChange.topics = <<>> /\ NoChange.tops = Nothing
      /\ NoChange.queries = <<>> /\ NoChange.qrys = Nothing
  BY DEF NoChange
<1>3. IsList(<<>>) /\ DOMAIN <<>> = {} /\ DOMAIN Nothing = {} /\ ListedTopics(<<>>)
  BY EmptyIsList, NothingIsDistinct DEF Nothing
<1>4. ChangeOf(NoChange, M, T)
  BY <1>2, <1>3 DEF ChangeOf
<1> QED BY <1>1, <1>4

\* What a change will do depends on the rows only.
LEMMA SameTopicsAfter ==
    ASSUME NEW ch, UNCHANGED rowvars
    PROVE  TopicsAfter(ch)' = TopicsAfter(ch)
BY DEF rowvars, TopicsAfter, TopicsToAdd

\* The empty configuration is in order.
LEMMA EditorBegins == EditorInit => EditorFits
<1> SUFFICES ASSUME EditorInit PROVE EditorFits
  OBVIOUS
<1>1. /\ modules = <<>> /\ topics = <<>> /\ queries = <<>> /\ page = NoPage
      /\ reqs = [r \in Workers |-> Idle] /\ cause = {}
  BY DEF EditorInit, Nothing
<1>2. DOMAIN <<>> = {}
  BY EmptyIsList
<1>3. Bounded(<<>>)
  <2>1. DOMAIN <<>> \subseteq 1..0 /\ 0 \in Nat
    BY <1>2
  <2> QED BY <2>1 DEF Bounded
<1>4. <<>> = [m \in DOMAIN <<>> |-> <<>>[m]]
  OBVIOUS
<1>5. RowsAre(<<>>, <<>>, <<>>)
  BY <1>2, <1>3, <1>4 DEF RowsAre
<1>6. RowsFit
  BY <1>1, <1>5 DEF RowsFit
<1>7. PageFits
  BY <1>1 DEF PageFits, NoPage
<1>8. RequestsFit
  <2>1. \A r \in Workers : reqs[r] = Idle
    BY <1>1
  <2>2. reqs = [r \in Workers |-> reqs[r]]
    BY <1>1
  <2>3. ChangeFits(Idle.change) /\ ~Idle.draft
    BY IdleFits DEF ChangeFits
  <2> QED BY <2>1, <2>2, <2>3 DEF RequestsFit
<1>9. TwinsFit
  <2>1. NoTwins(<<>>)
    BY <1>2 DEF NoTwins
  <2> QED BY <1>1, <2>1 DEF TwinsFit
<1> QED BY <1>6, <1>7, <1>8, <1>9 DEF EditorFits

\* A request that has decided what to write.
LEMMA SubmittedFits ==
    ASSUME EditorFits, modules # Nothing, NEW r \in Workers, NEW ch, NEW d, NEW excuse,
           reqs[r] = Idle,
           reqs' = [reqs EXCEPT ![r] = [at |-> "write", change |-> ch, draft |-> d]],
           cause' = cause \cup excuse \cup IF \E q \in Workers : reqs[q] # Idle
                                           THEN {"twins"} ELSE {},
           UNCHANGED <<rowvars, page>>,
           ChangeFits(ch), d => OnlyAdds(ch),
           "twins" \in excuse \/ AddsModules(ch) \/ AddsTopic(ch) \/ SwitchesTopics(ch)
    PROVE  EditorFits'
<1>1. /\ modules' = modules /\ topics' = topics /\ queries' = queries /\ page' = page
      /\ UNCHANGED rowvars
  BY DEF rowvars
<1>2. RowsFit /\ PageFits /\ RequestsFit /\ TwinsFit
  BY DEF EditorFits
<1>3. RowsFit'
  <2>1. DOMAIN modules # {}
    <3>1. modules = [m \in DOMAIN modules |-> modules[m]]
      BY <1>2 DEF RowsFit, RowsAre
    <3>2. modules # <<>>
      BY DEF Nothing
    <3>3. ASSUME DOMAIN modules = {} PROVE FALSE
      <4>1. modules = [m \in {} |-> modules[m]]
        BY <3>1, <3>3
      <4> QED BY <3>2, <4>1
    <3> QED BY <3>3
  <2> QED BY <1>1, <1>2, <2>1 DEF RowsFit
<1>4. PageFits'
  BY <1>1, <1>2 DEF PageFits
<1>5. DOMAIN reqs = Workers /\ reqs = [q \in Workers |-> reqs[q]]
  BY <1>2 DEF RequestsFit
<1>6. PICK new : new = [at |-> "write", change |-> ch, draft |-> d]
  OBVIOUS
<1>7. /\ reqs' = [q \in Workers |-> reqs'[q]] /\ reqs'[r] = new
      /\ \A q \in Workers : q # r => reqs'[q] = reqs[q]
  BY <1>5, <1>6
<1>8. new.change = ch /\ new.draft = d
  BY <1>6
<1>9. RequestsFit'
  <2>1. ASSUME NEW q \in Workers
        PROVE  /\ ChangeOf(reqs'[q].change, DOMAIN modules', DOMAIN topics')
               /\ reqs'[q].draft => OnlyAdds(reqs'[q].change)
    <3>1. CASE q = r
      BY <1>1, <1>7, <1>8, <3>1 DEF ChangeFits
    <3>2. CASE q # r
      BY <1>1, <1>2, <1>7, <3>2 DEF RequestsFit, ChangeFits
    <3> QED BY <3>1, <3>2
  <2> QED BY <1>7, <2>1 DEF RequestsFit, ChangeFits
<1>10. TwinsFit'
  <2>1. CASE "twins" \in cause'
    BY <2>1 DEF TwinsFit
  <2>2. CASE "twins" \notin cause'
    <3>1. "twins" \notin cause /\ "twins" \notin excuse /\ \A q \in Workers : reqs[q] = Idle
      BY <2>2
    <3>2. \A q \in Workers : reqs'[q] # Idle => q = r
      BY <1>7, <3>1
    <3>3. NoTwins(topics)
      BY <1>2, <3>1 DEF TwinsFit
    <3>4. NoTwins(TopicsAfter(ch))
      BY <1>2, <3>1, <3>3, DecidedChangeBringsNoTwin
    <3>5. TopicsAfter(ch)' = TopicsAfter(ch)
      BY <1>1, SameTopicsAfter
    <3>6. NoTwins(topics')
      BY <1>1, <3>3
    <3>7. reqs'[r].change = ch
      BY <1>7, <1>8
    <3>8. \A q \in Workers : \A c \in {reqs'[q].change} :
             reqs'[q] # Idle => NoTwins(TopicsAfter(c)')
      BY <3>2, <3>4, <3>5, <3>7
    <3> QED BY <3>2, <3>6, <3>8 DEF TwinsFit
  <2> QED BY <2>1, <2>2
<1> QED BY <1>3, <1>4, <1>9, <1>10 DEF EditorFits

\* A page that is rendered, or left.
LEMMA PageShown ==
    ASSUME EditorFits, UNCHANGED <<rowvars, reqs, cause>>,
           page'.kind = "module" => FitConfig(page'.draft),
           page'.kind = "topic" => FitTopic(page'.draft) /\ page'.module \in DOMAIN modules
    PROVE  EditorFits'
<1>1. /\ modules' = modules /\ topics' = topics /\ queries' = queries
      /\ reqs' = reqs /\ cause' = cause /\ UNCHANGED rowvars
  BY DEF rowvars
<1>2. RowsFit /\ PageFits /\ RequestsFit /\ TwinsFit
  BY DEF EditorFits
<1>3. RowsFit' /\ RequestsFit'
  BY <1>1, <1>2 DEF RowsFit, RequestsFit, ChangeFits
<1>4. PageFits'
  BY <1>1 DEF PageFits
<1>5. TwinsFit'
  <2>1. CASE "twins" \in cause'
    BY <2>1 DEF TwinsFit
  <2>2. CASE "twins" \notin cause'
    <3>1. \A q, p \in Workers : reqs'[q] # Idle /\ reqs'[p] # Idle => q = p
      BY <1>1, <1>2, <2>2 DEF TwinsFit
    <3>2. NoTwins(topics')
      BY <1>1, <1>2, <2>2 DEF TwinsFit
    <3>3. ASSUME NEW q \in Workers, NEW c \in {reqs'[q].change}, reqs'[q] # Idle
          PROVE  NoTwins(TopicsAfter(c)')
      <4>1. NoTwins(TopicsAfter(c))
        BY <1>1, <1>2, <2>2, <3>3 DEF TwinsFit
      <4>2. TopicsAfter(c)' = TopicsAfter(c)
        BY <1>1, SameTopicsAfter
      <4> QED BY <4>1, <4>2
    <3> QED BY <3>1, <3>2, <3>3 DEF TwinsFit
  <2> QED BY <2>1, <2>2
<1> QED BY <1>3, <1>4, <1>5 DEF EditorFits

\* A request that is over, whether it has written or not.
LEMMA OverFits ==
    ASSUME EditorFits, NEW r \in Workers, reqs[r].at = "write",
           reqs' = [reqs EXCEPT ![r] = Idle], UNCHANGED <<page, cause>>,
           Commit(reqs[r].change) \/ UNCHANGED rowvars
    PROVE  EditorFits'
<1>1. PICK ch : ch = reqs[r].change
  OBVIOUS
<1>2. RowsFit /\ PageFits /\ RequestsFit /\ TwinsFit
  BY DEF EditorFits
<1>3. ChangeFits(ch)
  BY <1>1, <1>2 DEF RequestsFit
<1>4. reqs[r] # Idle
  BY IdleFits
<1>5. /\ RowsAre(modules', topics', queries')
      /\ DOMAIN modules \subseteq DOMAIN modules' /\ DOMAIN topics \subseteq DOMAIN topics'
  <2>1. CASE Commit(reqs[r].change)
    <3>1. Commit(ch)
      BY <1>1, <2>1
    <3> QED BY <1>2, <1>3, <3>1, CommittedRows
  <2>2. CASE UNCHANGED rowvars
    BY <1>2, <2>2 DEF rowvars, RowsFit
  <2> QED BY <2>1, <2>2
<1>6. DOMAIN modules # {}
  BY <1>2, <1>4 DEF RowsFit
<1>7. RowsFit'
  <2>1. DOMAIN modules' # {}
    BY <1>5, <1>6
  <2> QED BY <1>5, <2>1 DEF RowsFit
<1>8. PageFits'
  BY <1>2, <1>5 DEF PageFits
<1>9. /\ reqs' = [q \in Workers |-> reqs'[q]] /\ reqs'[r] = Idle
      /\ \A q \in Workers : q # r => reqs'[q] = reqs[q]
  BY <1>2 DEF RequestsFit
<1>10. RequestsFit'
  <2>1. ASSUME NEW q \in Workers
        PROVE  /\ ChangeOf(reqs'[q].change, DOMAIN modules', DOMAIN topics')
               /\ reqs'[q].draft => OnlyAdds(reqs'[q].change)
    <3>1. CASE q = r
      BY <1>9, <3>1, IdleFits
    <3>2. CASE q # r
      BY <1>2, <1>5, <1>9, <3>2, RequestsStay
    <3> QED BY <3>1, <3>2
  <2> QED BY <1>9, <2>1 DEF RequestsFit, ChangeFits
<1>11. TwinsFit'
  <2>1. CASE "twins" \in cause'
    BY <2>1 DEF TwinsFit
  <2>2. CASE "twins" \notin cause'
    <3>1. /\ \A q, p \in Workers : reqs[q] # Idle /\ reqs[p] # Idle => q = p
          /\ NoTwins(topics) /\ NoTwins(TopicsAfter(ch))
      BY <1>1, <1>2, <1>4, <2>2 DEF TwinsFit
    <3>2. \A q \in Workers : reqs'[q] = Idle
      BY <1>4, <1>9, <3>1
    <3>3. NoTwins(topics')
      <4>1. CASE Commit(reqs[r].change)
        <5>1. topics' = TopicsAfter(ch)
          BY <1>1, <4>1 DEF Commit
        <5> QED BY <3>1, <5>1
      <4>2. CASE UNCHANGED rowvars
        BY <3>1, <4>2 DEF rowvars
      <4> QED BY <4>1, <4>2
    <3> QED BY <3>2, <3>3 DEF TwinsFit
  <2> QED BY <2>1, <2>2
<1> QED BY <1>7, <1>8, <1>10, <1>11 DEF EditorFits

\* Keys that are all first ones differ.
LEMMA DistinctNames ==
    ASSUME NEW keys, IsList(keys), Firsts(keys) = DOMAIN keys
    PROVE  Distinct(keys)
<1>1. PICK L \in Nat : DOMAIN keys = 1..L
  BY ListIsNumbered DEF Numbered
<1>2. ASSUME NEW i \in DOMAIN keys, NEW j \in DOMAIN keys, i < j
      PROVE  keys[i] # keys[j]
  <2>1. i \in 1..(j - 1)
    BY <1>1, <1>2
  <2>2. j \in Firsts(keys)
    OBVIOUS
  <2> QED BY <2>1, <2>2 DEF Firsts
<1>3. ASSUME NEW i \in DOMAIN keys, NEW j \in DOMAIN keys, keys[i] = keys[j]
      PROVE  i = j
  <2>1. i < j \/ j < i \/ i = j
    BY <1>1
  <2> QED BY <1>2, <1>3, <2>1
<1> QED BY <1>3 DEF Distinct

\* Filling an empty configuration leaves it in order (_seed_if_empty).
LEMMA SeededFits == EditorFits /\ SeedIfEmpty => EditorFits'
<1> SUFFICES ASSUME EditorFits, SeedIfEmpty PROVE EditorFits'
  OBVIOUS
<1>1. RowsFit /\ PageFits /\ RequestsFit /\ TwinsFit
  BY DEF EditorFits
<1>2. modules = <<>> /\ page' = page /\ reqs' = reqs /\ cause' = cause
  BY DEF SeedIfEmpty, Nothing
<1>3. PICK ms : ms = [i \in DOMAIN Seeds |-> [key |-> Seeds[i].key, order |-> i,
                                              topics |-> Seeds[i].topics]]
  OBVIOUS
<1>4. PICK ch : ch = [NoChange EXCEPT !.modules = ms]
  OBVIOUS
<1>5. Commit(ch)
  BY <1>3, <1>4 DEF SeedIfEmpty
<1>6. /\ DOMAIN ms = DOMAIN Seeds /\ ms = [i \in DOMAIN ms |-> ms[i]]
      /\ \A i \in DOMAIN ms : ms[i].topics = Seeds[i].topics
  BY <1>3
<1>7. IsList(ms)
  BY <1>6, MapIsList, MonitoringAssumption
<1>8. \A i \in DOMAIN ms : ListedTopics(ms[i].topics)
  BY <1>6, MonitoringAssumption DEF ListedTopics
<1>9. \A i \in DOMAIN ms : Distinct(NameFolds(ms[i].topics))
  <2> TAKE i \in DOMAIN ms
  <2>1. PICK ts, ks : ts = ms[i].topics /\ ks = NameFolds(ts)
    OBVIOUS
  <2>2. IsList(ts) /\ Firsts(ks) = DOMAIN ts
    BY <1>6, <2>1, MonitoringAssumption
  <2>3. DOMAIN ks = DOMAIN ts /\ ks = [j \in DOMAIN ks |-> ks[j]]
    BY <2>1 DEF NameFolds
  <2>4. IsList(ks)
    BY <2>2, <2>3, MapIsList
  <2> QED BY <2>1, <2>2, <2>3, <2>4, DistinctNames
<1>10. ChangeFits(ch) /\ AddsModules(ch)
  BY <1>4, <1>7, <1>8, <1>9, NewModulesFit
<1>11. /\ RowsAre(modules', topics', queries')
       /\ DOMAIN modules \subseteq DOMAIN modules' /\ DOMAIN topics \subseteq DOMAIN topics'
  BY <1>1, <1>5, <1>10, CommittedRows
<1>12. DOMAIN modules = {} /\ DOMAIN topics = {} /\ \A r \in Workers : reqs[r] = Idle
  <2>1. DOMAIN modules = {}
    BY <1>2, EmptyIsList
  <2> QED BY <1>1, <2>1 DEF RowsFit, RowsAre
<1>13. RowsFit'
  BY <1>2, <1>11, <1>12 DEF RowsFit
<1>14. PageFits'
  BY <1>1, <1>2, <1>11 DEF PageFits
<1>15. RequestsFit'
  <2>1. \A r \in Workers : /\ ChangeOf(reqs'[r].change, DOMAIN modules', DOMAIN topics')
                           /\ reqs'[r].draft => OnlyAdds(reqs'[r].change)
    BY <1>1, <1>2, <1>11, RequestsStay
  <2> QED BY <1>1, <1>2, <2>1 DEF RequestsFit, ChangeFits
<1>16. TwinsFit'
  <2>1. NoTwins(topics)
    BY <1>12 DEF NoTwins
  <2>2. NoTwins(TopicsAfter(ch))
    BY <1>1, <1>10, <2>1, DecidedChangeBringsNoTwin
  <2>3. NoTwins(topics')
    BY <1>5, <2>2 DEF Commit
  <2>4. \A r \in Workers : reqs'[r] = Idle
    BY <1>2, <1>12
  <2> QED BY <2>3, <2>4 DEF TwinsFit
<1> QED BY <1>13, <1>14, <1>15, <1>16 DEF EditorFits

\* So does every handler that decides on a change.
LEMMA EditFits ==
    ASSUME EditorFits, modules # Nothing, NEW r \in Workers, Edit(r)
    PROVE  EditorFits'
<1>1. CASE Submit(r, CreateModule \cup ModuleToggle \cup ModuleArchive \cup ModuleRestore
                       \cup ModuleMove \cup ModuleUpdate, FALSE, {})
  <2>1. PICK ch \in CreateModule \cup ModuleToggle \cup ModuleArchive \cup ModuleRestore
                       \cup ModuleMove \cup ModuleUpdate :
           reqs' = [reqs EXCEPT ![r] = [at |-> "write", change |-> ch, draft |-> FALSE]]
    BY <1>1 DEF Submit
  <2>2. ChangeFits(ch) /\ AddsModules(ch)
    BY ModuleFormsFit
  <2> QED BY <1>1, <2>1, <2>2, SubmittedFits DEF Submit
<1>2. CASE Submit(r, CreateTopic \cup TopicToggle \cup TopicArchive, FALSE, {})
  <2>1. PICK ch \in CreateTopic \cup TopicToggle \cup TopicArchive :
           reqs' = [reqs EXCEPT ![r] = [at |-> "write", change |-> ch, draft |-> FALSE]]
    BY <1>2 DEF Submit
  <2>2. ChangeFits(ch) /\ (AddsTopic(ch) \/ SwitchesTopics(ch))
    BY TopicFormsFit
  <2> QED BY <1>2, <2>1, <2>2, SubmittedFits DEF Submit
<1>3. CASE Submit(r, TopicUpdate, FALSE, {"twins"})
  <2>1. PICK ch \in TopicUpdate :
           reqs' = [reqs EXCEPT ![r] = [at |-> "write", change |-> ch, draft |-> FALSE]]
    BY <1>3 DEF Submit
  <2>2. ChangeFits(ch)
    BY TopicUpdateFits
  <2> QED BY <1>3, <2>1, <2>2, SubmittedFits DEF Submit
<1>4. CASE Submit(r, CreateQuery \cup UpdateQuery \cup ToggleQuery \cup DeleteQuery, FALSE, {})
  <2>1. PICK ch \in CreateQuery \cup UpdateQuery \cup ToggleQuery \cup DeleteQuery :
           reqs' = [reqs EXCEPT ![r] = [at |-> "write", change |-> ch, draft |-> FALSE]]
    BY <1>4 DEF Submit
  <2>2. ChangeFits(ch) /\ AddsModules(ch)
    BY QueryFormsFit
  <2> QED BY <1>4, <2>1, <2>2, SubmittedFits DEF Submit
<1>5. CASE Submit(r, ApplyModule \cup ApplyTopic, TRUE, {})
  <2>1. PICK ch \in ApplyModule \cup ApplyTopic :
           reqs' = [reqs EXCEPT ![r] = [at |-> "write", change |-> ch, draft |-> TRUE]]
    BY <1>5 DEF Submit
  <2>2. ChangeFits(ch) /\ OnlyAdds(ch) /\ (AddsModules(ch) \/ AddsTopic(ch))
    BY DraftsFit DEF EditorFits
  <2> QED BY <1>5, <2>1, <2>2, SubmittedFits DEF Submit
<1> QED BY <1>1, <1>2, <1>3, <1>4, <1>5 DEF Edit

\* So does every step.
LEMMA EditorStep == EditorFits /\ [EditorNext]_editorVars => EditorFits'
<1> SUFFICES ASSUME EditorFits, [EditorNext]_editorVars PROVE EditorFits'
  OBVIOUS
<1>1. PageFits
  BY DEF EditorFits
<1>2. CASE SeedIfEmpty
  BY <1>2, SeededFits
<1>3. CASE modules # Nothing /\ \E r \in Workers : Edit(r)
  BY <1>3, EditFits
<1>4. CASE GenerateModule
  <2>1. PICK p \in Payloads :
           page' = IF ConfigRefused(CoercePayload(p)) THEN NoPage
                   ELSE [kind |-> "module", module |-> 0,
                         draft |-> ModuleDraft(p, {modules[m].key : m \in DOMAIN modules})]
    BY <1>4 DEF GenerateModule
  <2>2. UNCHANGED <<rowvars, reqs, cause>>
    BY <1>4 DEF GenerateModule
  <2>3. CASE ConfigRefused(CoercePayload(p))
    <3>1. page'.kind = "none"
      BY <2>1, <2>3 DEF NoPage
    <3> QED BY <2>2, <3>1, PageShown
  <2>4. CASE ~ConfigRefused(CoercePayload(p))
    <3>1. PICK d : d = ModuleDraft(p, {modules[m].key : m \in DOMAIN modules})
      OBVIOUS
    <3>2. FitConfig(d)
      BY <2>4, <3>1, ShownModuleIsFit
    <3>3. page' = [kind |-> "module", module |-> 0, draft |-> d]
      BY <2>1, <2>4, <3>1
    <3>4. page'.kind = "module" /\ page'.draft = d
      BY <3>3
    <3> QED BY <2>2, <3>2, <3>4, PageShown
  <2> QED BY <2>3, <2>4
<1>5. CASE GenerateTopic
  <2>1. PICK m \in DOMAIN modules, p \in TopicPayloads :
           page' = IF TopicRefused(CoerceTopic(p))
                      \/ TopicTaken(CoerceTopic(p), {topics[u].name : u \in LiveTopics(m)})
                   THEN NoPage
                   ELSE [kind |-> "topic", module |-> m, draft |-> GeneratedTopic(CoerceTopic(p))]
    BY <1>5 DEF GenerateTopic
  <2>2. UNCHANGED <<rowvars, reqs, cause>>
    BY <1>5 DEF GenerateTopic
  <2>3. CASE page' = NoPage
    <3>1. page'.kind = "none"
      BY <2>3 DEF NoPage
    <3> QED BY <2>2, <3>1, PageShown
  <2>4. CASE page' # NoPage
    <3>1. PICK d, c : c = CoerceTopic(p) /\ d = GeneratedTopic(c)
      OBVIOUS
    <3>2. ~TopicRefused(c) /\ page' = [kind |-> "topic", module |-> m, draft |-> d]
      BY <2>1, <2>4, <3>1
    <3>3. Proposed(c)
      <4>1. p = Junk \/ Proposed(p)
        BY MonitoringAssumption
      <4> QED BY <3>1, <4>1, CoercedTopicIsProposed
    <3>4. FitTopic(d)
      BY <3>1, <3>2, <3>3, ValidatedTopicIsFit
    <3>5. page'.kind = "topic" /\ page'.draft = d /\ page'.module = m
      BY <3>2
    <3> QED BY <2>2, <3>4, <3>5, PageShown
  <2> QED BY <2>3, <2>4
<1>6. CASE \E r \in Workers : Write(r) \/ WriteFails(r)
  <2>1. PICK r \in Workers : Write(r) \/ WriteFails(r)
    BY <1>6
  <2>2. /\ reqs[r].at = "write" /\ reqs' = [reqs EXCEPT ![r] = Idle]
        /\ UNCHANGED <<page, cause>>
        /\ Commit(reqs[r].change) \/ UNCHANGED rowvars
    BY <2>1 DEF Write, WriteFails
  <2> QED BY <2>2, OverFits
<1>7. CASE UNCHANGED editorVars
  <2>1. UNCHANGED <<rowvars, reqs, cause>> /\ page' = page
    BY <1>7 DEF editorVars
  <2> QED BY <1>1, <2>1, PageShown DEF PageFits
<1> QED BY <1>2, <1>3, <1>4, <1>5, <1>6, <1>7 DEF EditorNext

\* The configuration, the draft on the page and the changes the workers hold are
\* always in order: rows belong to rows; what a page shows is cleaned, within its
\* budgets and without repetitions, its domains are domains and its key begins as a
\* key must, but a name may be blank and a query too short; a change that has been
\* decided can be committed; and no two live topics of a module are twins unless one
\* of the three gaps in the code was used.
THEOREM EditorIsSound == EditorSpec => []EditorFits
<1>1. EditorInit => EditorFits
  BY EditorBegins
<1>2. EditorFits /\ [EditorNext]_editorVars => EditorFits'
  BY EditorStep
<1> QED BY <1>1, <1>2, PTL DEF EditorSpec

\* No module has two live topics whose names differ in case only, however forms and
\* drafts are mixed (routers/monitoring.py, create_topic; config_generator.py).
THEOREM TwinsNeedAReason == EditorSpec => []NoTwinTopics
<1>1. EditorFits => NoTwinTopics
  BY DEF EditorFits, TwinsFit, NoTwins, NoTwinTopics, LiveTopics, TopicsOf
<1> QED BY <1>1, EditorIsSound, PTL

\* A page posted as it was shown is applied with the topics and searches it showed and
\* with its key cut, unless a text on it is spoilt (schemas/config_generation.py:18-19).
THEOREM ShownIsWhatIsApplied == EditorSpec => []PostedIsShown
<1>1. EditorFits => PostedIsShown
  <2> SUFFICES ASSUME EditorFits PROVE PostedIsShown
    OBVIOUS
  <2>1. PageFits
    BY DEF EditorFits
  <2>2. PICK d, form : d = page.draft /\ form = ConfigFromForm(d, [i \in DOMAIN d.topics |-> i])
    OBVIOUS
  <2>3. ASSUME page.kind = "module"
        PROVE  IF FormRefused(form)
               THEN d.name \in BadNames \/ \E i \in DOMAIN d.topics : Spoilt(d.topics[i], 2)
               ELSE \A posted \in {PostedConfig(form)} :
                       /\ posted.name = d.name /\ posted.key = Take(d.key, KeyLen)
                       /\ Len(posted.topics) = Len(d.topics)
                       /\ \A i \in DOMAIN d.topics : SameTopic(posted.topics[i], d.topics[i])
    <3>1. FitConfig(d)
      BY <2>1, <2>2, <2>3 DEF PageFits
    <3> QED BY <2>2, <3>1, PostedModuleIsShown
  <2>4. ASSUME page.kind = "topic"
        PROVE  IF TopicRefused(TopicFromForm(d)) THEN Spoilt(d, 1)
               ELSE SameTopic(GeneratedTopic(TopicFromForm(d)), d)
    <3>1. FitTopic(d)
      BY <2>1, <2>2, <2>4 DEF PageFits
    <3>2. TopicRefused(TopicFromForm(d)) => Spoilt(d, 1)
      BY <3>1, FormIsTakenOrSpoilt
    <3>3. ~TopicRefused(TopicFromForm(d)) => SameTopic(GeneratedTopic(TopicFromForm(d)), d)
      BY <3>1, PostedTopicIsShown
    <3> QED BY <3>2, <3>3
  <2> QED BY <2>2, <2>3, <2>4 DEF PostedIsShown
<1> QED BY <1>1, EditorIsSound, PTL

\* The editor and the run agree on what will be skipped (config_diagnostics.py,
\* pipeline.py), whatever the rows are.
THEOREM EditorAndRunAgree == EditorSpec => []SkippedIsFlagged
<1>1. SkippedIsFlagged
  <2> SUFFICES ASSUME NEW m \in DOMAIN modules, modules[m].enabled, ~modules[m].archived
               PROVE  m \notin BuildPlan <=> Diagnose(m) \cap {"no topics", "no queries"} # {}
    BY DEF SkippedIsFlagged
  <2>1. m \notin BuildPlan <=> \A t \in ActiveTopics(m) : ActiveQueries(t) = {}
    BY DEF BuildPlan
  <2>2. CASE ActiveTopics(m) = {}
    <3>1. "no topics" \in Diagnose(m)
      BY <2>2 DEF Diagnose
    <3> QED BY <2>1, <2>2, <3>1
  <2>3. CASE ActiveTopics(m) # {} /\ \A t \in ActiveTopics(m) : ActiveQueries(t) = {}
    <3>1. "no queries" \in Diagnose(m)
      BY <2>3 DEF Diagnose
    <3> QED BY <2>1, <2>3, <3>1
  <2>4. CASE ActiveTopics(m) # {} /\ ~\A t \in ActiveTopics(m) : ActiveQueries(t) = {}
    <3>1. Diagnose(m) \subseteq {"duplicates"}
      BY <2>4 DEF Diagnose
    <3> QED BY <2>1, <2>4, <3>1
  <2> QED BY <2>2, <2>3, <2>4
<1> QED BY <1>1, PTL

-----------------------------------------------------------------------------
(* A draft is applied whole.                                               *)

\* What is written of a draft, and nothing else.
WholeOf(ch) ==
    LET new == DOMAIN topics' \ DOMAIN topics
    IN  /\ \A m \in DOMAIN modules : modules'[m] = modules[m]
        /\ \A t \in DOMAIN topics : topics'[t] = topics[t]
        /\ \A q \in DOMAIN queries : queries'[q] = queries[q]
        /\ {<<topics'[t].name, {queries'[q].text :
                  q \in {x \in DOMAIN queries' : queries'[x].topic = t}}>> :
               t \in new}
           = {<<TopicsToAdd(ch)[i].name, Texted(TopicsToAdd(ch)[i].queries)>> :
                 i \in DOMAIN TopicsToAdd(ch)}

\* A committed change that only adds is there whole, in new rows.
LEMMA CommittedDraftIsWhole ==
    ASSUME RowsFit, NEW ch, ChangeFits(ch), OnlyAdds(ch), Commit(ch)
    PROVE  WholeOf(ch)
<1>1. PICK ms, ts, qs : ms = modules' /\ ts = topics' /\ qs = queries'
  OBVIOUS
<1>2. ms = ModulesAfter(ch) /\ ts = TopicsAfter(ch) /\ qs = QueriesAfter(ch)
  BY <1>1 DEF Commit
<1>3. PICK add, top : add = TopicsToAdd(ch) /\ top = Largest(DOMAIN topics)
  OBVIOUS
<1>4. /\ ch.mods = Nothing /\ ch.tops = Nothing /\ ch.qrys = Nothing
      /\ ch.gone = {} /\ ch.queries = <<>>
  BY DEF OnlyAdds
<1>5. \A m \in DOMAIN modules : ms[m] = modules[m]
  <2>1. PICK recs : /\ Grown(ms, Patched(modules, Nothing), recs, Largest(DOMAIN modules))
                    /\ DOMAIN Patched(modules, Nothing) = DOMAIN modules
    BY <1>2, <1>4, ModulesGrow
  <2> QED BY <2>1, Unpatched DEF Grown
<1>6. PICK recs, old : recs = NewRows(add) /\ old = Patched(topics, Nothing)
  OBVIOUS
<1>7. Grown(ts, old, recs, top)
  BY <1>2, <1>3, <1>4, <1>6, TopicsGrow
<1>8. DOMAIN old = DOMAIN topics /\ \A t \in DOMAIN topics : old[t] = topics[t]
  BY <1>6, Unpatched
<1>9. /\ DOMAIN recs = DOMAIN add
      /\ \A j \in DOMAIN add : recs[j].name = add[j].name
  BY <1>6 DEF NewRows
<1>10. /\ \A t \in DOMAIN topics : ts[t] = topics[t]
       /\ DOMAIN ts \ DOMAIN topics = {top + j : j \in DOMAIN add}
       /\ \A j \in DOMAIN add : ts[top + j].name = add[j].name /\ top + j \notin DOMAIN topics
       /\ top \in Nat
  <2>1. /\ DOMAIN ts = DOMAIN topics \cup {top + j : j \in DOMAIN add}
        /\ \A t \in DOMAIN topics : ts[t] = topics[t]
        /\ \A j \in DOMAIN add : top + j \notin DOMAIN topics /\ ts[top + j] = recs[j]
        /\ top \in Nat
    BY <1>7, <1>8, <1>9 DEF Grown
  <2> QED BY <1>9, <2>1
<1>11. PICK L \in Nat : DOMAIN add = 1..L
  BY <1>3, TopicsToAddFacts, ListIsNumbered DEF ListedTopics, Numbered
<1>12. PICK kept, typed, f, ls, new, last :
          /\ kept = KeptQueries(ch) /\ typed = TypedRows(ch)
          /\ ls = DraftedRows(add, top) /\ f = Flat(ls)
          /\ new = NewQueries(ch) /\ last = Largest(DOMAIN kept)
  OBVIOUS
<1>13. Grown(qs, kept, new, last) /\ Concatenated(new, f, typed) /\ Collects(f, ls)
  BY <1>2, <1>3, <1>12, QueriesGrow
<1>14. DOMAIN kept = DOMAIN queries /\ \A q \in DOMAIN queries : kept[q] = queries[q]
  BY <1>4, <1>12, Unpatched DEF KeptQueries
<1>15. DOMAIN typed = {}
  BY <1>4, <1>12, EmptyIsList DEF TypedRows
<1>16. /\ \A n \in DOMAIN new : n \in DOMAIN f /\ new[n] = f[n]
       /\ \A n \in DOMAIN f : n \in DOMAIN new /\ new[n] = f[n]
  BY <1>13, <1>15 DEF Concatenated
<1>17. /\ DOMAIN qs = DOMAIN queries \cup {last + n : n \in DOMAIN new}
       /\ \A q \in DOMAIN queries : qs[q] = queries[q]
       /\ \A n \in DOMAIN new : qs[last + n] = new[n]
  BY <1>13, <1>14 DEF Grown
<1>18. /\ DOMAIN ls = DOMAIN add
       /\ \A i \in DOMAIN add :
             /\ DOMAIN ls[i] = DOMAIN add[i].queries
             /\ \A j \in DOMAIN ls[i] :
                   ls[i][j].topic = top + i /\ ls[i][j].text = add[i].queries[j].text
  BY <1>12 DEF DraftedRows
<1> DEFINE Texts_(t) == {qs[q].text : q \in {x \in DOMAIN qs : qs[x].topic = t}}
<1>19. ASSUME NEW i \in DOMAIN add
       PROVE  Texts_(top + i) = Texted(add[i].queries)
  <2>1. ASSUME NEW q \in DOMAIN qs, qs[q].topic = top + i
        PROVE  qs[q].text \in Texted(add[i].queries)
    <3>1. q \notin DOMAIN queries
      <4>1. \A x \in DOMAIN queries : queries[x].topic \in DOMAIN topics
        BY DEF RowsFit, RowsAre
      <4> QED BY <1>10, <1>17, <2>1, <4>1
    <3>2. PICK n \in DOMAIN new : q = last + n
      BY <1>17, <3>1
    <3>3. n \in DOMAIN f /\ qs[q] = f[n]
      BY <1>16, <1>17, <3>2
    <3>4. PICK k \in DOMAIN ls : \E j \in DOMAIN ls[k] : f[n] = ls[k][j]
      BY <1>13, <3>3 DEF Collects
    <3>5. PICK j \in DOMAIN ls[k] : f[n] = ls[k][j]
      BY <3>4
    <3>6. top + k = top + i /\ k \in DOMAIN add
      BY <1>18, <2>1, <3>3, <3>5
    <3>7. k = i
      BY <1>10, <1>11, <3>6
    <3>8. qs[q].text = add[i].queries[j].text /\ j \in DOMAIN add[i].queries
      BY <1>18, <3>3, <3>5, <3>7
    <3> QED BY <3>8 DEF Texted
  <2>2. ASSUME NEW j \in DOMAIN add[i].queries
        PROVE  add[i].queries[j].text \in Texts_(top + i)
    <3>1. i \in DOMAIN ls /\ j \in DOMAIN ls[i]
      BY <1>18
    <3>2. PICK n \in DOMAIN f : f[n] = ls[i][j]
      BY <1>13, <3>1 DEF Collects
    <3>3. last + n \in DOMAIN qs /\ qs[last + n] = ls[i][j]
      BY <1>16, <1>17, <3>2
    <3>4. qs[last + n].topic = top + i /\ qs[last + n].text = add[i].queries[j].text
      BY <1>18, <3>1, <3>3
    <3> QED BY <3>3, <3>4
  <2> QED BY <2>1, <2>2 DEF Texted
<1> HIDE DEF Texts_
<1>20. {<<ts[t].name, Texts_(t)>> : t \in DOMAIN ts \ DOMAIN topics}
       = {<<add[i].name, Texted(add[i].queries)>> : i \in DOMAIN add}
  <2>1. \A i \in DOMAIN add : <<ts[top + i].name, Texts_(top + i)>>
                              = <<add[i].name, Texted(add[i].queries)>>
    BY <1>10, <1>19
  <2>2. \A t \in DOMAIN ts \ DOMAIN topics : \E i \in DOMAIN add : t = top + i
    BY <1>10
  <2>3. \A i \in DOMAIN add : top + i \in DOMAIN ts \ DOMAIN topics
    BY <1>10
  <2> QED BY <2>1, <2>2, <2>3
<1> QED BY <1>1, <1>3, <1>5, <1>10, <1>14, <1>17, <1>20 DEF WholeOf, Texts_

\* What a step commits of a draft is the whole draft.
LEMMA WritesAreWhole ==
    ASSUME EditorFits, [EditorNext]_editorVars, NEW r \in Workers, Writes(r)
    PROVE  WholeOf(reqs[r].change)
<1>1. RowsFit /\ RequestsFit
  BY DEF EditorFits
<1>2. reqs[r].draft /\ reqs'[r] = Idle /\ rowvars' # rowvars
  BY DEF Writes
<1>3. ~Idle.draft
  BY IdleFits
<1>4. reqs'[r] # reqs[r]
  BY <1>2, <1>3
<1>5. ~SeedIfEmpty
  BY <1>4 DEF SeedIfEmpty
<1>6. ~(\E q \in Workers : Edit(q)) /\ ~GenerateModule /\ ~GenerateTopic
  BY <1>2 DEF Edit, Submit, GenerateModule, GenerateTopic
<1>7. ~UNCHANGED editorVars
  BY <1>2 DEF editorVars
<1>8. PICK q \in Workers : Write(q) \/ WriteFails(q)
  BY <1>5, <1>6, <1>7 DEF EditorNext
<1>9. q = r
  <2>1. reqs' = [reqs EXCEPT ![q] = Idle]
    BY <1>8 DEF Write, WriteFails
  <2> QED BY <1>1, <1>4, <2>1 DEF RequestsFit
<1>10. Commit(reqs[r].change)
  BY <1>2, <1>8, <1>9 DEF Write, WriteFails
<1>11. PICK ch : ch = reqs[r].change
  OBVIOUS
<1>12. ChangeFits(ch) /\ OnlyAdds(ch) /\ Commit(ch)
  BY <1>1, <1>2, <1>10, <1>11 DEF RequestsFit
<1>13. WholeOf(ch)
  BY <1>1, <1>12, CommittedDraftIsWhole
<1> QED BY <1>11, <1>13 DEF WholeOf

\* An applied draft writes all of itself or nothing, and touches no row that was
\* there (config_generator.py, apply_module_draft and apply_topic_draft).
THEOREM DraftsAreAppliedWhole == EditorSpec => DraftIsWhole
<1>1. EditorFits /\ [EditorNext]_editorVars =>
        \A r \in Workers : Writes(r) => WholeOf(reqs[r].change)
  BY WritesAreWhole
<1>2. EditorFits /\ [EditorNext]_editorVars =>
        [ \A r \in Workers : Writes(r) => WholeOf(reqs[r].change) ]_editorVars
  BY <1>1
<1> QED BY <1>2, EditorIsSound, PTL DEF EditorSpec, DraftIsWhole, WholeOf


-----------------------------------------------------------------------------
(* PART V.  The tables: what refers to what, and what is unique.            *)

\* The key of a new event is none of the keys in use, however many there are.
LEMMA FreshKeyIsFresh ==
    ASSUME NEW base, NEW used, IsFiniteSet(used)
    PROVE  FreshKey(base, used) \notin used
<1>1. CASE <<base, 1>> \notin used
  BY <1>1 DEF FreshKey
<1>2. CASE <<base, 1>> \in used
  <2>1. PICK N \in Nat : N = Cardinality(used)
    BY FS_CardinalityType
  <2> DEFINE free == {n \in 2 .. N + 2 : <<base, n>> \notin used}
  <2>2. free # {}
    <3> SUFFICES ASSUME free = {} PROVE FALSE
      OBVIOUS
    <3>1. \A n \in 1 .. N + 1 : <<base, n>> \in used
      <4> TAKE n \in 1 .. N + 1
      <4>1. n = 1 \/ n \in 2 .. N + 2
        BY <2>1
      <4> QED BY <1>2, <4>1
    <3>2. PICK f : f = [n \in 1 .. N + 1 |-> <<base, n>>]
      OBVIOUS
    <3>3. f \in Injection(1 .. N + 1, used)
      BY <3>1, <3>2 DEF Injection, IsInjective
    <3>4. Cardinality(1 .. N + 1) <= N
      BY <2>1, <3>3, FS_Injection
    <3>5. Cardinality(1 .. N + 1) = N + 1
      BY <2>1, FS_Interval
    <3> QED BY <2>1, <3>4, <3>5
  <2>3. free \in SUBSET Nat
    BY <2>1
  <2>4. PICK n \in free : \A m \in free : n <= m
    BY <2>2, <2>3, SmallestExists
  <2>5. \A m \in 2 .. n - 1 : <<base, m>> \in used
    <3> TAKE m \in 2 .. n - 1
    <3>1. n \in 2 .. N + 2 /\ m \in 2 .. N + 2 /\ ~(n <= m)
      BY <2>1
    <3> QED BY <2>4, <3>1
  <2>6. n \in 2 .. N + 2 /\ <<base, n>> \notin used
    OBVIOUS
  <2> HIDE DEF free
  <2> DEFINE FirstFree(k) == <<base, k>> \notin used /\ \A m \in 2 .. k - 1 : <<base, m>> \in used
  <2>7. \E k \in 2 .. N + 2 : FirstFree(k)
    BY <2>5, <2>6
  <2>8. PICK k : k = CHOOSE c \in 2 .. N + 2 : FirstFree(c)
    OBVIOUS
  <2>9. <<base, k>> \notin used
    BY <2>7, <2>8
  <2>10. FreshKey(base, used) = <<base, k>>
    BY <1>2, <2>1, <2>8 DEF FreshKey
  <2> QED BY <2>9, <2>10
<1> QED BY <1>1, <1>2

\* No event is listed twice in the order they were last seen, and none is left out.
SeenOnce ==
    /\ Distinct(recent)
    /\ \A e \in DOMAIN events : \E n \in DOMAIN recent : recent[n] = e

ObservedOf(e) == {o \in DOMAIN obs : obs[o].event = e}

CountsAgree == \A e \in DOMAIN events : events[e].count = Cardinality(ObservedOf(e))
KeysDiffer  == \A e, f \in DOMAIN events : e # f => events[e].key # events[f].key

TablesFit ==
    MemoryFits /\ SeenOnce /\ CountsAgree /\ KeysDiffer /\ today \in Days /\ order \in Orders

\* The tables of the empty memory.
LEMMA TablesBegin == MemoryInit => TablesFit
<1> SUFFICES ASSUME MemoryInit PROVE TablesFit
  OBVIOUS
<1>1. MemoryFits
  BY MemoryBegins
<1>2. DOMAIN events = {} /\ DOMAIN recent = {} /\ today \in Days /\ order \in Orders
  BY EmptyIsList DEF MemoryInit
<1> QED BY <1>1, <1>2 DEF TablesFit, SeenOnce, CountsAgree, KeysDiffer, Distinct

\* What was seen last moves to the front; nothing else is lost or repeated.
LEMMA ToFrontFacts ==
    ASSUME IsList(recent), Distinct(recent), NEW id, NEW r, r = ToFront(id)
    PROVE  /\ Distinct(r)
           /\ \E n \in DOMAIN r : r[n] = id
           /\ \A i \in DOMAIN recent : \E n \in DOMAIN r : r[n] = recent[i]
<1>1. PICK L \in Nat : L = Len(recent) /\ DOMAIN recent = 1..L
  BY ListIsNumbered DEF Numbered
<1>2. PICK kept \in SUBSET (1..L) : kept = {n \in DOMAIN recent : recent[n] # id}
  BY <1>1
<1>3. PICK rest : rest = Keep(recent, kept)
  OBVIOUS
<1>4. PICK N : N = Cardinality(kept)
  OBVIOUS
<1>5. /\ IsList(rest) /\ DOMAIN rest = 1..N /\ N \in Nat
      /\ \A n \in 1..N : Position(kept, n) \in kept /\ rest[n] = recent[Position(kept, n)]
  <2>1. Selected(rest, recent, kept)
    BY <1>3, KeepSelects
  <2> QED BY <1>4, <2>1 DEF Selected
<1>6. /\ \A m, n \in 1..N : m < n => Position(kept, m) < Position(kept, n)
      /\ \A i \in kept : \E n \in 1..N : Position(kept, n) = i
  BY <1>4, PositionsAreOrdered
<1>7. \A m, n \in 1..N : Position(kept, m) = Position(kept, n) => m = n
  <2> SUFFICES ASSUME NEW m \in 1..N, NEW n \in 1..N, m # n
               PROVE  Position(kept, m) # Position(kept, n)
    OBVIOUS
  <2>1. PICK p, q : p = Position(kept, m) /\ q = Position(kept, n)
    OBVIOUS
  <2>2. p \in Nat /\ q \in Nat
    BY <1>2, <1>5, <2>1
  <2>3. p < q \/ q < p
    <3>1. m < n \/ n < m
      BY <1>5
    <3> QED BY <1>6, <2>1, <3>1
  <2> QED BY <2>1, <2>2, <2>3
<1>8. Distinct(rest) /\ \A n \in 1..N : rest[n] # id
  <2>1. \A m, n \in 1..N : rest[m] = rest[n] => m = n
    BY <1>1, <1>2, <1>5, <1>7 DEF Distinct
  <2>2. \A n \in 1..N : rest[n] # id
    BY <1>2, <1>5
  <2> QED BY <1>5, <2>1, <2>2 DEF Distinct
<1>9. PICK first : first = <<id>>
  OBVIOUS
<1>10. IsList(first) /\ DOMAIN first = {1} /\ first[1] = id
  BY <1>9, OneIsList
<1>11. r = first \o rest
  BY <1>2, <1>3, <1>9 DEF ToFront
<1>12. Concatenated(r, first, rest)
  BY <1>5, <1>10, <1>11, ConcatFacts
<1>13. Len(first) = 1
  BY <1>9
<1>14. /\ 1 \in DOMAIN r /\ r[1] = id
       /\ \A j \in 1..N : 1 + j \in DOMAIN r /\ r[1 + j] = rest[j]
       /\ \A n \in DOMAIN r : n = 1 \/ \E j \in 1..N : n = 1 + j
  <2>1. /\ \A i \in {1} : i \in DOMAIN r /\ r[i] = first[i]
        /\ \A j \in 1..N : Len(first) + j \in DOMAIN r /\ r[Len(first) + j] = rest[j]
        /\ \A n \in DOMAIN r : n \in {1} \/ \E j \in 1..N : n = Len(first) + j
    BY <1>5, <1>10, <1>12 DEF Concatenated
  <2> QED BY <1>10, <1>13, <2>1
<1>15. Distinct(r)
  <2> SUFFICES ASSUME NEW m \in DOMAIN r, NEW n \in DOMAIN r, r[m] = r[n]
               PROVE  m = n
    BY DEF Distinct
  <2>1. CASE m = 1
    BY <1>8, <1>14, <2>1
  <2>2. CASE n = 1
    BY <1>8, <1>14, <2>2
  <2>3. CASE m # 1 /\ n # 1
    <3>1. PICK i \in 1..N, j \in 1..N : m = 1 + i /\ n = 1 + j
      BY <1>14, <2>3
    <3>2. rest[i] = rest[j]
      BY <1>14, <3>1
    <3> QED BY <1>5, <1>8, <3>1, <3>2 DEF Distinct
  <2> QED BY <2>1, <2>2, <2>3
<1>16. ASSUME NEW i \in DOMAIN recent PROVE \E n \in DOMAIN r : r[n] = recent[i]
  <2>1. CASE recent[i] = id
    BY <1>14, <2>1
  <2>2. CASE recent[i] # id
    <3>1. i \in kept
      BY <1>2, <2>2
    <3>2. PICK n \in 1..N : Position(kept, n) = i
      BY <1>6, <3>1
    <3> QED BY <1>5, <1>14, <3>2
  <2> QED BY <2>1, <2>2
<1> QED BY <1>14, <1>15, <1>16

\* One observation more is counted for its event and for no other.
LEMMA OneMoreObserved ==
    ASSUME IsList(obs), NEW note, obs' = Append(obs, note), NEW e
    PROVE  /\ ObservedOf(e)' = IF note.event = e THEN ObservedOf(e) \cup {Len(obs) + 1} ELSE ObservedOf(e)
           /\ IsFiniteSet(ObservedOf(e)) /\ Len(obs) + 1 \notin ObservedOf(e)
<1>1. PICK L \in Nat : L = Len(obs) /\ DOMAIN obs = 1..L
  BY ListIsNumbered DEF Numbered
<1>2. /\ DOMAIN obs' = 1..(L + 1) /\ \A o \in 1..L : obs'[o] = obs[o]
      /\ obs'[L + 1] = note
  BY <1>1, AppendFacts
<1>3. \A o : o \in 1..(L + 1) <=> o \in 1..L \/ o = L + 1
  BY <1>1
<1>4. ~(L + 1 \in 1..L)
  BY <1>1
<1>5. \A o : o \in ObservedOf(e) <=> o \in 1..L /\ obs[o].event = e
  BY <1>1 DEF ObservedOf
<1>6. \A o : o \in ObservedOf(e)' <=> o \in 1..(L + 1) /\ obs'[o].event = e
  BY <1>2 DEF ObservedOf
<1>7. \A o : o \in ObservedOf(e)' <=>
              o \in (IF note.event = e THEN ObservedOf(e) \cup {L + 1} ELSE ObservedOf(e))
  BY <1>2, <1>3, <1>4, <1>5, <1>6
<1>8. ObservedOf(e) \in SUBSET (1..L) /\ IsFiniteSet(1..L)
  BY <1>1, <1>5, FS_Interval
<1>9. IsFiniteSet(ObservedOf(e))
  BY <1>8, FS_Subset
<1> QED BY <1>1, <1>4, <1>5, <1>7, <1>9

\* The row of a new event counts one observation, under a key of its own.
LEMMA CreatedFacts ==
    ASSUME IsList(events), NEW s
    PROVE  /\ Created(s).count = 1
           /\ \A e \in DOMAIN events : events[e].key # Created(s).key
<1>1. PICK k, t, u : k = FreshKey(s.slug, Keys) /\ t = StoredType(s) /\ u = KeptUrls(s.urls)
  OBVIOUS
<1>2. Created(s) = [key |-> k, title |-> s.title, summary |-> s.summary, org |-> s.org,
                    product |-> s.product, type |-> t, seen |-> today,
                    entities |-> s.entities, urls |-> u, count |-> 1]
  BY <1>1 DEF Created
<1>3. Created(s).key = k /\ Created(s).count = 1
  BY <1>2
<1>4. PICK L \in Nat : DOMAIN events = 1..L
  BY ListIsNumbered DEF Numbered
<1>5. IsFiniteSet(Keys)
  <2>1. PICK f : f = [e \in DOMAIN events |-> events[e].key]
    OBVIOUS
  <2>2. f \in Surjection(DOMAIN events, Keys)
    BY <2>1 DEF Surjection, Keys
  <2>3. IsFiniteSet(DOMAIN events)
    BY <1>4, FS_Interval
  <2> QED BY <2>2, <2>3, FS_Surjection
<1>6. k \notin Keys
  BY <1>1, <1>5, FreshKeyIsFresh
<1> QED BY <1>3, <1>6 DEF Keys

\* The row of a known event keeps its key and counts one observation more.
LEMMA MergedFacts ==
    ASSUME NEW e, IsRow(e), NEW s
    PROVE  MergeIdentity(e, s).key = e.key /\ MergeIdentity(e, s).count = e.count + 1
<1>1. PICK o, p, t, u, n, k :
        /\ o = Filled(e.org, s.org, <<>>) /\ p = Filled(e.product, s.product, <<>>)
        /\ t = Filled(e.type, StoredType(s), {}) /\ u = MergedUrls(e.urls, s.urls)
        /\ n = e.entities \cup s.entities /\ k = e.count + 1
  OBVIOUS
<1>2. MergeIdentity(e, s) =
        [e EXCEPT !.org = o, !.product = p, !.type = t, !.entities = n, !.urls = u,
                  !.summary = s.summary, !.seen = today, !.count = k]
  BY <1>1 DEF MergeIdentity
<1> QED BY <1>1, <1>2 DEF IsRow

\* Recording an item keeps the tables.
LEMMA RecordKeepsTables ==
    ASSUME TablesFit, NEW name \in DOMAIN Story, NEW decision, RecordEvent(name, decision),
           decision.event \in {0} \cup DOMAIN events
    PROVE  SeenOnce' /\ CountsAgree' /\ KeysDiffer'
<1>1. PICK id : id = IF decision.event = 0 THEN Len(events) + 1 ELSE decision.event
  OBVIOUS
<1>2. PICK note, s : note = Observation(name, id) /\ s = Story[name]
  OBVIOUS
<1>3. obs' = Append(obs, note) /\ recent' = ToFront(id) /\ note.event = id
  <2>1. PICK f, g, h : f = Story[name].summary /\ g = Story[name].figure /\ h = Story[name].correction
    OBVIOUS
  <2>2. note = [event |-> id, date |-> today, facts |-> f, figure |-> g, correction |-> h]
    BY <1>2, <2>1 DEF Observation
  <2> QED BY <1>1, <1>2, <2>2 DEF RecordEvent
<1>4. /\ IsList(events) /\ IsList(recent) /\ IsList(obs)
      /\ \A e \in DOMAIN events : IsRow(events[e])
      /\ \A o \in DOMAIN obs : obs[o].event \in DOMAIN events
  BY DEF TablesFit, MemoryFits, EventsFit, ObservationsFit
<1>5. PICK L \in Nat : L = Len(events) /\ DOMAIN events = 1..L
  BY <1>4, ListIsNumbered DEF Numbered
<1>6. /\ CountsAgree /\ KeysDiffer /\ SeenOnce
  BY DEF TablesFit
<1>7. \A e : /\ ObservedOf(e)' = IF e = id THEN ObservedOf(e) \cup {Len(obs) + 1} ELSE ObservedOf(e)
             /\ IsFiniteSet(ObservedOf(e)) /\ Len(obs) + 1 \notin ObservedOf(e)
  BY <1>3, <1>4, OneMoreObserved
<1>8. Cardinality(ObservedOf(id)') = Cardinality(ObservedOf(id)) + 1
  BY <1>7, FS_AddElement
<1>9. CASE decision.event = 0
  <2>1. PICK row : row = Created(s)
    OBVIOUS
  <2>2. row.count = 1 /\ \A e \in DOMAIN events : events[e].key # row.key
    BY <1>4, <2>1, CreatedFacts
  <2>3. events' = Append(events, row)
    BY <1>2, <1>9, <2>1 DEF RecordEvent
  <2>4. /\ id = L + 1 /\ DOMAIN events' = 1..(L + 1)
        /\ \A e \in 1..L : events'[e] = events[e]
        /\ events'[id] = row
    BY <1>1, <1>4, <1>5, <1>9, <2>3, AppendFacts
  <2>5. \A e \in DOMAIN events' : e \in 1..L \/ e = id
    BY <1>5, <2>4
  <2>6. id \notin 1..L
    BY <1>5, <2>4
  <2>7. ObservedOf(id) = {}
    BY <1>4, <1>5, <2>6 DEF ObservedOf
  <2>8. Cardinality(ObservedOf(id)') = 1
    BY <1>8, <2>7, FS_EmptySet
  <2>9. CountsAgree'
    <3>1. ASSUME NEW e \in DOMAIN events' PROVE events'[e].count = Cardinality(ObservedOf(e)')
      <4>1. CASE e = id
        BY <2>2, <2>4, <2>8, <4>1
      <4>2. CASE e # id
        <5>1. e \in 1..L /\ ObservedOf(e)' = ObservedOf(e) /\ events'[e] = events[e]
          BY <1>7, <2>4, <2>5, <4>2
        <5> QED BY <1>5, <1>6, <5>1 DEF CountsAgree
      <4> QED BY <4>1, <4>2
    <3> QED BY <3>1 DEF CountsAgree
  <2>10. KeysDiffer'
    <3>1. ASSUME NEW e \in DOMAIN events', NEW f \in DOMAIN events', e # f
          PROVE  events'[e].key # events'[f].key
      <4>1. CASE e = id
        BY <1>5, <2>2, <2>4, <2>5, <3>1, <4>1
      <4>2. CASE f = id
        BY <1>5, <2>2, <2>4, <2>5, <3>1, <4>2
      <4>3. CASE e # id /\ f # id
        BY <1>5, <1>6, <2>4, <2>5, <3>1, <4>3 DEF KeysDiffer
      <4> QED BY <4>1, <4>2, <4>3
    <3> QED BY <3>1 DEF KeysDiffer
  <2>11. \A e \in DOMAIN events' : e = id \/ e \in DOMAIN events
    BY <1>5, <2>5
  <2> QED BY <2>9, <2>10, <2>11, <1>3, <1>4, <1>6, ToFrontFacts DEF SeenOnce
<1>10. CASE decision.event # 0
  <2>1. id = decision.event /\ id \in DOMAIN events
    BY <1>1, <1>10
  <2>2. PICK row : row = MergeIdentity(events[id], s)
    OBVIOUS
  <2>3. row.key = events[id].key /\ row.count = events[id].count + 1
    BY <1>4, <2>1, <2>2, MergedFacts
  <2>4. events' = [events EXCEPT ![id] = row]
    BY <1>1, <1>2, <1>10, <2>2 DEF RecordEvent
  <2>5. /\ DOMAIN events' = DOMAIN events
        /\ \A e \in DOMAIN events : events'[e] = IF e = id THEN row ELSE events[e]
    BY <1>4, <2>4 DEF IsList
  <2>6. CountsAgree'
    <3>1. ASSUME NEW e \in DOMAIN events PROVE events'[e].count = Cardinality(ObservedOf(e)')
      <4>1. events[e].count = Cardinality(ObservedOf(e))
        BY <1>6 DEF CountsAgree
      <4>2. CASE e = id
        BY <1>8, <2>3, <2>5, <4>1, <4>2
      <4>3. CASE e # id
        <5>1. ObservedOf(e)' = ObservedOf(e) /\ events'[e] = events[e]
          BY <1>7, <2>5, <4>3
        <5> QED BY <4>1, <5>1
      <4> QED BY <4>2, <4>3
    <3> QED BY <2>5, <3>1 DEF CountsAgree
  <2>7. KeysDiffer'
    <3>1. \A e \in DOMAIN events : events'[e].key = events[e].key
      BY <2>3, <2>5
    <3> QED BY <1>6, <2>5, <3>1 DEF KeysDiffer
  <2> QED BY <1>3, <1>4, <1>6, <2>5, <2>6, <2>7, ToFrontFacts DEF SeenOnce
<1> QED BY <1>9, <1>10

\* So does every step.
LEMMA TablesStep == TablesFit /\ [MemoryNext]_memoryVars => TablesFit'
<1> SUFFICES ASSUME TablesFit, [MemoryNext]_memoryVars PROVE TablesFit'
  OBVIOUS
<1>1. MemoryFits /\ MemoryFits'
  BY MemoryStep DEF TablesFit
<1>2. today \in Days /\ order \in Orders /\ SeenOnce /\ CountsAgree /\ KeysDiffer
  BY DEF TablesFit
<1>3. CASE Record
  <2>1. PICK name \in Items :
          \E answer \in Answers(ShortlistOf(Story[name])) :
             RecordEvent(name, Decide(ShortlistOf(Story[name]), answer))
    BY <1>3 DEF Record
  <2>2. PICK answer : RecordEvent(name, Decide(ShortlistOf(Story[name]), answer))
    BY <2>1
  <2>3. name \in DOMAIN Story
    BY DEF Items
  <2>4. PICK decision : decision = Decide(ShortlistOf(Story[name]), answer)
    OBVIOUS
  <2>5. decision.event \in {0} \cup DOMAIN events
    BY <1>1, <2>3, <2>4, DecisionFacts DEF MemoryFits
  <2>6. SeenOnce' /\ CountsAgree' /\ KeysDiffer'
    BY <2>2, <2>3, <2>4, <2>5, RecordKeepsTables
  <2>7. today' = today /\ order' = order
    BY <2>2 DEF RecordEvent
  <2> QED BY <1>1, <1>2, <2>6, <2>7 DEF TablesFit
<1>4. CASE ~Record
  <2>1. events' = events /\ obs' = obs /\ recent' = recent
    BY <1>4 DEF MemoryNext, Publish, FailRun, NextDay, Restart, DeleteReport, memoryVars
  <2>2. today' \in Days
    BY <1>2, <1>4 DEF MemoryNext, Publish, FailRun, NextDay, Restart, DeleteReport, memoryVars
  <2>3. order' \in Orders
    BY <1>2, <1>4 DEF MemoryNext, Publish, FailRun, NextDay, Restart, DeleteReport, memoryVars
  <2>4. SeenOnce' /\ CountsAgree' /\ KeysDiffer'
    BY <1>2, <2>1 DEF SeenOnce, CountsAgree, KeysDiffer, ObservedOf
  <2> QED BY <1>1, <2>2, <2>3, <2>4 DEF TablesFit
<1> QED BY <1>3, <1>4

\* The rows of a memory always refer to rows that are there, an event counts its
\* observations, no two events have one key, and the order in which they were
\* last seen names each of them once.
THEOREM TablesAgree == MemorySpec => []MemoryTypes
<1>1. TablesFit => MemoryTypes
  <2> SUFFICES ASSUME TablesFit PROVE MemoryTypes
    OBVIOUS
  <2>1. /\ IsList(events) /\ IsList(recent)
        /\ \A n \in DOMAIN recent : recent[n] \in DOMAIN events
        /\ \A o \in DOMAIN obs : obs[o].event \in DOMAIN events
    BY DEF TablesFit, MemoryFits, EventsFit, ObservationsFit
  <2>2. SeenOnce /\ CountsAgree /\ KeysDiffer /\ today \in Days /\ order \in Orders
    BY DEF TablesFit
  <2>3. {recent[n] : n \in DOMAIN recent} = DOMAIN events
    BY <2>1, <2>2 DEF SeenOnce
  <2>4. Len(recent) = Len(events)
    <3>1. PICK L \in Nat : L = Len(events) /\ DOMAIN events = 1..L
      BY <2>1, ListIsNumbered DEF Numbered
    <3>2. PICK R \in Nat : R = Len(recent) /\ DOMAIN recent = 1..R
      BY <2>1, ListIsNumbered DEF Numbered
    <3>3. recent \in [1..R -> 1..L]
      BY <2>1, <3>1, <3>2 DEF IsList
    <3>4. recent \in Injection(1..R, 1..L)
      BY <2>2, <3>2, <3>3 DEF SeenOnce, Distinct, Injection, IsInjective
    <3>5. recent \in Surjection(1..R, 1..L)
      BY <2>2, <3>1, <3>2, <3>3 DEF SeenOnce, Surjection
    <3>6. recent \in Bijection(1..R, 1..L)
      BY <3>4, <3>5 DEF Bijection
    <3>7. Cardinality(1..L) = Cardinality(1..R)
      BY <3>2, <3>6, FS_Interval, FS_Bijection DEF ExistsBijection
    <3>8. \A n \in Nat : Cardinality(1..n) = n
      <4> TAKE n \in Nat
      <4>1. Cardinality(1..n) = IF 1 > n THEN 0 ELSE n - 1 + 1
        BY FS_Interval
      <4> QED BY <4>1
    <3> QED BY <3>1, <3>2, <3>7, <3>8
  <2>5. \A n \in DOMAIN reports : \A i \in DOMAIN reports[n].items :
           obs[reports[n].items[i].obs].event = reports[n].items[i].event
    BY DEF TablesFit, MemoryFits, ReportsFit, Points
  <2>6. DOMAIN reports \in SUBSET (1..filed)
    BY DEF TablesFit, MemoryFits, ReportsFit
  <2> QED BY <2>1, <2>2, <2>3, <2>4, <2>5, <2>6
          DEF MemoryTypes, CountsAgree, KeysDiffer, ObservedOf
<1> QED BY <1>1, TablesBegin, TablesStep, PTL DEF MemorySpec

-----------------------------------------------------------------------------
(* The rows of the configuration.                                          *)

\* The unique indexes: one module has a key, one topic of a module a name.
UniqueKeys(ms)  == \A m, n \in DOMAIN ms : m # n => ms[m].key # ms[n].key
UniqueNames(ts) ==
    \A t, u \in DOMAIN ts : t # u => ~(ts[t].module = ts[u].module /\ ts[t].name = ts[u].name)

\* A switch is on or off, and stays so under a patch.
Switched(row)  == "enabled" \in DOMAIN row /\ row.enabled \in BOOLEAN
Switching(row) == "enabled" \in DOMAIN row => row.enabled \in BOOLEAN

TypesFit ==
    /\ EditorFits
    /\ UniqueKeys(modules) /\ UniqueNames(topics)
    /\ \A m \in DOMAIN modules : Switched(modules[m])
    /\ \A r \in Workers : \A ch \in {reqs[r].change} :
          \A m \in DOMAIN ch.mods : Switching(ch.mods[m])
    /\ ops \in 0..MaxOps

\* The rows of modules after a change: patched ones, and new ones that are on.
LEMMA ModuleRowsAfter ==
    ASSUME RowsFit, NEW ch, ChangeFits(ch)
    PROVE  /\ DOMAIN modules \subseteq DOMAIN ModulesAfter(ch)
           /\ \A m \in DOMAIN modules : ModulesAfter(ch)[m] = Patched(modules, ch.mods)[m]
           /\ \A m \in DOMAIN ModulesAfter(ch) \ DOMAIN modules :
                 \E i \in DOMAIN ch.modules :
                    /\ m = Largest(DOMAIN modules) + i
                    /\ ModulesAfter(ch)[m] = [key |-> ch.modules[i].key, order |-> ch.modules[i].order,
                                              enabled |-> TRUE, archived |-> FALSE]
<1>1. PICK cm, old : cm = ch.modules /\ old = Patched(modules, ch.mods)
  OBVIOUS
<1>2. PICK recs : recs = [i \in DOMAIN cm |->
              [key |-> cm[i].key, order |-> cm[i].order, enabled |-> TRUE, archived |-> FALSE]]
  OBVIOUS
<1>3. DOMAIN recs = DOMAIN cm /\ recs = [i \in DOMAIN recs |-> recs[i]]
  BY <1>2
<1>4. IsList(recs)
  BY <1>1, <1>3, MapIsList DEF ChangeFits, ChangeOf
<1>5. DOMAIN old = DOMAIN modules
  BY <1>1 DEF Patched
<1>6. Bounded(old)
  BY <1>5 DEF RowsFit, RowsAre, Bounded
<1>7. PICK ms, last : ms = ModulesAfter(ch) /\ last = Largest(DOMAIN modules)
  OBVIOUS
<1>8. ms = Added(old, recs)
  BY <1>1, <1>2, <1>7 DEF ModulesAfter
<1>9. Grown(ms, old, recs, last)
  BY <1>4, <1>5, <1>6, <1>7, <1>8, AddedFacts
<1>10. /\ DOMAIN ms = DOMAIN modules \cup {last + j : j \in DOMAIN cm}
       /\ \A m \in DOMAIN modules : ms[m] = old[m]
       /\ \A j \in DOMAIN cm : ms[last + j] = recs[j]
  BY <1>3, <1>5, <1>9 DEF Grown
<1>11. \A m \in DOMAIN ms \ DOMAIN modules : \E i \in DOMAIN cm :
          m = last + i /\ ms[m] = [key |-> cm[i].key, order |-> cm[i].order,
                                   enabled |-> TRUE, archived |-> FALSE]
  BY <1>2, <1>10
<1> QED BY <1>1, <1>7, <1>10, <1>11

\* A switch that is patched is a switch.
LEMMA SwitchesStay ==
    ASSUME RowsFit, NEW ch, ChangeFits(ch),
           \A m \in DOMAIN modules : Switched(modules[m]),
           \A m \in DOMAIN ch.mods : Switching(ch.mods[m])
    PROVE  \A m \in DOMAIN ModulesAfter(ch) : Switched(ModulesAfter(ch)[m])
<1>1. PICK ms, old, patch : ms = ModulesAfter(ch) /\ patch = ch.mods /\ old = Patched(modules, patch)
  OBVIOUS
<1>2. /\ \A m \in DOMAIN modules : ms[m] = old[m]
      /\ \A m \in DOMAIN ms \ DOMAIN modules : \E i \in DOMAIN ch.modules :
            ms[m] = [key |-> ch.modules[i].key, order |-> ch.modules[i].order,
                     enabled |-> TRUE, archived |-> FALSE]
  BY <1>1, ModuleRowsAfter
<1>3. ASSUME NEW m \in DOMAIN ms PROVE Switched(ms[m])
  <2>1. PICK row : row = ms[m]
    OBVIOUS
  <2>2. CASE m \notin DOMAIN modules
    <3>1. PICK k, n : row = [key |-> k, order |-> n, enabled |-> TRUE, archived |-> FALSE]
      BY <1>2, <2>1, <2>2
    <3>2. Switched(row)
      BY <3>1 DEF Switched
    <3> QED BY <2>1, <3>2
  <2>3. CASE m \in DOMAIN modules /\ m \notin DOMAIN patch
    <3>1. row = modules[m]
      BY <1>1, <1>2, <2>1, <2>3 DEF Patched
    <3> QED BY <2>1, <2>3, <3>1
  <2>4. CASE m \in DOMAIN modules /\ m \in DOMAIN patch
    <3>1. PICK b, c : b = modules[m] /\ c = patch[m]
      OBVIOUS
    <3>2. row = [f \in DOMAIN b |-> IF f \in DOMAIN c THEN c[f] ELSE b[f]]
      BY <1>1, <1>2, <2>1, <2>4, <3>1 DEF Patched
    <3>3. Switched(b) /\ Switching(c)
      BY <1>1, <2>4, <3>1
    <3>4. "enabled" \in DOMAIN b /\ b["enabled"] \in BOOLEAN
      BY <3>3 DEF Switched
    <3>5. "enabled" \in DOMAIN c => c["enabled"] \in BOOLEAN
      BY <3>3 DEF Switching
    <3>6. "enabled" \in DOMAIN row /\ row["enabled"] \in BOOLEAN
      <4>1. CASE "enabled" \in DOMAIN c
        BY <3>2, <3>4, <3>5, <4>1
      <4>2. CASE "enabled" \notin DOMAIN c
        BY <3>2, <3>4, <4>2
      <4> QED BY <4>1, <4>2
    <3>7. Switched(row)
      BY <3>6 DEF Switched
    <3> QED BY <2>1, <3>7
  <2> QED BY <2>2, <2>3, <2>4
<1> QED BY <1>1, <1>3

\* A change of topics or queries, or one that adds modules, patches none.
LEMMA NoPatches ==
    ASSUME NEW ch, NEW x,
           \/ ch = [NoChange EXCEPT !.modules = x]
           \/ ch = [NoChange EXCEPT !.topics = x]
           \/ ch = [NoChange EXCEPT !.tops = x]
           \/ ch = [NoChange EXCEPT !.qrys = x]
           \/ ch = [NoChange EXCEPT !.queries = x]
           \/ ch = [NoChange EXCEPT !.gone = x]
    PROVE  ch.mods = Nothing /\ DOMAIN ch.mods = {}
<1>1. ch.mods = Nothing
  BY DEF NoChange
<1> QED BY <1>1, EmptyIsList DEF Nothing

\* The forms of topics, queries and drafts patch no module.
LEMMA OtherFormsPatchNone ==
    ASSUME PageFits,
           NEW ch \in CreateTopic \cup TopicToggle \cup TopicArchive \cup TopicUpdate
                        \cup CreateQuery \cup UpdateQuery \cup ToggleQuery \cup DeleteQuery
                        \cup ApplyModule \cup ApplyTopic
    PROVE  DOMAIN ch.mods = {}
<1>1. CASE ch \in CreateTopic
  <2>1. PICK m, n : ch = EmptyTopic(m, n)
    BY <1>1 DEF CreateTopic
  <2>2. PICK x : ch = [NoChange EXCEPT !.topics = x]
    BY <2>1 DEF EmptyTopic
  <2> QED BY <2>2, NoPatches
<1>2. CASE ch \in TopicToggle \cup TopicArchive \cup TopicUpdate
  <2>1. PICK t, w : ch = PatchTopic(t, w)
    <3>1. CASE ch \in TopicToggle
      BY <3>1 DEF TopicToggle
    <3>2. CASE ch \in TopicArchive
      BY <3>2 DEF TopicArchive
    <3>3. CASE ch \in TopicUpdate
      <4>1. PICK t \in DOMAIN topics, n \in Names, on \in BOOLEAN :
               ch = PatchTopic(t, [name |-> n, enabled |-> on])
        BY <3>3 DEF TopicUpdate
      <4> QED BY <4>1
    <3> QED BY <1>2, <3>1, <3>2, <3>3
  <2>2. PICK x : ch = [NoChange EXCEPT !.tops = x]
    BY <2>1 DEF PatchTopic
  <2> QED BY <2>2, NoPatches
<1>3. CASE ch \in CreateQuery
  <2>1. PICK t, y : ch = [NoChange EXCEPT !.queries = <<[topic |-> t, text |-> y]>>]
    BY <1>3 DEF CreateQuery
  <2> QED BY <2>1, NoPatches
<1>4. CASE ch \in UpdateQuery \cup ToggleQuery
  <2>1. PICK q, w : ch = PatchQuery(q, w)
    <3>1. CASE ch \in UpdateQuery
      <4>1. PICK q \in DOMAIN queries, x \in Texts : ch = PatchQuery(q, [text |-> x])
        BY <3>1 DEF UpdateQuery
      <4> QED BY <4>1
    <3>2. CASE ch \in ToggleQuery
      BY <3>2 DEF ToggleQuery
    <3> QED BY <1>4, <3>1, <3>2
  <2>2. PICK x : ch = [NoChange EXCEPT !.qrys = x]
    BY <2>1 DEF PatchQuery
  <2> QED BY <2>2, NoPatches
<1>5. CASE ch \in DeleteQuery
  <2>1. \E x : ch = [NoChange EXCEPT !.gone = x]
    BY <1>5 DEF DeleteQuery
  <2> QED BY <2>1, NoPatches
<1>6. CASE ch \in ApplyModule \cup ApplyTopic
  <2>1. ch.mods = Nothing
    BY <1>6, DraftsFit DEF OnlyAdds
  <2> QED BY <2>1, EmptyIsList DEF Nothing
<1> QED BY <1>1, <1>2, <1>3, <1>4, <1>5, <1>6

\* The forms of the modules write only switches to a switch.
LEMMA ModuleFormsSwitch ==
    ASSUME NEW ch \in CreateModule \cup ModuleToggle \cup ModuleArchive \cup ModuleRestore
                        \cup ModuleMove \cup ModuleUpdate
    PROVE  \A m \in DOMAIN ch.mods : Switching(ch.mods[m])
<1>1. CASE ch \in CreateModule
  <2>1. PICK k, n : ch = [NoChange EXCEPT !.modules = <<[key |-> k, order |-> n, topics |-> <<>>]>>]
    BY <1>1 DEF CreateModule
  <2>2. DOMAIN ch.mods = {}
    BY <2>1, NoPatches
  <2> QED BY <2>2
<1>2. ASSUME NEW m, NEW w, ch = PatchModule(m, w), Switching(w)
      PROVE  \A n \in DOMAIN ch.mods : Switching(ch.mods[n])
  <2>1. PICK c : c = Changed(modules[m], w)
    OBVIOUS
  <2>2. DOMAIN c \subseteq DOMAIN w /\ \A f \in DOMAIN c : c[f] = w[f]
    BY <2>1 DEF Changed
  <2>3. "enabled" \in DOMAIN c => c["enabled"] \in BOOLEAN
    BY <1>2, <2>2 DEF Switching
  <2>4. PICK x : x = [i \in {m} |-> c]
    OBVIOUS
  <2>5. ch.mods = x
    <3>1. ch = [NoChange EXCEPT !.mods = x]
      BY <1>2, <2>1, <2>4 DEF PatchModule
    <3> QED BY <3>1 DEF NoChange
  <2>6. DOMAIN x = {m} /\ x[m] = c
    BY <2>4
  <2>7. Switching(c)
    BY <2>3 DEF Switching
  <2> QED BY <2>5, <2>6, <2>7
<1>3. CASE ch \in ModuleToggle
  <2>1. PICK m \in DOMAIN modules : ch = PatchModule(m, [enabled |-> ~modules[m].enabled])
    BY <1>3 DEF ModuleToggle
  <2>2. PICK b \in BOOLEAN : b = ~modules[m].enabled
    OBVIOUS
  <2>3. PICK w : w = [enabled |-> b]
    OBVIOUS
  <2>4. Switching(w)
    BY <2>3 DEF Switching
  <2> QED BY <1>2, <2>1, <2>2, <2>3, <2>4
<1>4. CASE ch \in ModuleArchive
  <2>1. PICK m, w : w = [archived |-> TRUE, enabled |-> FALSE] /\ ch = PatchModule(m, w)
    BY <1>4 DEF ModuleArchive
  <2>2. Switching(w)
    BY <2>1 DEF Switching
  <2> QED BY <1>2, <2>1, <2>2
<1>5. CASE ch \in ModuleRestore
  <2>1. PICK m, w : w = [archived |-> FALSE] /\ ch = PatchModule(m, w)
    BY <1>5 DEF ModuleRestore
  <2>2. Switching(w)
    BY <2>1 DEF Switching
  <2> QED BY <1>2, <2>1, <2>2
<1>6. CASE ch \in ModuleUpdate
  <2>1. PICK m \in DOMAIN modules :
           \E w \in [key : {x \in ModuleKeys : ~KeyExists(x, {m})}, enabled : BOOLEAN,
                     order : {0, modules[m].order}] : ch = PatchModule(m, w)
    BY <1>6 DEF ModuleUpdate
  <2>2. PICK w \in [key : {x \in ModuleKeys : ~KeyExists(x, {m})}, enabled : BOOLEAN,
                    order : {0, modules[m].order}] : ch = PatchModule(m, w)
    BY <2>1
  <2>3. Switching(w)
    BY DEF Switching
  <2> QED BY <1>2, <2>2, <2>3
<1>7. CASE ch \in ModuleMove
  <2>1. PICK m, n : ch = Swap(m, n)
    BY <1>7 DEF ModuleMove
  <2>2. PICK x : x = [i \in {m, n} |->
              Changed(modules[i], [order |-> modules[IF i = m THEN n ELSE m].order])]
    OBVIOUS
  <2>3. ch.mods = x
    <3>1. ch = [NoChange EXCEPT !.mods = x]
      BY <2>1, <2>2 DEF Swap
    <3> QED BY <3>1 DEF NoChange
  <2>4. ASSUME NEW i \in DOMAIN x PROVE Switching(x[i])
    <3>1. PICK o : o = modules[IF i = m THEN n ELSE m].order
      OBVIOUS
    <3>2. PICK w, c : w = [order |-> o] /\ c = Changed(modules[i], w)
      OBVIOUS
    <3>3. "enabled" \notin DOMAIN c
      BY <3>2 DEF Changed
    <3>4. x[i] = c
      BY <2>2, <3>1, <3>2
    <3>5. Switching(c)
      BY <3>3 DEF Switching
    <3> QED BY <3>4, <3>5
  <2> QED BY <2>3, <2>4
<1> QED BY <1>1, <1>3, <1>4, <1>5, <1>6, <1>7

\* Whatever a form decides patches switches with switches.
LEMMA EditSwitches ==
    ASSUME TypesFit, NEW r \in Workers, Edit(r)
    PROVE  \A q \in Workers : \A ch \in {reqs'[q].change} :
              \A m \in DOMAIN ch.mods : Switching(ch.mods[m])
<1>1. PICK new, ch, d : /\ reqs' = [reqs EXCEPT ![r] = new]
                        /\ new = [at |-> "write", change |-> ch, draft |-> d]
                        /\ \A m \in DOMAIN ch.mods : Switching(ch.mods[m])
  <2>1. PICK ch, d : /\ reqs' = [reqs EXCEPT ![r] = [at |-> "write", change |-> ch, draft |-> d]]
                     /\ \/ ch \in CreateModule \cup ModuleToggle \cup ModuleArchive \cup ModuleRestore
                                    \cup ModuleMove \cup ModuleUpdate
                        \/ ch \in CreateTopic \cup TopicToggle \cup TopicArchive \cup TopicUpdate
                                    \cup CreateQuery \cup UpdateQuery \cup ToggleQuery \cup DeleteQuery
                                    \cup ApplyModule \cup ApplyTopic
    BY DEF Edit, Submit
  <2>2. \A m \in DOMAIN ch.mods : Switching(ch.mods[m])
    <3>1. PageFits
      BY DEF TypesFit, EditorFits
    <3> QED BY <2>1, <3>1, ModuleFormsSwitch, OtherFormsPatchNone
  <2> QED BY <2>1, <2>2
<1>2. new.change = ch
  BY <1>1
<1>3. DOMAIN reqs = Workers
  BY DEF TypesFit, EditorFits, RequestsFit
<1>4. \A q \in Workers : q # r => reqs'[q] = reqs[q]
  BY <1>1, <1>3
<1>5. reqs'[r] = new
  BY <1>1, <1>3
<1>6. \A q \in Workers : reqs'[q].change = ch \/ reqs'[q].change = reqs[q].change
  BY <1>2, <1>4, <1>5
<1> QED BY <1>1, <1>6 DEF TypesFit

\* An idle worker patches nothing.
LEMMA IdlePatchesNone == Idle.change.mods = Nothing /\ DOMAIN Nothing = {}
BY EmptyIsList DEF Idle, NoChange, Nothing

\* The empty configuration has its types.
LEMMA TypesBegin == EditorInit => TypesFit
<1> SUFFICES ASSUME EditorInit PROVE TypesFit
  OBVIOUS
<1>1. EditorFits
  BY EditorBegins
<1>2. DOMAIN modules = {} /\ DOMAIN topics = {} /\ ops = 0 /\ \A r \in Workers : reqs[r] = Idle
  BY EmptyIsList DEF EditorInit, Nothing
<1>3. ops \in 0..MaxOps
  BY <1>2, MonitoringAssumption
<1>4. \A r \in Workers : \A ch \in {reqs[r].change} : DOMAIN ch.mods = {}
  BY <1>2, IdlePatchesNone
<1> QED BY <1>1, <1>2, <1>3, <1>4 DEF TypesFit, UniqueKeys, UniqueNames

\* The seeds break no unique index.
LEMMA SeedsAreUnique ==
    ASSUME TypesFit, SeedIfEmpty
    PROVE  /\ UniqueKeys(modules') /\ UniqueNames(topics')
           /\ \A m \in DOMAIN modules' : Switched(modules'[m])
<1>1. RowsFit
  BY DEF TypesFit, EditorFits
<1>2. PICK ms : ms = [i \in DOMAIN Seeds |-> [key |-> Seeds[i].key, order |-> i,
                                              topics |-> Seeds[i].topics]]
  OBVIOUS
<1>3. PICK ch : ch = [NoChange EXCEPT !.modules = ms]
  OBVIOUS
<1>4. modules' = ModulesAfter(ch) /\ topics' = TopicsAfter(ch) /\ modules = <<>>
  BY <1>2, <1>3 DEF SeedIfEmpty, Commit, Nothing
<1>5. /\ DOMAIN ms = DOMAIN Seeds /\ ms = [i \in DOMAIN ms |-> ms[i]]
      /\ \A i \in DOMAIN ms : ms[i].topics = Seeds[i].topics /\ ms[i].key = Seeds[i].key
  BY <1>2
<1>6. IsList(ms)
  BY <1>5, MapIsList, MonitoringAssumption
<1>7. \A i \in DOMAIN ms : ListedTopics(ms[i].topics)
  BY <1>5, MonitoringAssumption DEF ListedTopics
<1>8. \A i \in DOMAIN ms : Distinct(NameFolds(ms[i].topics))
  <2> TAKE i \in DOMAIN ms
  <2>1. PICK ts, ks : ts = ms[i].topics /\ ks = NameFolds(ts)
    OBVIOUS
  <2>2. IsList(ts) /\ Firsts(ks) = DOMAIN ts
    BY <1>5, <2>1, MonitoringAssumption
  <2>3. DOMAIN ks = DOMAIN ts /\ ks = [j \in DOMAIN ks |-> ks[j]]
    BY <2>1 DEF NameFolds
  <2>4. IsList(ks)
    BY <2>2, <2>3, MapIsList
  <2> QED BY <2>1, <2>2, <2>3, <2>4, DistinctNames
<1>9. ChangeFits(ch) /\ AddsModules(ch) /\ ch.modules = ms /\ ch.mods = Nothing /\ ch.tops = Nothing
  BY <1>3, <1>6, <1>7, <1>8, NewModulesFit DEF OnlyAdds, NoChange
<1>10. DOMAIN modules = {} /\ DOMAIN topics = {}
  <2>1. DOMAIN modules = {}
    BY <1>4, EmptyIsList
  <2> QED BY <1>1, <2>1 DEF RowsFit, RowsAre
<1>11. \A m \in DOMAIN modules' : Switched(modules'[m])
  BY <1>1, <1>4, <1>9, <1>10, IdlePatchesNone, SwitchesStay
<1>12. UniqueKeys(modules')
  <2>1. PICK ks : ks = [i \in DOMAIN Seeds |-> Seeds[i].key]
    OBVIOUS
  <2>2. DOMAIN ks = DOMAIN Seeds /\ ks = [i \in DOMAIN ks |-> ks[i]] /\ Firsts(ks) = DOMAIN ks
    BY <2>1, MonitoringAssumption
  <2>3. IsList(ks)
    BY <2>2, MapIsList, MonitoringAssumption
  <2>4. Distinct(ks)
    BY <2>2, <2>3, DistinctNames
  <2>5. \A i, j \in DOMAIN ms : ms[i].key = ms[j].key => i = j
    BY <1>5, <2>1, <2>4 DEF Distinct
  <2>6. PICK last : last = Largest(DOMAIN modules)
    OBVIOUS
  <2>7. \A m \in DOMAIN modules' : \E i \in DOMAIN ms : m = last + i /\ modules'[m].key = ms[i].key
    <3> TAKE m \in DOMAIN modules'
    <3>1. PICK i \in DOMAIN ms :
             /\ m = last + i
             /\ modules'[m] = [key |-> ms[i].key, order |-> ms[i].order, enabled |-> TRUE,
                               archived |-> FALSE]
      BY <1>1, <1>4, <1>9, <1>10, <2>6, ModuleRowsAfter
    <3> QED BY <3>1
  <2>8. ASSUME NEW m \in DOMAIN modules', NEW n \in DOMAIN modules', m # n
        PROVE  modules'[m].key # modules'[n].key
    BY <2>5, <2>7, <2>8
  <2> QED BY <2>8 DEF UniqueKeys
<1>13. UniqueNames(topics')
  <2>1. PICK new, recs, old, top : /\ new = TopicsToAdd(ch) /\ recs = NewRows(new)
                                   /\ old = Patched(topics, ch.tops) /\ top = Largest(DOMAIN topics)
    OBVIOUS
  <2>2. Apart(new)
    BY <1>1, <1>9, <2>1, NewModulesAreApart
  <2>3. Grown(topics', old, recs, top)
    BY <1>1, <1>4, <1>9, <2>1, TopicsGrow
  <2>4. DOMAIN old = {}
    BY <1>10, <2>1 DEF Patched
  <2>5. /\ DOMAIN recs = DOMAIN new
        /\ \A i \in DOMAIN new : recs[i].module = new[i].module /\ recs[i].name = new[i].name
    BY <2>1 DEF NewRows
  <2>6. \A t \in DOMAIN topics' : \E i \in DOMAIN new :
           /\ t = top + i
           /\ topics'[t].module = new[i].module /\ topics'[t].name = new[i].name
    BY <2>3, <2>4, <2>5 DEF Grown
  <2>7. ASSUME NEW t \in DOMAIN topics', NEW u \in DOMAIN topics',
               topics'[t].module = topics'[u].module, topics'[t].name = topics'[u].name
        PROVE  t = u
    BY <2>2, <2>6, <2>7 DEF Apart
  <2> QED BY <2>7 DEF UniqueNames
<1> QED BY <1>11, <1>12, <1>13

\* A change that breaks no index leaves rows with keys and names of their own.
LEMMA WrittenAreUnique ==
    ASSUME NEW ch, ~Violates(ch)
    PROVE  UniqueKeys(ModulesAfter(ch)) /\ UniqueNames(TopicsAfter(ch))
<1>1. PICK ms, ts : ms = ModulesAfter(ch) /\ ts = TopicsAfter(ch)
  OBVIOUS
<1>2. /\ ~ \E m, n \in DOMAIN ms : m # n /\ ms[m].key = ms[n].key
      /\ ~ \E t, u \in DOMAIN ts : t # u /\ ts[t].module = ts[u].module
                                         /\ ts[t].name = ts[u].name
  BY <1>1 DEF Violates
<1> QED BY <1>1, <1>2 DEF UniqueKeys, UniqueNames

\* Every step keeps the types.
LEMMA TypesStep == TypesFit /\ [EditorNext]_editorVars => TypesFit'
<1> SUFFICES ASSUME TypesFit, [EditorNext]_editorVars PROVE TypesFit'
  OBVIOUS
<1>1. EditorFits /\ EditorFits'
  BY EditorStep DEF TypesFit
<1>2. RowsFit /\ RequestsFit
  BY <1>1 DEF EditorFits
<1>3. /\ UniqueKeys(modules) /\ UniqueNames(topics)
      /\ \A m \in DOMAIN modules : Switched(modules[m])
      /\ \A r \in Workers : \A ch \in {reqs[r].change} :
            \A m \in DOMAIN ch.mods : Switching(ch.mods[m])
      /\ ops \in 0..MaxOps /\ MaxOps \in Nat
  BY MonitoringAssumption DEF TypesFit
<1>4. CASE SeedIfEmpty
  <2>1. reqs' = reqs /\ ops' = ops
    BY <1>4 DEF SeedIfEmpty
  <2> QED BY <1>1, <1>3, <1>4, <2>1, SeedsAreUnique DEF TypesFit
<1>5. CASE modules # Nothing /\ ops < MaxOps /\ ops' = ops + 1 /\ \E r \in Workers : Edit(r)
  <2>1. PICK r \in Workers : Edit(r)
    BY <1>5
  <2>2. modules' = modules /\ topics' = topics
    BY <2>1 DEF Edit, Submit, rowvars
  <2>3. ops' \in 0..MaxOps
    BY <1>3, <1>5
  <2> QED BY <1>1, <1>3, <2>1, <2>2, <2>3, EditSwitches DEF TypesFit
<1>6. CASE ops < MaxOps /\ ops' = ops + 1 /\ (GenerateModule \/ GenerateTopic)
  <2>1. modules' = modules /\ topics' = topics /\ reqs' = reqs
    BY <1>6 DEF GenerateModule, GenerateTopic, rowvars
  <2>2. ops' \in 0..MaxOps
    BY <1>3, <1>6
  <2> QED BY <1>1, <1>3, <2>1, <2>2 DEF TypesFit
<1>7. CASE \E r \in Workers : Write(r) \/ WriteFails(r)
  <2>1. PICK r \in Workers : Write(r) \/ WriteFails(r)
    BY <1>7
  <2>2. PICK ch : ch = reqs[r].change
    OBVIOUS
  <2>3. reqs' = [reqs EXCEPT ![r] = Idle] /\ ops' = ops
    BY <2>1 DEF Write, WriteFails
  <2>4. \A q \in Workers : reqs'[q] = Idle \/ reqs'[q] = reqs[q]
    BY <1>2, <2>3 DEF RequestsFit
  <2>5. \A q \in Workers : \A c \in {reqs'[q].change} : \A m \in DOMAIN c.mods : Switching(c.mods[m])
    BY <1>3, <2>4, IdlePatchesNone
  <2>6. CASE UNCHANGED rowvars
    BY <1>1, <1>3, <2>3, <2>5, <2>6 DEF TypesFit, rowvars
  <2>7. CASE Commit(ch) /\ ~Violates(ch)
    <3>1. modules' = ModulesAfter(ch) /\ topics' = TopicsAfter(ch)
      BY <2>7 DEF Commit
    <3>2. UniqueKeys(modules') /\ UniqueNames(topics')
      BY <2>7, <3>1, WrittenAreUnique
    <3>3. ChangeFits(ch) /\ \A m \in DOMAIN ch.mods : Switching(ch.mods[m])
      BY <1>2, <1>3, <2>2 DEF RequestsFit
    <3>4. \A m \in DOMAIN modules' : Switched(modules'[m])
      BY <1>2, <1>3, <3>1, <3>3, SwitchesStay
    <3> QED BY <1>1, <1>3, <2>3, <2>5, <3>2, <3>4 DEF TypesFit
  <2>8. UNCHANGED rowvars \/ (Commit(ch) /\ ~Violates(ch))
    BY <2>1, <2>2 DEF Write, WriteFails
  <2> QED BY <2>6, <2>7, <2>8
<1>8. CASE UNCHANGED editorVars
  BY <1>1, <1>3, <1>8 DEF TypesFit, editorVars, rowvars
<1> QED BY <1>4, <1>5, <1>6, <1>7, <1>8 DEF EditorNext

\* Writing nothing would violate nothing: the rows keep the unique indexes.
LEMMA NothingViolates ==
    ASSUME RowsFit, UniqueKeys(modules), UniqueNames(topics)
    PROVE  ~Violates(NoChange)
<1>1. PICK ch : ch = NoChange
  OBVIOUS
<1>2. /\ ch.mods = Nothing /\ ch.tops = Nothing /\ ch.qrys = Nothing /\ ch.gone = {}
      /\ ch.modules = <<>> /\ DOMAIN Nothing = {} /\ DOMAIN <<>> = {}
  BY <1>1, EmptyIsList DEF NoChange, Nothing
<1>3. ChangeFits(ch)
  <2>1. Idle.change = NoChange
    BY DEF Idle
  <2> QED BY <1>1, <2>1, IdleFits DEF ChangeFits
<1>4. PICK ms, ts : ms = ModulesAfter(ch) /\ ts = TopicsAfter(ch)
  OBVIOUS
<1>5. DOMAIN ms = DOMAIN modules /\ \A m \in DOMAIN modules : ms[m] = modules[m]
  <2>1. DOMAIN modules \subseteq DOMAIN ms /\ DOMAIN ms \ DOMAIN modules = {}
    BY <1>2, <1>3, <1>4, ModuleRowsAfter
  <2>2. \A m \in DOMAIN modules : ms[m] = modules[m]
    BY <1>2, <1>3, <1>4, ModuleRowsAfter, Unpatched
  <2> QED BY <2>1, <2>2
<1>6. DOMAIN ts = DOMAIN topics /\ \A t \in DOMAIN topics : ts[t] = topics[t]
  <2>1. PICK old, recs, new, top : /\ old = Patched(topics, ch.tops) /\ new = TopicsToAdd(ch)
                                   /\ recs = NewRows(new) /\ top = Largest(DOMAIN topics)
    OBVIOUS
  <2>2. Grown(ts, old, recs, top)
    BY <1>3, <1>4, <2>1, TopicsGrow
  <2>3. new = ch.topics
    BY <1>2, <1>3, <2>1, OnlyTopicsToAdd
  <2>4. ch.topics = <<>>
    BY <1>1 DEF NoChange
  <2>5. DOMAIN recs = {}
    BY <1>2, <2>1, <2>3, <2>4 DEF NewRows
  <2>6. DOMAIN old = DOMAIN topics /\ \A t \in DOMAIN topics : old[t] = topics[t]
    BY <1>2, <2>1, Unpatched
  <2> QED BY <2>2, <2>5, <2>6 DEF Grown
<1>7. ~ \E m, n \in DOMAIN ms : m # n /\ ms[m].key = ms[n].key
  BY <1>5 DEF UniqueKeys
<1>8. ~ \E t, u \in DOMAIN ts : t # u /\ ts[t].module = ts[u].module /\ ts[t].name = ts[u].name
  BY <1>6 DEF UniqueNames
<1>9. ch.gone \cup DOMAIN ch.qrys \subseteq DOMAIN queries
  BY <1>2
<1> QED BY <1>1, <1>4, <1>7, <1>8, <1>9 DEF Violates

\* The rows of the configuration always belong to rows that are there, a switch is
\* on or off, and the unique indexes hold: no form, draft or seed leaves two
\* modules with one key, or two topics of a module with one name.
THEOREM EditorTypesHold == EditorSpec => []EditorTypes
<1>1. TypesFit => EditorTypes
  <2> SUFFICES ASSUME TypesFit PROVE EditorTypes
    OBVIOUS
  <2>1. RowsFit /\ UniqueKeys(modules) /\ UniqueNames(topics) /\ ops \in 0..MaxOps
    BY DEF TypesFit, EditorFits
  <2>2. \A m \in DOMAIN modules : modules[m].enabled \in BOOLEAN
    BY DEF TypesFit, Switched
  <2>3. /\ \A t \in DOMAIN topics : topics[t].module \in DOMAIN modules
        /\ \A q \in DOMAIN queries : queries[q].topic \in DOMAIN topics
    BY <2>1 DEF RowsFit, RowsAre
  <2> QED BY <2>1, <2>2, <2>3, NothingViolates DEF EditorTypes
<1> QED BY <1>1, TypesBegin, TypesStep, PTL DEF EditorSpec
=============================================================================
