----------------------------- MODULE AgentsProofs -----------------------------
(***************************************************************************)
(* Proofs about Agents, for any vendors, answers and candidate lists, any  *)
(* number of attempts per call and any changes of the settings.            *)
(***************************************************************************)
EXTENDS Agents, FiniteSetTheorems, FunctionTheorems, WellFoundedInduction, TLAPS

----------------------------------------------------------------------------
(* The inductive invariant.                                                *)

\* A pass is a record of these fields, whatever its answer and result hold.
IsPass(p) ==
    p = [at |-> p.at, agent |-> p.agent, provider |-> p.provider,
         asked |-> p.asked, serves |-> p.serves,
         attempt |-> p.attempt, sent |-> p.sent, found |-> p.found,
         collected |-> p.collected, broken |-> p.broken, raw |-> p.raw,
         result |-> p.result]

PassPlaces == {"idle", "load", "plan", "collect", "analyze", "attach", "ask",
               "done", "failed"}
Calls == [attempt : Nat, budget : Nat]
Usages == [sent : Nat, ok : BOOLEAN, recorded : BOOLEAN, attempts : Nat,
           refused : BOOLEAN]

RowsAreTyped == DOMAIN rows = Vendors /\ \A p \in Vendors : rows[p].id = 1
Types ==
    /\ IsPass(pass) /\ pass.at \in PassPlaces
    /\ pass.agent \in CapableAgents \cup {NoAgent}
    /\ pass.provider \in Vendors \cup {NoVendor}
    /\ pass.serves \in Vendors \cup {NoVendor}
    /\ pass.attempt \in 0..2 /\ pass.sent \in Nat
    /\ call \in Calls /\ usage \in Usages /\ edits \in 0..MaxEdits

\* The record of the last call counts its requests.
RecordFits ==
    usage.sent > 0 =>
        /\ usage.recorded \/ usage.refused
        /\ usage.recorded => usage.attempts >= usage.sent
        /\ usage.ok => usage.attempts = usage.sent

CallFits ==
    call # NoCall =>
        /\ pass.at \in {"plan", "analyze"}
        /\ call.attempt \in 1..call.budget
        /\ call.budget = IF pass.at = "plan" THEN Retries ELSE 2

\* Where a pass is tells whose it is and what it has gathered.
OnThisMachine == {"load", "plan", "collect", "analyze", "attach"}
PlaceFits ==
    /\ pass.at = "idle" => pass = NewPass
    /\ pass.at \in OnThisMachine \/ pass.collected # "none" =>
           pass.asked = LocalAgent /\ pass.agent = LocalAgent
    /\ pass.at = "ask" => Remotely
    /\ pass.at \in {"analyze", "attach"} => pass.collected \in {"ok", "partial"}
    /\ pass.at = "analyze" => pass.attempt \in {1, 2}
    /\ pass.at = "attach" => pass.result = Validate(pass.raw) /\ pass.result # Junk

\* Requests sent so far, those of the call that is under way among them.
InCall == IF call = NoCall THEN 0 ELSE call.attempt - 1
SentFits ==
    /\ pass.at = "load" => pass.sent = 0
    /\ pass.at = "plan" => pass.sent = InCall
    /\ pass.at = "ask" => pass.sent = pass.attempt /\ pass.attempt <= 1
    /\ pass.at = "collect" => pass.sent <= Retries
    /\ pass.at = "analyze" => pass.sent <= Retries + 2 * (pass.attempt - 1) + InCall
    /\ pass.at = "attach" => pass.sent <= Retries + 4
    /\ pass.sent <= IF Remotely THEN 2 ELSE Retries + 4

Inv ==
    /\ RowsAreTyped /\ Types /\ RecordFits /\ CallFits /\ PlaceFits /\ SentFits
    /\ NeverBetterThanCollection

----------------------------------------------------------------------------
(* Agents and providers.                                                   *)

LEMMA RetriesFact == Retries \in Nat /\ Retries >= 1
BY AgentAssumption

LEMMA LocalIsLocal ==
    /\ LocalAgent.kind = "local" /\ LocalAgent \in CapableAgents
    /\ \A s \in CapableAgents : s.kind = "local" => s = LocalAgent
    /\ \A s \in CapableAgents : s.kind \in {"local", "remote"}
    /\ \A s \in NativeAgents : s.kind = "remote" /\ s \in CapableAgents
BY DEF LocalAgent, CapableAgents, AllAgents, NativeAgents, ChatOnly, Spec

LEMMA DefaultIsVendor ==
    ASSUME RowsAreTyped
    PROVE  DefaultProvider(rows) \in Vendors \cup {NoVendor}
<1>1. Enabled(rows) \subseteq Vendors
  BY DEF Enabled, RowsAreTyped
<1>2. ASSUME NEW S \in SUBSET Vendors, S # {}
      PROVE  Oldest(rows, S) \in S
  <2>1. \E p \in S : \A q \in S : rows[p].id <= rows[q].id
    BY <1>2 DEF RowsAreTyped
  <2> QED BY <2>1 DEF Oldest
<1> QED BY <1>1, <1>2 DEF DefaultProvider

LEMMA ResolveIsVendor ==
    ASSUME RowsAreTyped, NEW route0
    PROVE  /\ Resolve(rows, route0) \in Vendors \cup {NoVendor}
           /\ ResolveRow(rows, route0) \in Vendors \cup {NoVendor}
BY DefaultIsVendor DEF Resolve, ResolveRow, Enabled, RowsAreTyped

\* An engine that can run is a capable agent, and local only by choice.
LEMMA EngineFacts ==
    ASSUME RowsAreTyped, NEW e, e = EngineStatus(rows, choice)
    PROVE  /\ e.agent \in CapableAgents \cup {NoAgent}
           /\ e.provider \in Vendors \cup {NoVendor}
           /\ e.ready => /\ e.agent \in CapableAgents /\ e.agent # NoAgent
                         /\ e.agent.kind = "local" =>
                              e.agent = LocalAgent /\ choice.agent = LocalAgent
<1> DEFINE p == ResolveRow(rows, choice.provider)
<1> DEFINE s == ResolveSpec(choice.agent, p)
<1>1. /\ e.provider = p /\ e.agent = IF p = NoVendor THEN NoAgent ELSE s
      /\ e.ready => p # NoVendor /\ s # NoAgent
  BY DEF EngineStatus
<1>2. p \in Vendors \cup {NoVendor}
  BY ResolveIsVendor
<1>3. s = DefaultAgent(p) \/ (s = choice.agent /\ choice.agent \in CapableAgents)
  BY DEF ResolveSpec
<1>4. DefaultAgent(p) \in NativeAgents \cup {NoAgent}
  BY DEF DefaultAgent
<1> HIDE DEF p, s
<1>5. s \in CapableAgents \cup {NoAgent}
  BY <1>3, <1>4, LocalIsLocal
<1>6. s # NoAgent /\ s.kind = "local" => s = LocalAgent /\ choice.agent = LocalAgent
  BY <1>3, <1>4, LocalIsLocal
<1> QED BY <1>1, <1>2, <1>5, <1>6

----------------------------------------------------------------------------
(* Passes and results.                                                     *)

LEMMA NewPassIsPass == IsPass(NewPass)
BY DEF IsPass, NewPass

LEMMA EndsFacts ==
    ASSUME NEW p, IsPass(p), NEW w, w = Ends(p)
    PROVE  /\ IsPass(w) /\ w.at = "failed" /\ w.agent = p.agent
           /\ w.provider = p.provider /\ w.serves = p.serves /\ w.asked = p.asked
           /\ w.attempt = p.attempt /\ w.sent = p.sent /\ w.collected = p.collected
BY DEF Ends, IsPass

\* What a validated result keeps of the raw answer's word.
LEMMA ValidatedCoverage ==
    ASSUME NEW raw, NEW r, r = Validate(raw), r # Junk
    PROVE  \E n, t, s, e, src, x :
              r = [coverage |-> CleanStatus(raw.coverage), notes |-> n, text |-> t,
                   sections |-> s, events |-> e, sources |-> src, examined |-> x]
<1>1. PICK c : c = Coerce(raw)
  OBVIOUS
<1>2. PICK n, t, s, e, src, x :
        c = [coverage |-> CleanStatus(raw.coverage), notes |-> n, text |-> t,
             sections |-> s, events |-> e, sources |-> src, examined |-> x]
  BY <1>1 DEF Coerce
<1>3. PICK src1, e1, s1, x1 :
        r = [c EXCEPT !.sources = src1, !.events = e1, !.sections = s1, !.examined = x1]
  BY <1>1 DEF Validate
<1> QED BY <1>2, <1>3

LEMMA AttachedCoverage ==
    ASSUME NEW raw, NEW r, r = Validate(raw), r # Junk, NEW docs,
           NEW a, a = ApplyCollectionCoverage(AttachSources(r, docs)),
           a.coverage = "complete"
    PROVE  /\ CleanStatus(raw.coverage) = "complete"
           /\ pass.collected # "partial" /\ ~pass.broken
<1>1. PICK n, t, s, e, src, x :
        r = [coverage |-> CleanStatus(raw.coverage), notes |-> n, text |-> t,
             sections |-> s, events |-> e, sources |-> src, examined |-> x]
  BY ValidatedCoverage
<1>2. PICK b : b = AttachSources(r, docs)
  OBVIOUS
<1>3. PICK src1, x1 : b = [r EXCEPT !.sources = src1, !.examined = x1]
  BY <1>2 DEF AttachSources
<1>4. /\ DOMAIN b = DOMAIN r /\ b.coverage = r.coverage
      /\ "coverage" \in DOMAIN r /\ r.coverage = CleanStatus(raw.coverage)
  <2>1. "coverage" \in DOMAIN r /\ r.coverage = CleanStatus(raw.coverage)
    BY <1>1
  <2>2. DOMAIN b = DOMAIN r
    BY <1>3
  <2>3. b.coverage = r.coverage
    BY <1>3, <2>1
  <2> QED BY <2>1, <2>2, <2>3
<1>5. PICK low : low = IF pass.collected = "partial" /\ b.coverage # "failed"
                       THEN "partial" ELSE b.coverage
  OBVIOUS
<1>6. a = [b EXCEPT !.coverage = IF pass.broken /\ low = "complete" THEN "partial" ELSE low]
  BY <1>2, <1>5 DEF ApplyCollectionCoverage
<1>7. a.coverage = IF pass.broken /\ low = "complete" THEN "partial" ELSE low
  BY <1>4, <1>6
<1>8. low = "complete" /\ ~pass.broken
  BY <1>7
<1> QED BY <1>4, <1>5, <1>8

----------------------------------------------------------------------------
(* Selections: see Selection.                                              *)

\* A position has fewer before it than a later one.
LEMMA BelowIsMonotone ==
    ASSUME NEW L \in Nat, NEW kept \in SUBSET (1..L)
    PROVE  /\ IsFiniteSet(kept) /\ Cardinality(kept) \in Nat
           /\ \A i \in kept : Cardinality(Below(kept, i)) \in 0..(Cardinality(kept) - 1)
           /\ \A i, k \in kept :
                 i < k => Cardinality(Below(kept, i)) < Cardinality(Below(kept, k))
<1>1. IsFiniteSet(1..L)
  BY FS_Interval
<1>2. IsFiniteSet(kept)
  BY <1>1, FS_Subset
<1>3. Cardinality(kept) \in Nat
  BY <1>2, FS_CardinalityType
<1>4. ASSUME NEW i \in kept
      PROVE  /\ IsFiniteSet(Below(kept, i)) /\ Cardinality(Below(kept, i)) \in Nat
             /\ Cardinality(Below(kept, i)) <= Cardinality(kept) - 1
  <2>1. Below(kept, i) \in SUBSET (kept \ {i})
    BY DEF Below
  <2>2. IsFiniteSet(kept \ {i}) /\ Cardinality(kept \ {i}) = Cardinality(kept) - 1
    BY <1>2, FS_RemoveElement
  <2>3. IsFiniteSet(Below(kept, i)) /\ Cardinality(Below(kept, i)) <= Cardinality(kept \ {i})
    BY <2>1, <2>2, FS_Subset
  <2> QED BY <2>2, <2>3, FS_CardinalityType
<1>5. ASSUME NEW i \in kept, NEW k \in kept, i < k
      PROVE  Cardinality(Below(kept, i)) < Cardinality(Below(kept, k))
  <2>1. i \in Nat /\ k \in Nat /\ \A j \in kept : j \in Nat
    OBVIOUS
  <2>2. \A j \in kept : j < i => j < k
    BY <2>1, <1>5
  <2>3. Below(kept, i) \cup {i} \in SUBSET Below(kept, k) /\ i \notin Below(kept, i)
    <3>1. ~(i < i)
      BY <2>1
    <3>2. \A j \in Below(kept, i) : j \in kept /\ j < k
      BY <2>2 DEF Below
    <3> QED BY <3>1, <3>2, <1>5 DEF Below
  <2>4. Cardinality(Below(kept, i) \cup {i}) = Cardinality(Below(kept, i)) + 1
    BY <2>3, <1>4, FS_AddElement
  <2>5. Cardinality(Below(kept, i) \cup {i}) <= Cardinality(Below(kept, k))
    BY <2>3, <1>4, FS_Subset
  <2>6. Cardinality(Below(kept, i)) \in Nat /\ Cardinality(Below(kept, k)) \in Nat
    BY <1>4
  <2> QED BY <2>4, <2>5, <2>6
<1> QED BY <1>2, <1>3, <1>4, <1>5

\* Positions are numbered in their order, without gaps.
LEMMA PositionsAreOrdered ==
    ASSUME NEW L \in Nat, NEW kept \in SUBSET (1..L)
    PROVE  /\ IsFiniteSet(kept) /\ Cardinality(kept) \in Nat
           /\ \A n \in 1..Cardinality(kept) : Position(kept, n) \in kept
           /\ \A m, n \in 1..Cardinality(kept) :
                 m < n => Position(kept, m) < Position(kept, n)
           /\ \A i \in kept : \E n \in 1..Cardinality(kept) : Position(kept, n) = i
<1> DEFINE N == Cardinality(kept)
<1> DEFINE Card(i) == Cardinality(Below(kept, i))
<1> DEFINE rank == [i \in kept |-> Card(i) + 1]
<1>1. /\ IsFiniteSet(kept) /\ N \in Nat
      /\ \A i \in kept : Card(i) \in 0..(N - 1)
      /\ \A i, k \in kept : i < k => Card(i) < Card(k)
  BY BelowIsMonotone
<1>2. \A i \in kept : i \in Nat
  OBVIOUS
<1> HIDE DEF N, Card
<1>3. \A i, k \in kept : Card(i) = Card(k) => i = k
  <2>1. \A i, k \in kept : i < k \/ i = k \/ k < i
    BY <1>2
  <2> QED BY <2>1, <1>1
<1>4. rank \in [kept -> 1..N] /\ \A i, k \in kept : rank[i] = rank[k] => i = k
  BY <1>1, <1>3
<1>5. \A i \in kept : rank[i] = Card(i) + 1
  OBVIOUS
<1> HIDE DEF rank
<1>6. rank \in Injection(kept, 1..N)
  BY <1>4, Fun_IsInj
<1>7. IsFiniteSet(1..N) /\ Cardinality(1..N) = N
  BY <1>1, FS_Interval
<1>8. rank \in Surjection(kept, 1..N)
  BY <1>6, <1>7, FS_Injection DEF N
<1>9. \A n \in 1..N : \E i \in kept : rank[i] = n
  BY <1>8, Fun_SurjectionProperties
<1>10. ASSUME NEW n \in 1..N
       PROVE  Position(kept, n) \in kept /\ Card(Position(kept, n)) = n - 1
  <2>1. \E i \in kept : Card(i) = n - 1
    <3>1. PICK i \in kept : rank[i] = n
      BY <1>9
    <3>2. Card(i) \in Nat /\ n = Card(i) + 1
      BY <3>1, <1>1, <1>5
    <3> QED BY <3>2
  <2> QED BY <2>1 DEF Position, Card
<1>11. ASSUME NEW m \in 1..N, NEW n \in 1..N, m < n
       PROVE  Position(kept, m) < Position(kept, n)
  <2>1. PICK i \in kept : i = Position(kept, m) /\ Card(i) = m - 1
    BY <1>10
  <2>2. PICK k \in kept : k = Position(kept, n) /\ Card(k) = n - 1
    BY <1>10
  <2>3. i < k \/ i = k \/ k < i
    BY <1>2
  <2> QED BY <2>1, <2>2, <2>3, <1>1, <1>11
<1>12. ASSUME NEW i \in kept PROVE \E n \in 1..N : Position(kept, n) = i
  <2>1. rank[i] \in 1..N /\ rank[i] - 1 = Card(i)
    BY <1>1, <1>4, <1>5
  <2>2. Position(kept, rank[i]) \in kept /\ Card(Position(kept, rank[i])) = Card(i)
    BY <2>1, <1>10
  <2> QED BY <2>1, <2>2, <1>3
<1> QED BY <1>1, <1>10, <1>11, <1>12 DEF N

\* A list: entries numbered from one.
Numbered(s) == Len(s) \in Nat /\ DOMAIN s = 1..Len(s)

LEMMA ListIsNumbered ==
    ASSUME NEW s, IsList(s)
    PROVE  Numbered(s)
BY DEF IsList, Numbered

\* The smallest and the largest of some numbers.
LEMMA SmallestExists ==
    ASSUME NEW T \in SUBSET Nat, T # {}
    PROVE  \E x \in T : \A y \in T : x <= y
<1> DEFINE R == OpToRel(<, Nat)
<1>1. IsWellFoundedOn(R, Nat)
  BY NatLessThanWellFounded
<1>2. \A x, y \in Nat : x < y => <<x, y>> \in R
  BY DEF OpToRel
<1> HIDE DEF R
<1>3. PICK x \in T : \A y \in T : ~ (<<y, x>> \in R)
  BY <1>1, WFMin
<1>4. \A y \in T : ~(y < x)
  BY <1>2, <1>3
<1>5. \A y \in T : y \in Nat /\ x \in Nat
  OBVIOUS
<1> QED BY <1>4, <1>5

LEMMA LargestExists ==
    ASSUME NEW L \in Nat, NEW T \in SUBSET (1..L), T # {}
    PROVE  \E x \in T : \A y \in T : y <= x
<1>1. \A y \in T : y \in 1..L
  OBVIOUS
<1>2. \A y \in T : y \in Nat /\ L - y \in Nat
  BY <1>1
<1> DEFINE above == {L - y : y \in T}
<1>3. above \in SUBSET Nat /\ above # {}
  BY <1>2
<1>4. PICK m \in above : \A a \in above : m <= a
  BY <1>3, SmallestExists
<1>5. PICK x \in T : m = L - x
  BY <1>4
<1>6. \A y \in T : L - x <= L - y
  BY <1>4, <1>5
<1> QED BY <1>2, <1>6

\* A selection of a list is a list of the entries selected.
LEMMA KeepFacts ==
    ASSUME NEW s, NEW L \in Nat, NEW kept \in SUBSET (1..L)
    PROVE  /\ Numbered(Keep(s, kept))
           /\ ToSet(Keep(s, kept)) = {s[i] : i \in kept}
<1> DEFINE N == Cardinality(kept)
<1>1. /\ N \in Nat /\ \A n \in 1..N : Position(kept, n) \in kept
      /\ \A i \in kept : \E n \in 1..N : Position(kept, n) = i
  BY PositionsAreOrdered
<1> HIDE DEF N
<1>2. Keep(s, kept) = [n \in 1..N |-> s[Position(kept, n)]]
  BY DEF Keep, N
<1>3. Keep(s, kept) \in Seq({s[i] : i \in kept})
  BY <1>1, <1>2
<1>4. Numbered(Keep(s, kept))
  BY <1>1, <1>2, <1>3 DEF Numbered
<1>5. ToSet(Keep(s, kept)) = {s[Position(kept, n)] : n \in 1..N}
  BY <1>2 DEF ToSet
<1>6. {s[Position(kept, n)] : n \in 1..N} = {s[i] : i \in kept}
  BY <1>1
<1> QED BY <1>4, <1>5, <1>6

LEMMA TakeFacts ==
    ASSUME NEW s, Numbered(s), NEW n \in Nat
    PROVE  /\ Numbered(Take(s, n)) /\ Len(Take(s, n)) <= Len(s)
           /\ \A i \in DOMAIN Take(s, n) : i \in DOMAIN s /\ Take(s, n)[i] = s[i]
<1> DEFINE m == IF Len(s) < n THEN Len(s) ELSE n
<1>1. m \in Nat /\ m <= Len(s)
  BY DEF Numbered
<1>2. Take(s, n) = SubSeq(s, 1, m)
  BY DEF Take
<1> HIDE DEF m
<1>3. /\ Len(SubSeq(s, 1, m)) = m /\ DOMAIN SubSeq(s, 1, m) = 1..m
      /\ \A i \in 1..m : SubSeq(s, 1, m)[i] = s[i]
  BY <1>1 DEF Numbered
<1> QED BY <1>1, <1>2, <1>3 DEF Numbered

\* Every value of a list has a first occurrence.
LEMMA FirstExists ==
    ASSUME NEW s, Numbered(s), NEW i \in DOMAIN s
    PROVE  /\ Firsts(s) \in SUBSET (1..Len(s))
           /\ \E f \in Firsts(s) : s[f] = s[i]
<1>1. DOMAIN s = 1..Len(s) /\ Len(s) \in Nat
  BY DEF Numbered
<1> DEFINE T == {j \in 1..Len(s) : s[j] = s[i]}
<1>2. T \in SUBSET Nat /\ i \in T
  BY <1>1
<1>3. PICK f \in T : \A j \in T : f <= j
  BY <1>2, SmallestExists
<1>4. \A j \in 1..(f - 1) : s[j] # s[f]
  BY <1>1, <1>3
<1>5. f \in Firsts(s) /\ s[f] = s[i]
  BY <1>1, <1>3, <1>4 DEF Firsts
<1> QED BY <1>1, <1>5 DEF Firsts

LEMMA DistinctFacts ==
    ASSUME NEW s, Numbered(s)
    PROVE  /\ Numbered(Distinct(s))
           /\ ToSet(Distinct(s)) = ToSet(s)
<1>1. DOMAIN s = 1..Len(s) /\ Len(s) \in Nat
  BY DEF Numbered
<1>2. Firsts(s) \in SUBSET (1..Len(s))
  BY <1>1 DEF Firsts
<1>3. {s[f] : f \in Firsts(s)} = {s[i] : i \in DOMAIN s}
  BY <1>1, <1>2, FirstExists
<1>4. Numbered(Keep(s, Firsts(s))) /\ ToSet(Keep(s, Firsts(s))) = {s[f] : f \in Firsts(s)}
  BY <1>1, <1>2, KeepFacts
<1> QED BY <1>3, <1>4 DEF Distinct, ToSet

----------------------------------------------------------------------------
(* What a validated answer cites.                                          *)

\* Where a url of the list stands first, and what that entry is.
LEMMA FirstIdFacts ==
    ASSUME NEW sources, Numbered(sources), NEW i \in DOMAIN sources
    PROVE  \E f \in Firsts([k \in DOMAIN sources |-> sources[k].url]) :
              /\ f \in DOMAIN sources /\ sources[f].url = sources[i].url
              /\ FirstId(sources, sources[i].url) = sources[f].id
<1>1. PICK urls : urls = [k \in DOMAIN sources |-> sources[k].url]
  OBVIOUS
<1>2. DOMAIN sources = 1..Len(sources) /\ Len(sources) \in Nat
  BY DEF Numbered
<1> DEFINE IsFirst(k) == /\ sources[k].url = sources[i].url
                         /\ \A j \in DOMAIN sources :
                               sources[j].url = sources[i].url => k <= j
<1>3. \E k \in DOMAIN sources : IsFirst(k)
  <2> DEFINE T == {j \in DOMAIN sources : sources[j].url = sources[i].url}
  <2>1. T \in SUBSET Nat /\ T # {}
    BY <1>2
  <2> QED BY <2>1, SmallestExists
<1>4. PICK f \in DOMAIN sources :
         IsFirst(f) /\ f = CHOOSE k \in DOMAIN sources : IsFirst(k)
  BY <1>3
<1>5. FirstId(sources, sources[i].url) = sources[f].id
  BY <1>4 DEF FirstId
<1>6. f \in Firsts(urls)
  <2>1. f \in Nat /\ \A j \in 1..(f - 1) : j \in DOMAIN sources /\ ~(f <= j)
    BY <1>2
  <2> QED BY <1>1, <1>4, <2>1 DEF Firsts
<1> QED BY <1>1, <1>4, <1>5, <1>6

LEMMA UniqueSourcesFacts ==
    ASSUME NEW sources, Numbered(sources),
           NEW F, F = Firsts([k \in DOMAIN sources |-> sources[k].url])
    PROVE  /\ F \in SUBSET DOMAIN sources
           /\ Numbered(UniqueSources(sources))
           /\ ToSet(UniqueSources(sources)) = {sources[f] : f \in F}
           /\ SourceIds(UniqueSources(sources)) = {sources[f].id : f \in F}
<1>1. DOMAIN sources = 1..Len(sources) /\ Len(sources) \in Nat
  BY DEF Numbered
<1>2. F \in SUBSET (1..Len(sources))
  BY <1>1 DEF Firsts
<1>3. UniqueSources(sources) = Keep(sources, F)
  BY DEF UniqueSources
<1>4. /\ Numbered(UniqueSources(sources))
      /\ ToSet(UniqueSources(sources)) = {sources[f] : f \in F}
  BY <1>1, <1>2, <1>3, KeepFacts
<1>5. SourceIds(UniqueSources(sources)) = {x.id : x \in ToSet(UniqueSources(sources))}
  BY DEF SourceIds, ToSet
<1> QED BY <1>1, <1>2, <1>4, <1>5

\* A number that is used for one page stands for the entry of that page, and one
\* that is not used stays as it is.
LEMMA RemapFacts ==
    ASSUME NEW sources, Numbered(sources), Consistent(sources), NEW id
    PROVE  \/ /\ \A i \in DOMAIN sources : sources[i].id # id
              /\ Remap(sources, id) = id
           \/ \E i \in DOMAIN sources :
                /\ sources[i].id = id
                /\ Remap(sources, id) = FirstId(sources, sources[i].url)
<1>1. DOMAIN sources = 1..Len(sources) /\ Len(sources) \in Nat
  BY DEF Numbered
<1>2. PICK uses : uses = {i \in DOMAIN sources : sources[i].id = id}
  OBVIOUS
<1>3. CASE uses = {}
  BY <1>2, <1>3 DEF Remap
<1>4. CASE uses # {}
  <2>1. uses \in SUBSET (1..Len(sources))
    BY <1>1, <1>2
  <2>2. \E i \in uses : \A j \in uses : j <= i
    BY <1>1, <1>4, <2>1, LargestExists
  <2>3. PICK i \in uses : i = CHOOSE k \in uses : \A j \in uses : j <= k
    BY <2>2
  <2>4. Remap(sources, id) = FirstId(sources, sources[i].url)
    BY <1>2, <1>4, <2>3 DEF Remap
  <2> QED BY <1>2, <2>4
<1> QED BY <1>3, <1>4

\* The evidence of an event, in terms of the entries listed.
LEMMA ResolvedIds ==
    ASSUME NEW sources, NEW ids, Numbered(ids)
    PROVE  /\ Numbered(ResolveIds(sources, ids))
           /\ ToSet(ResolveIds(sources, ids))
                = {Remap(sources, i) : i \in ToSet(ids)}
                    \cap SourceIds(UniqueSources(sources))
<1>1. DOMAIN ids = 1..Len(ids) /\ Len(ids) \in Nat
  BY DEF Numbered
<1>2. PICK listed : listed = SourceIds(UniqueSources(sources))
  OBVIOUS
<1>3. PICK remapped : remapped = [n \in DOMAIN ids |-> Remap(sources, ids[n])]
  OBVIOUS
<1>4. PICK kept : kept = {n \in DOMAIN ids : remapped[n] \in listed}
  OBVIOUS
<1>5. kept \in SUBSET (1..Len(ids))
  BY <1>1, <1>4
<1>6. Numbered(Keep(remapped, kept)) /\ ToSet(Keep(remapped, kept)) = {remapped[n] : n \in kept}
  BY <1>1, <1>5, KeepFacts
<1>7. ResolveIds(sources, ids) = Distinct(Keep(remapped, kept))
  BY <1>2, <1>3, <1>4 DEF ResolveIds
<1>8. {remapped[n] : n \in kept} = {Remap(sources, i) : i \in ToSet(ids)} \cap listed
  BY <1>3, <1>4 DEF ToSet
<1> QED BY <1>2, <1>6, <1>7, <1>8, DistinctFacts

\* What a number leads to, before and after.
LEMMA PageOfNumber ==
    ASSUME NEW sources, Numbered(sources), Consistent(sources), NEW id,
           NEW U, U = UniqueSources(sources)
    PROVE  \/ Pages(sources, id) = {} /\ Remap(sources, id) \notin SourceIds(U)
           \/ /\ Pages(sources, id) # {} /\ Remap(sources, id) \in SourceIds(U)
              /\ Pages(U, Remap(sources, id)) = Pages(sources, id)
<1>1. PICK F : F = Firsts([k \in DOMAIN sources |-> sources[k].url])
  OBVIOUS
<1>2. /\ F \in SUBSET DOMAIN sources
      /\ ToSet(U) = {sources[f] : f \in F}
      /\ SourceIds(U) = {sources[f].id : f \in F}
  BY <1>1, UniqueSourcesFacts
<1>3. \A x : Pages(sources, x) = {sources[k].url : k \in {j \in DOMAIN sources : sources[j].id = x}}
  BY DEF Pages, ToSet
<1>4. \A x : Pages(U, x) = {sources[k].url : k \in {j \in F : sources[j].id = x}}
  <2>1. \A x : Pages(U, x) = {t.url : t \in {u \in {sources[f] : f \in F} : u.id = x}}
    BY <1>2 DEF Pages
  <2> QED BY <2>1
<1>5. CASE /\ \A i \in DOMAIN sources : sources[i].id # id
           /\ Remap(sources, id) = id
  BY <1>2, <1>3, <1>5
<1>6. ASSUME NEW i \in DOMAIN sources, sources[i].id = id,
             Remap(sources, id) = FirstId(sources, sources[i].url)
      PROVE  /\ Pages(sources, id) # {} /\ Remap(sources, id) \in SourceIds(U)
             /\ Pages(U, Remap(sources, id)) = Pages(sources, id)
  <2>1. PICK f \in F : /\ f \in DOMAIN sources /\ sources[f].url = sources[i].url
                       /\ Remap(sources, id) = sources[f].id
    BY <1>1, <1>6, FirstIdFacts
  <2>2. Pages(sources, id) = {sources[i].url}
    BY <1>3, <1>6 DEF Consistent
  <2>3. Pages(U, sources[f].id) = {sources[f].url}
    BY <1>2, <1>4, <2>1 DEF Consistent
  <2> QED BY <1>2, <2>1, <2>2, <2>3
<1> QED BY <1>5, <1>6, RemapFacts

LEMMA SamePages ==
    ASSUME NEW sources, Numbered(sources), Consistent(sources),
           NEW ids, Numbered(ids), NEW r, r = ResolveIds(sources, ids)
    PROVE  /\ PagesOf(UniqueSources(sources), ToSet(r)) = PagesOf(sources, ToSet(ids))
           /\ ToSet(r) # {} <=> PagesOf(sources, ToSet(ids)) # {}
<1>1. PICK U : U = UniqueSources(sources)
  OBVIOUS
<1>2. PICK D : D = ToSet(ids)
  OBVIOUS
<1>3. ToSet(r) = {Remap(sources, i) : i \in D} \cap SourceIds(U)
  BY <1>1, <1>2, ResolvedIds
<1>4. ASSUME NEW i \in D
      PROVE  \/ Pages(sources, i) = {} /\ Remap(sources, i) \notin SourceIds(U)
             \/ /\ Pages(sources, i) # {} /\ Remap(sources, i) \in SourceIds(U)
                /\ Pages(U, Remap(sources, i)) = Pages(sources, i)
  BY <1>1, PageOfNumber
<1>5. PagesOf(U, ToSet(r)) \subseteq PagesOf(sources, D)
  BY <1>3, <1>4 DEF PagesOf
<1>6. PagesOf(sources, D) \subseteq PagesOf(U, ToSet(r))
  BY <1>3, <1>4 DEF PagesOf
<1>7. ToSet(r) # {} <=> PagesOf(sources, D) # {}
  BY <1>3, <1>4 DEF PagesOf
<1> QED BY <1>1, <1>2, <1>5, <1>6, <1>7

\* An event as the coercion leaves it.
IsEvent(e) == e = [ids |-> e.ids, date |-> e.date] /\ Numbered(e.ids)

LEMMA AdmissibleFacts ==
    ASSUME NEW sources, NEW events, Numbered(events),
           \A n \in DOMAIN events : IsEvent(events[n])
    PROVE  ToSet(Admissible(sources, events))
             = {[ids |-> ResolveIds(sources, e.ids), date |-> e.date] :
                   e \in {x \in ToSet(events) : ResolveIds(sources, x.ids) # <<>>}}
<1>1. DOMAIN events = 1..Len(events) /\ Len(events) \in Nat
  BY DEF Numbered
<1>2. PICK resolved : resolved = [n \in DOMAIN events |->
                        [events[n] EXCEPT !.ids = ResolveIds(sources, events[n].ids)]]
  OBVIOUS
<1>3. \A n \in DOMAIN events :
         resolved[n] = [ids |-> ResolveIds(sources, events[n].ids), date |-> events[n].date]
  BY <1>2 DEF IsEvent
<1>4. PICK kept : kept = {n \in DOMAIN events : resolved[n].ids # <<>>}
  OBVIOUS
<1>5. Admissible(sources, events) = Keep(resolved, kept)
  BY <1>2, <1>4 DEF Admissible
<1>6. ToSet(Keep(resolved, kept)) = {resolved[n] : n \in kept}
  BY <1>1, <1>4, KeepFacts
<1>7. ASSUME NEW n \in DOMAIN events
      PROVE  resolved[n].ids = ResolveIds(sources, events[n].ids)
  <2>1. PICK a, d : a = ResolveIds(sources, events[n].ids) /\ d = events[n].date
    OBVIOUS
  <2>2. resolved[n] = [ids |-> a, date |-> d]
    BY <1>3, <2>1
  <2> QED BY <2>1, <2>2
<1>8. kept = {n \in DOMAIN events : ResolveIds(sources, events[n].ids) # <<>>}
  BY <1>4, <1>7
<1>9. ToSet(Admissible(sources, events))
        = {[ids |-> ResolveIds(sources, events[n].ids), date |-> events[n].date] : n \in kept}
  <2>1. {resolved[n] : n \in kept}
          = {[ids |-> ResolveIds(sources, events[n].ids), date |-> events[n].date] : n \in kept}
    BY <1>3, <1>4
  <2> QED BY <2>1, <1>5, <1>6
<1> DEFINE cited == {x \in ToSet(events) : ResolveIds(sources, x.ids) # <<>>}
<1>10. cited = {events[n] : n \in kept}
  BY <1>8 DEF ToSet
<1> HIDE DEF cited
<1>11. {[ids |-> ResolveIds(sources, e.ids), date |-> e.date] : e \in cited}
         = {[ids |-> ResolveIds(sources, events[n].ids), date |-> events[n].date] : n \in kept}
  BY <1>10
<1> QED BY <1>9, <1>11 DEF cited

\* The lists that a raw answer is read as.
LEMMA UsableFacts ==
    ASSUME NEW s, Numbered(s)
    PROVE  /\ Numbered(Usable(s))
           /\ ToSet(Usable(s)) = ToSet(s) \ {Junk}
<1>1. DOMAIN s = 1..Len(s) /\ Len(s) \in Nat
  BY DEF Numbered
<1>2. PICK kept : kept = {i \in DOMAIN s : s[i] # Junk}
  OBVIOUS
<1>3. Numbered(Keep(s, kept)) /\ ToSet(Keep(s, kept)) = {s[i] : i \in kept}
  BY <1>1, <1>2, KeepFacts
<1> QED BY <1>2, <1>3 DEF Usable, ToSet

\* A list with its entries rewritten one by one.
LEMMA RewrittenFacts ==
    ASSUME NEW s, Numbered(s), NEW t, DOMAIN t = DOMAIN s, t = [i \in DOMAIN s |-> t[i]]
    PROVE  Numbered(t)
<1>1. DOMAIN s = 1..Len(s) /\ Len(s) \in Nat
  BY DEF Numbered
<1>2. t \in Seq({t[i] : i \in 1..Len(s)})
  BY <1>1
<1> QED BY <1>1, <1>2 DEF Numbered

LEMMA CoercedSources ==
    ASSUME NEW raw, Numbered(raw)
    PROVE  Numbered(CoerceSources(raw))
<1>1. PICK t : t = [i \in DOMAIN raw |-> CoerceSource(raw[i], i - 1)]
  OBVIOUS
<1>2. Numbered(t)
  BY <1>1, RewrittenFacts
<1> QED BY <1>1, <1>2, UsableFacts DEF CoerceSources

LEMMA IntListFacts ==
    ASSUME NEW ids, Numbered(ids)
    PROVE  Numbered(IntList(ids))
<1>1. DOMAIN ids = 1..Len(ids) /\ Len(ids) \in Nat
  BY DEF Numbered
<1>2. PICK kept : kept = {n \in DOMAIN ids : ids[n] \notin {NoId, Junk}}
  OBVIOUS
<1>3. Numbered(Keep(ids, kept))
  BY <1>1, <1>2, KeepFacts
<1> QED BY <1>2, <1>3, DistinctFacts DEF IntList

LEMMA CoercedEvents ==
    ASSUME NEW raw, Numbered(raw), \A n \in DOMAIN raw : raw[n] # Junk => Numbered(raw[n].ids)
    PROVE  /\ Numbered(CoerceEvents(raw))
           /\ \A e \in ToSet(CoerceEvents(raw)) : IsEvent(e)
<1>1. PICK t : t = [i \in DOMAIN raw |-> CoerceEvent(raw[i])]
  OBVIOUS
<1>2. Numbered(t)
  BY <1>1, RewrittenFacts
<1>3. Numbered(CoerceEvents(raw)) /\ ToSet(CoerceEvents(raw)) = ToSet(t) \ {Junk}
  BY <1>1, <1>2, UsableFacts DEF CoerceEvents
<1>4. ASSUME NEW i \in DOMAIN raw, t[i] # Junk
      PROVE  IsEvent(t[i])
  <2>1. raw[i] # Junk
    BY <1>1, <1>4 DEF CoerceEvent
  <2>2. PICK a, d : a = IntList(raw[i].ids) /\ d = ParseDate(raw[i].date)
    OBVIOUS
  <2>3. t[i] = [ids |-> a, date |-> d]
    BY <1>1, <2>1, <2>2 DEF CoerceEvent
  <2>4. Numbered(a)
    BY <2>1, <2>2, IntListFacts
  <2> QED BY <2>3, <2>4 DEF IsEvent
<1> QED BY <1>1, <1>3, <1>4 DEF ToSet

\* What a validated answer r owes to the lists c that the raw one was read as.
Traced(r, c) ==
    /\ \A e \in ToSet(r.events) :
          e.ids # <<>> /\ ToSet(e.ids) \subseteq SourceIds(r.sources)
    /\ Consistent(c.sources) =>
          {PagesOf(r.sources, ToSet(e.ids)) : e \in ToSet(r.events)}
          = {PagesOf(c.sources, ToSet(e.ids)) : e \in ToSet(c.events)} \ {{}}

\* A remote answer: the events cite the entries listed, and those of their pages.
LEMMA ValidatedEvidence ==
    ASSUME NEW raw \in Answers, NEW r, r = Validate(raw), r # Junk,
           NEW c, c = Coerce(raw)
    PROVE  Traced(r, c)
<1>1. PICK src, evs : /\ src = Take(CoerceSources(raw.sources), MaxSources)
                      /\ evs = Take(CoerceEvents(raw.events), MaxEvents)
  OBVIOUS
<1>2. PICK cov, n, t, s, x :
        c = [coverage |-> cov, notes |-> n, text |-> t, sections |-> s,
             events |-> evs, sources |-> src, examined |-> x]
  BY <1>1 DEF Coerce
<1>3. c.sources = src /\ c.events = evs
  BY <1>2
<1>4. PICK s1, x1 :
        r = [c EXCEPT !.sources = UniqueSources(c.sources),
                      !.events = Admissible(c.sources, c.events),
                      !.sections = s1, !.examined = x1]
  BY DEF Validate
<1>5. r.sources = UniqueSources(src) /\ r.events = Admissible(src, evs)
  <2>1. PICK u, a : u = UniqueSources(src) /\ a = Admissible(src, evs)
    OBVIOUS
  <2>2. r = [c EXCEPT !.sources = u, !.events = a, !.sections = s1, !.examined = x1]
    BY <1>3, <1>4, <2>1
  <2>3. r.sources = u /\ r.events = a
    BY <1>2, <2>2
  <2> QED BY <2>1, <2>3
<1>6. /\ Numbered(raw.sources) /\ Numbered(raw.events)
      /\ \A k \in DOMAIN raw.events : raw.events[k] # Junk => Numbered(raw.events[k].ids)
  BY AnswerAssumption, ListIsNumbered
<1>7. MaxSources \in Nat /\ MaxEvents \in Nat
  BY CapAssumption
<1>8. Numbered(src)
  BY <1>1, <1>6, <1>7, CoercedSources, TakeFacts
<1>9. Numbered(evs) /\ \A k \in DOMAIN evs : IsEvent(evs[k])
  <2>1. PICK all : all = CoerceEvents(raw.events)
    OBVIOUS
  <2>2. Numbered(all) /\ \A e \in ToSet(all) : IsEvent(e)
    BY <1>6, <2>1, CoercedEvents
  <2>3. \A k \in DOMAIN evs : k \in DOMAIN all /\ evs[k] = all[k]
    BY <1>1, <1>7, <2>1, <2>2, TakeFacts
  <2>4. Numbered(evs)
    BY <1>1, <1>7, <2>1, <2>2, TakeFacts
  <2> QED BY <2>2, <2>3, <2>4 DEF ToSet
<1>10. \A e \in ToSet(evs) : IsEvent(e) /\ Numbered(e.ids)
  BY <1>9 DEF ToSet, IsEvent
<1> DEFINE R(e) == ResolveIds(src, e.ids)
<1>11. ToSet(r.events) = {[ids |-> R(e), date |-> e.date] : e \in {y \in ToSet(evs) : R(y) # <<>>}}
  BY <1>5, <1>9, AdmissibleFacts
<1>12. \A e \in ToSet(evs) : /\ Numbered(R(e))
                             /\ ToSet(R(e)) \subseteq SourceIds(UniqueSources(src))
  BY <1>10, ResolvedIds
<1> HIDE DEF R
<1>13. \A f \in ToSet(r.events) : \E e \in ToSet(evs) : f.ids = R(e) /\ R(e) # <<>>
  BY <1>11
<1>14. \A e \in ToSet(evs) : R(e) # <<>> => \E f \in ToSet(r.events) : f.ids = R(e)
  <2> SUFFICES ASSUME NEW e \in ToSet(evs), R(e) # <<>>
               PROVE  \E f \in ToSet(r.events) : f.ids = R(e)
    OBVIOUS
  <2>1. [ids |-> R(e), date |-> e.date] \in ToSet(r.events)
    BY <1>11
  <2>2. [ids |-> R(e), date |-> e.date].ids = R(e)
    OBVIOUS
  <2> QED BY <2>1, <2>2
<1>15. \A f \in ToSet(r.events) :
          f.ids # <<>> /\ ToSet(f.ids) \subseteq SourceIds(r.sources)
  BY <1>5, <1>12, <1>13
<1>16. ASSUME Consistent(src)
       PROVE  {PagesOf(r.sources, ToSet(e.ids)) : e \in ToSet(r.events)}
                = {PagesOf(src, ToSet(e.ids)) : e \in ToSet(evs)} \ {{}}
  <2>1. \A e \in ToSet(evs) :
           /\ PagesOf(r.sources, ToSet(R(e))) = PagesOf(src, ToSet(e.ids))
           /\ ToSet(R(e)) # {} <=> PagesOf(src, ToSet(e.ids)) # {}
    BY <1>5, <1>8, <1>10, <1>16, SamePages DEF R
  <2>2. \A e \in ToSet(evs) : R(e) # <<>> <=> ToSet(R(e)) # {}
    BY <1>12 DEF Numbered, ToSet
  <2>3. ASSUME NEW f \in ToSet(r.events)
        PROVE  PagesOf(r.sources, ToSet(f.ids))
                 \in {PagesOf(src, ToSet(e.ids)) : e \in ToSet(evs)} \ {{}}
    <3>1. PICK e \in ToSet(evs) : f.ids = R(e) /\ R(e) # <<>>
      BY <1>13
    <3> QED BY <3>1, <2>1, <2>2
  <2>4. ASSUME NEW e \in ToSet(evs), PagesOf(src, ToSet(e.ids)) # {}
        PROVE  PagesOf(src, ToSet(e.ids))
                 \in {PagesOf(r.sources, ToSet(f.ids)) : f \in ToSet(r.events)}
    <3>1. PICK f \in ToSet(r.events) : f.ids = R(e)
      BY <1>14, <2>1, <2>2, <2>4
    <3> QED BY <3>1, <2>1
  <2> QED BY <2>3, <2>4
<1> QED BY <1>3, <1>15, <1>16 DEF Traced

\* A local result lists documents that were fetched.
LEMMA AttachedSources ==
    ASSUME NEW r, NEW docs, Numbered(docs), NEW b, b = AttachSources(r, docs),
           "sources" \in DOMAIN r
    PROVE  \A s \in ToSet(b.sources) : s.id + 1 \in DOMAIN docs /\ s.url = docs[s.id + 1].url
<1>1. DOMAIN docs = 1..Len(docs) /\ Len(docs) \in Nat
  BY DEF Numbered
<1>2. PICK numbered : numbered = [n \in DOMAIN docs |-> [id |-> n - 1, url |-> docs[n].url]]
  OBVIOUS
<1>3. PICK cited : cited = {n \in DOMAIN docs : n - 1 \in Cites(r)}
  OBVIOUS
<1>4. PICK k, x : k = Keep(numbered, cited) /\ b = [r EXCEPT !.sources = k, !.examined = x]
  BY <1>2, <1>3 DEF AttachSources
<1>5. b.sources = k
  BY <1>4
<1>6. ToSet(k) = {numbered[n] : n \in cited}
  BY <1>1, <1>3, <1>4, KeepFacts
<1>7. ASSUME NEW n \in DOMAIN docs
      PROVE  numbered[n].id + 1 = n /\ numbered[n].url = docs[n].url
  BY <1>1, <1>2
<1> QED BY <1>3, <1>5, <1>6, <1>7

\* Which candidates are kept is settled from the first to the last.
LEMMA DedupeExists ==
    ASSUME NEW found, Numbered(found)
    PROVE  \E kept \in SUBSET DOMAIN found :
              \A n \in DOMAIN found :
                 n \in kept <=> ~\E m \in kept : m < n /\ Same(found[m], found[n])
<1>1. DOMAIN found = 1..Len(found) /\ Len(found) \in Nat
  BY DEF Numbered
<1> DEFINE Settled0(kept, k) ==
              \A n \in 1..k : n \in kept <=> ~\E m \in kept : m < n /\ Same(found[m], found[n])
<1> DEFINE open == {k \in Nat : ~\E kept \in SUBSET (1..k) : Settled0(kept, k)}
<1>2. ASSUME open # {} PROVE FALSE
  <2>1. PICK k \in open : \A j \in open : k <= j
    BY <1>2, SmallestExists
  <2>2. k # 0
    BY Settled0({}, 0)
  <2>3. k - 1 \in Nat /\ ~(k <= k - 1)
    BY <2>2
  <2>4. PICK kept \in SUBSET (1..(k - 1)) : Settled0(kept, k - 1)
    BY <2>1, <2>3
  <2>5. PICK next : next = IF \E m \in kept : m < k /\ Same(found[m], found[k])
                           THEN kept ELSE kept \cup {k}
    OBVIOUS
  <2>6. \A m \in kept : m \in 1..(k - 1) /\ m < k /\ m # k
    BY <2>3
  <2>7. next \in SUBSET (1..k)
    BY <2>5, <2>6
  <2>8. ASSUME NEW n \in 1..k, n # k
        PROVE  n \in next <=> ~\E m \in next : m < n /\ Same(found[m], found[n])
    <3>1. n \in 1..(k - 1) /\ ~(k < n)
      BY <2>8, <2>3
    <3>2. n \in next <=> n \in kept
      BY <2>5, <2>8
    <3>3. (\E m \in next : m < n /\ Same(found[m], found[n]))
            <=> \E m \in kept : m < n /\ Same(found[m], found[n])
      BY <2>5, <3>1
    <3> QED BY <2>4, <3>1, <3>2, <3>3
  <2>9. k \in next <=> ~\E m \in next : m < k /\ Same(found[m], found[k])
    <3>1. k \notin kept /\ ~(k < k)
      BY <2>6, <2>3
    <3> QED BY <2>5, <3>1
  <2>10. Settled0(next, k)
    BY <2>8, <2>9
  <2> QED BY <2>1, <2>7, <2>10
<1>3. \E kept \in SUBSET (1..Len(found)) : Settled0(kept, Len(found))
  BY <1>1, <1>2
<1> QED BY <1>1, <1>3

LEMMA PreparedFacts ==
    ASSUME NEW found, Numbered(found)
    PROVE  Numbered(Prepare(found))
<1>1. PICK f : f = FilterExcluded(found)
  OBVIOUS
<1>2. Numbered(f)
  <2>1. DOMAIN found = 1..Len(found) /\ Len(found) \in Nat
    BY DEF Numbered
  <2>2. {n \in DOMAIN found : ~found[n].banned} \in SUBSET (1..Len(found))
    BY <2>1
  <2> QED BY <1>1, <2>1, <2>2, KeepFacts DEF FilterExcluded
<1>3. PICK kept \in SUBSET DOMAIN f : DedupeCandidates(f) = Keep(f, kept)
  BY <1>2, DedupeExists DEF DedupeCandidates
<1>4. Numbered(DedupeCandidates(f))
  <2>1. DOMAIN f = 1..Len(f) /\ Len(f) \in Nat
    BY <1>2 DEF Numbered
  <2> QED BY <1>3, <2>1, KeepFacts
<1>5. MaxEvidence \in Nat
  BY AgentAssumption
<1> QED BY <1>1, <1>4, <1>5, TakeFacts DEF Prepare

----------------------------------------------------------------------------
(* The steps.                                                              *)

LEMMA EditKeeps == Inv /\ Edit => Inv'
<1> SUFFICES ASSUME Inv, Edit PROVE Inv'
  OBVIOUS
<1>1. UNCHANGED <<pass, call, usage>> /\ edits' \in 0..MaxEdits
  BY AgentAssumption DEF Edit, Inv, Types
<1>2. \A on, keyed : DOMAIN Settled(on, keyed) = Vendors
                      /\ \A p \in Vendors : Settled(on, keyed)[p].id = 1
  BY DEF Settled
<1>3. RowsAreTyped'
  <2>1. CASE UNCHANGED rows
    BY <2>1 DEF Inv, RowsAreTyped
  <2>2. ASSUME NEW p \in Vendors,
               \/ rows' = Settled(Vendors \ {p}, Vendors)
               \/ rows' = Settled(Vendors, Vendors \ {p})
        PROVE  RowsAreTyped'
    BY <1>2, <2>2 DEF RowsAreTyped
  <2> QED BY <2>1, <2>2 DEF Edit
<1>4. Types' /\ RecordFits' /\ CallFits'
  BY <1>1 DEF Inv, Types, RecordFits, CallFits
<1>5. PlaceFits' /\ NeverBetterThanCollection'
  BY <1>1 DEF Inv, PlaceFits, NeverBetterThanCollection, Remotely
<1>6. SentFits'
  BY <1>1 DEF Inv, SentFits, InCall, Remotely
<1> QED BY <1>3, <1>4, <1>5, <1>6 DEF Inv

\* Before the first call nothing has been sent and nobody waits.
LEMMA BuildAgentKeeps == Inv /\ BuildAgent => Inv'
<1> SUFFICES ASSUME Inv, BuildAgent PROVE Inv'
  OBVIOUS
<1>1. PICK e : e = EngineStatus(rows, choice)
  OBVIOUS
<1>2. PICK p : p = [NewPass EXCEPT !.asked = choice.agent, !.agent = e.agent,
                                   !.provider = e.provider]
  OBVIOUS
<1>3. PICK w : w = pass'
  OBVIOUS
<1>4. w = IF ~e.ready THEN Ends(p)
          ELSE [p EXCEPT !.at = IF e.agent.kind = "local" THEN "load" ELSE "ask"]
  BY <1>1, <1>2, <1>3 DEF BuildAgent
<1>5. UNCHANGED <<rows, call, usage, edits>> /\ call = NoCall
  BY DEF BuildAgent, settings, Inv, CallFits
<1>6. /\ IsPass(p) /\ p.at = "idle" /\ p.agent = e.agent /\ p.provider = e.provider
      /\ p.serves = NoVendor /\ p.asked = choice.agent /\ p.attempt = 0
      /\ p.sent = 0 /\ p.collected = "none"
  BY <1>2 DEF NewPass, IsPass
<1>7. /\ e.agent \in CapableAgents \cup {NoAgent}
      /\ e.provider \in Vendors \cup {NoVendor}
      /\ e.ready => /\ e.agent \in CapableAgents /\ e.agent # NoAgent
                    /\ e.agent.kind = "local" =>
                         e.agent = LocalAgent /\ choice.agent = LocalAgent
  BY <1>1, EngineFacts DEF Inv
<1>8. /\ IsPass(w) /\ w.agent = e.agent /\ w.provider = e.provider
      /\ w.serves = NoVendor /\ w.asked = choice.agent /\ w.attempt = 0
      /\ w.sent = 0 /\ w.collected = "none"
      /\ w.at = IF ~e.ready THEN "failed"
                ELSE IF e.agent.kind = "local" THEN "load" ELSE "ask"
  <2>1. CASE ~e.ready
    BY <2>1, <1>4, <1>6, EndsFacts
  <2>2. CASE e.ready
    BY <2>2, <1>4, <1>6 DEF IsPass
  <2> QED BY <2>1, <2>2
<1>9. Types'
  BY <1>3, <1>5, <1>7, <1>8 DEF Inv, Types, PassPlaces
<1>10. RowsAreTyped' /\ RecordFits' /\ CallFits'
  BY <1>5 DEF Inv, RowsAreTyped, RecordFits, CallFits
<1>11. w.at = "ask" => w.agent # NoAgent /\ w.agent.kind = "remote"
  BY <1>7, <1>8, LocalIsLocal
<1>12. w.at = "load" => w.asked = LocalAgent /\ w.agent = LocalAgent
  BY <1>7, <1>8
<1>13. PlaceFits'
  BY <1>3, <1>8, <1>11, <1>12 DEF PlaceFits, Remotely, OnThisMachine
<1>14. SentFits'
  BY <1>3, <1>5, <1>8, RetriesFact DEF SentFits, InCall
<1>15. NeverBetterThanCollection'
  BY <1>3, <1>8 DEF NeverBetterThanCollection
<1> QED BY <1>9, <1>10, <1>13, <1>14, <1>15 DEF Inv

LEMMA LoadSnapshotKeeps == Inv /\ LoadSnapshot => Inv'
<1> SUFFICES ASSUME Inv, LoadSnapshot PROVE Inv'
  OBVIOUS
<1>1. PICK v : v = IF LlmReady(rows, vault, NoVendor)
                   THEN Resolve(rows, NoVendor) ELSE NoVendor
  OBVIOUS
<1>2. PICK w : w = pass'
  OBVIOUS
<1>3. w = IF LlmReady(rows, vault, route)
          THEN [pass EXCEPT !.at = "plan", !.serves = v] ELSE Ends(pass)
  BY <1>1, <1>2 DEF LoadSnapshot
<1>4. UNCHANGED <<rows, call, usage, edits>> /\ call = NoCall /\ pass.at = "load"
  BY DEF LoadSnapshot, settings, Inv, CallFits
<1>5. v \in Vendors \cup {NoVendor}
  BY <1>1, ResolveIsVendor DEF Inv
<1>6. /\ IsPass(w) /\ w.agent = pass.agent /\ w.provider = pass.provider
      /\ w.serves \in {v, pass.serves} /\ w.asked = pass.asked
      /\ w.attempt = pass.attempt /\ w.sent = pass.sent
      /\ w.collected = pass.collected /\ w.at \in {"plan", "failed"}
  <2>1. CASE LlmReady(rows, vault, route)
    BY <2>1, <1>3 DEF Inv, Types, IsPass
  <2>2. CASE ~LlmReady(rows, vault, route)
    BY <2>2, <1>3, EndsFacts DEF Inv, Types
  <2> QED BY <2>1, <2>2
<1>7. Types'
  BY <1>2, <1>4, <1>5, <1>6 DEF Inv, Types, PassPlaces
<1>8. RowsAreTyped' /\ RecordFits' /\ CallFits'
  BY <1>4 DEF Inv, RowsAreTyped, RecordFits, CallFits
<1>9. PlaceFits'
  BY <1>2, <1>4, <1>6 DEF Inv, PlaceFits, OnThisMachine
<1>10. SentFits'
  BY <1>2, <1>4, <1>6, RetriesFact DEF Inv, SentFits, InCall
<1>11. NeverBetterThanCollection'
  BY <1>2, <1>6 DEF NeverBetterThanCollection
<1> QED BY <1>7, <1>8, <1>9, <1>10, <1>11 DEF Inv

\* Where a pass goes on after its call, and what it takes along.
LEMMA ResumeFacts ==
    ASSUME Inv, pass.at \in {"plan", "analyze"},
           NEW outcome, NEW raw, NEW w, w = Resume(outcome, raw)
    PROVE  /\ IsPass(w) /\ w.agent = pass.agent /\ w.provider = pass.provider
           /\ w.serves = pass.serves /\ w.asked = pass.asked
           /\ w.sent = pass.sent /\ w.collected = pass.collected
           /\ pass.at = "plan" => w.at = "collect" /\ w.attempt = pass.attempt
           /\ pass.at = "analyze" =>
                 \/ w.at = "failed" /\ w.attempt = pass.attempt
                 \/ w.at = "analyze" /\ pass.attempt = 1 /\ w.attempt = 2
                    /\ outcome # "llm"
                 \/ /\ w.at = "attach" /\ w.attempt = pass.attempt
                    /\ w.result = Validate(w.raw) /\ w.result # Junk
<1>1. IsPass(pass)
  BY DEF Inv, Types
<1>2. CASE pass.at = "plan"
  BY <1>1, <1>2 DEF Resume, IsPass
<1>3. CASE pass.at = "analyze"
  <2>1. CASE outcome = "answer" /\ Validate(raw) # Junk
    BY <1>1, <1>3, <2>1 DEF Resume, IsPass
  <2>2. CASE /\ ~(outcome = "answer" /\ Validate(raw) # Junk)
             /\ outcome \in {"answer", "json"} /\ pass.attempt = 1
    BY <1>1, <1>3, <2>2 DEF Resume, IsPass
  <2>3. CASE /\ ~(outcome = "answer" /\ Validate(raw) # Junk)
             /\ ~(outcome \in {"answer", "json"} /\ pass.attempt = 1)
    <3>1. w = Ends(pass)
      BY <1>3, <2>3 DEF Resume
    <3> QED BY <1>1, <1>3, <3>1, EndsFacts
  <2> QED BY <2>1, <2>2, <2>3
<1> QED BY <1>2, <1>3

LEMMA CallModelKeeps == Inv /\ CallModel => Inv'
<1> SUFFICES ASSUME Inv, CallModel PROVE Inv'
  OBVIOUS
<1>1. /\ UNCHANGED <<rows, edits>> /\ call = NoCall
      /\ pass.at \in {"plan", "analyze"}
  BY DEF CallModel, settings
<1>2. RowsAreTyped'
  BY <1>1 DEF Inv, RowsAreTyped
<1>3. CASE pass.serves # NoVendor
  <2>1. PICK k : k = IF pass.at = "plan" THEN Retries ELSE 2
    OBVIOUS
  <2>2. call' = [attempt |-> 1, budget |-> k] /\ UNCHANGED <<pass, usage>>
    BY <1>3, <2>1 DEF CallModel
  <2>3. k \in Nat /\ k >= 1
    BY <2>1, RetriesFact
  <2>4. PICK c : c = call'
    OBVIOUS
  <2>5. c \in Calls /\ c # NoCall /\ c.attempt = 1 /\ c.budget = k
    BY <2>2, <2>3, <2>4 DEF Calls, NoCall
  <2>6. Types'
    BY <1>1, <2>2, <2>4, <2>5 DEF Inv, Types
  <2>7. CallFits'
    BY <1>1, <2>1, <2>2, <2>3, <2>4, <2>5 DEF CallFits
  <2>8. RecordFits' /\ PlaceFits' /\ NeverBetterThanCollection'
    BY <2>2 DEF Inv, RecordFits, PlaceFits, NeverBetterThanCollection, Remotely
  <2>9. SentFits'
    BY <1>1, <2>2, <2>4, <2>5 DEF Inv, SentFits, InCall, Remotely
  <2> QED BY <1>2, <2>6, <2>7, <2>8, <2>9 DEF Inv
<1>4. CASE pass.serves = NoVendor
  <2>1. PICK w : w = pass'
    OBVIOUS
  <2>2. w = Resume("llm", Junk) /\ usage' = NoUsage /\ UNCHANGED call
    BY <1>4, <2>1 DEF CallModel
  <2>3. /\ IsPass(w) /\ w.agent = pass.agent /\ w.provider = pass.provider
        /\ w.serves = pass.serves /\ w.asked = pass.asked
        /\ w.sent = pass.sent /\ w.collected = pass.collected
        /\ w.attempt = pass.attempt
        /\ pass.at = "plan" => w.at = "collect"
        /\ pass.at = "analyze" =>
              \/ w.at = "failed"
              \/ w.at = "attach" /\ w.result = Validate(w.raw) /\ w.result # Junk
    BY <1>1, <2>2, ResumeFacts
  <2>4. Types'
    BY <1>1, <2>1, <2>2, <2>3 DEF Inv, Types, PassPlaces, NoUsage, Usages
  <2>5. RecordFits' /\ CallFits'
    BY <1>1, <2>2 DEF RecordFits, CallFits, NoUsage
  <2>6. PlaceFits'
    BY <1>1, <2>1, <2>3 DEF Inv, PlaceFits, OnThisMachine
  <2>7. Remotely' = Remotely
    BY <2>1, <2>3 DEF Remotely
  <2>8. InCall = 0 /\ pass.attempt \in 0..2 /\ pass.sent \in Nat
    BY <1>1 DEF InCall, Inv, Types
  <2>9. SentFits'
    BY <1>1, <2>1, <2>3, <2>7, <2>8, RetriesFact DEF Inv, SentFits
  <2>10. NeverBetterThanCollection'
    BY <1>1, <2>1, <2>3 DEF NeverBetterThanCollection
  <2> QED BY <1>2, <2>4, <2>5, <2>6, <2>9, <2>10 DEF Inv
<1> QED BY <1>3, <1>4

LEMMA TryAgainKeeps ==
    Inv /\ call # NoCall /\ TryAgain /\ UNCHANGED <<settings, edits>> => Inv'
<1> SUFFICES ASSUME Inv, call # NoCall, TryAgain, UNCHANGED <<settings, edits>>
             PROVE  Inv'
  OBVIOUS
<1>1. PICK c : c = call'
  OBVIOUS
<1>2. PICK w : w = pass'
  OBVIOUS
<1>3. call \in Calls /\ pass.sent \in Nat /\ IsPass(pass) /\ pass.attempt \in 0..2
  BY DEF Inv, Types
<1>4. /\ c \in Calls /\ c.attempt = call.attempt + 1 /\ c.budget = call.budget
      /\ c.attempt <= c.budget
  BY <1>1, <1>3 DEF TryAgain, Calls
<1>5. /\ IsPass(w) /\ w.sent = pass.sent + 1 /\ w.at = pass.at
      /\ w.agent = pass.agent /\ w.provider = pass.provider
      /\ w.serves = pass.serves /\ w.asked = pass.asked
      /\ w.attempt = pass.attempt /\ w.collected = pass.collected
  BY <1>2, <1>3 DEF TryAgain, IsPass
<1>6. UNCHANGED <<rows, edits, usage>>
  BY DEF TryAgain, settings
<1>7. /\ pass.at \in {"plan", "analyze"} /\ call.attempt \in 1..call.budget
      /\ call.budget = IF pass.at = "plan" THEN Retries ELSE 2
  BY DEF Inv, CallFits
<1>8. c # NoCall
  BY <1>4, <1>7, RetriesFact DEF NoCall, Calls
<1>9. RowsAreTyped' /\ RecordFits'
  BY <1>6 DEF Inv, RowsAreTyped, RecordFits
<1>10. Types'
  BY <1>1, <1>2, <1>3, <1>4, <1>5, <1>6 DEF Inv, Types
<1>11. CallFits'
  BY <1>1, <1>2, <1>3, <1>4, <1>5, <1>7 DEF CallFits, Calls
<1>12. PlaceFits'
  BY <1>2, <1>5, <1>7 DEF Inv, PlaceFits, OnThisMachine
<1>13. Remotely' = Remotely /\ ~Remotely
  BY <1>2, <1>5, <1>7, LocalIsLocal DEF Inv, PlaceFits, OnThisMachine, Remotely
<1>14. InCall = call.attempt - 1 /\ InCall' = call.attempt
  BY <1>1, <1>3, <1>4, <1>8 DEF InCall, Calls
<1>15. SentFits'
  <2>1. CASE pass.at = "plan"
    <3>1. w.sent = call.attempt /\ w.sent <= Retries
      BY <1>3, <1>4, <1>5, <1>7, <1>14, <2>1 DEF Inv, SentFits, Calls
    <3> QED BY <1>2, <1>3, <1>5, <1>13, <1>14, <2>1, <3>1, RetriesFact DEF SentFits
  <2>2. CASE pass.at = "analyze"
    <3>1. pass.attempt \in {1, 2} /\ call.attempt = 1 /\ call.budget = 2
      BY <1>3, <1>4, <1>7, <2>2 DEF Inv, PlaceFits, Calls
    <3>2. w.sent <= Retries + 2 * (pass.attempt - 1) + 1
      BY <1>3, <1>5, <1>14, <2>2, <3>1, RetriesFact DEF Inv, SentFits
    <3> QED BY <1>2, <1>3, <1>5, <1>13, <1>14, <2>2, <3>1, <3>2, RetriesFact DEF SentFits
  <2> QED BY <1>7, <2>1, <2>2
<1>16. NeverBetterThanCollection'
  BY <1>2, <1>5, <1>7 DEF NeverBetterThanCollection
<1> QED BY <1>9, <1>10, <1>11, <1>12, <1>15, <1>16 DEF Inv

\* A call that ends leaves a record of at least the requests it sent.
LEMMA ConcludeKeeps ==
    ASSUME Inv, call # NoCall, NEW outcome, NEW raw, Conclude(outcome, raw),
           UNCHANGED <<settings, edits>>
    PROVE  Inv'
<1>1. PICK q : q = Resume(outcome, raw)
  OBVIOUS
<1>2. PICK w : w = pass'
  OBVIOUS
<1>3. PICK u : u = usage'
  OBVIOUS
<1>4. call \in Calls /\ pass.sent \in Nat /\ pass.attempt \in 0..2
  BY DEF Inv, Types
<1>5. /\ pass.at \in {"plan", "analyze"} /\ call.attempt \in 1..call.budget
      /\ call.budget = IF pass.at = "plan" THEN Retries ELSE 2
  BY DEF Inv, CallFits
<1>6. /\ IsPass(q) /\ q.agent = pass.agent /\ q.provider = pass.provider
      /\ q.serves = pass.serves /\ q.asked = pass.asked
      /\ q.sent = pass.sent /\ q.collected = pass.collected
      /\ pass.at = "plan" => q.at = "collect" /\ q.attempt = pass.attempt
      /\ pass.at = "analyze" =>
            \/ q.at = "failed" /\ q.attempt = pass.attempt
            \/ q.at = "analyze" /\ pass.attempt = 1 /\ q.attempt = 2
            \/ /\ q.at = "attach" /\ q.attempt = pass.attempt
               /\ q.result = Validate(q.raw) /\ q.result # Junk
  BY <1>1, <1>5, ResumeFacts
<1>7. w = [q EXCEPT !.sent = q.sent + 1]
  BY <1>1, <1>2 DEF Conclude
<1>8. /\ IsPass(w) /\ w.sent = pass.sent + 1 /\ w.at = q.at
      /\ w.agent = q.agent /\ w.provider = q.provider
      /\ w.serves = q.serves /\ w.asked = q.asked
      /\ w.attempt = q.attempt /\ w.collected = q.collected
      /\ w.raw = q.raw /\ w.result = q.result
  BY <1>6, <1>7 DEF IsPass
<1>9. UNCHANGED <<rows, edits>> /\ call' = NoCall
  BY DEF Conclude, settings
<1>10. /\ u \in Usages /\ u.recorded /\ u.sent = call.attempt
       /\ u.attempts >= u.sent
       /\ u.ok => u.attempts = u.sent
  <2>1. PICK b \in BOOLEAN : b = (outcome = "answer")
    OBVIOUS
  <2>2. PICK k : k = IF outcome = "answer" THEN call.attempt ELSE call.budget
    OBVIOUS
  <2>3. /\ k \in Nat /\ k >= call.attempt
        /\ b => k = call.attempt
    <3>1. b => outcome = "answer"
      BY <2>1, Zenon
    <3>2. call.attempt \in Nat /\ call.budget \in Nat /\ call.attempt <= call.budget
      BY <1>4, <1>5 DEF Calls
    <3> QED BY <2>2, <3>1, <3>2
  <2>4. u = [sent |-> call.attempt, ok |-> b, recorded |-> TRUE, attempts |-> k,
             refused |-> FALSE]
    BY <1>3, <2>1, <2>2 DEF Conclude, Record
  <2> QED BY <1>4, <2>3, <2>4 DEF Usages, Calls
<1>11. RowsAreTyped' /\ RecordFits' /\ CallFits'
  BY <1>3, <1>9, <1>10 DEF Inv, RowsAreTyped, RecordFits, CallFits
<1>12. Types'
  BY <1>2, <1>3, <1>4, <1>5, <1>6, <1>8, <1>9, <1>10
     DEF Inv, Types, PassPlaces, NoCall, Calls
<1>13. PlaceFits'
  <2>1. pass.asked = LocalAgent /\ pass.agent = LocalAgent
    BY <1>5 DEF Inv, PlaceFits, OnThisMachine
  <2>2. pass.at = "analyze" => pass.collected \in {"ok", "partial"}
    BY DEF Inv, PlaceFits
  <2> QED BY <1>2, <1>5, <1>6, <1>8, <2>1, <2>2 DEF PlaceFits, OnThisMachine
<1>14. ~Remotely' /\ InCall' = 0 /\ InCall = call.attempt - 1
  BY <1>2, <1>5, <1>6, <1>8, <1>9, LocalIsLocal
     DEF Inv, PlaceFits, OnThisMachine, Remotely, InCall
<1>15. SentFits'
  <2>1. CASE pass.at = "plan"
    <3>1. w.sent <= Retries /\ w.at = "collect"
      BY <1>4, <1>5, <1>6, <1>8, <1>14, <2>1 DEF Inv, SentFits, Calls
    <3> QED BY <1>2, <1>4, <1>8, <1>14, <3>1, RetriesFact DEF SentFits
  <2>2. CASE pass.at = "analyze"
    <3>1. pass.attempt \in {1, 2} /\ call.attempt \in {1, 2}
      BY <1>4, <1>5, <2>2 DEF Inv, PlaceFits, Calls
    <3>2. w.sent <= Retries + 2 * pass.attempt
      BY <1>4, <1>8, <1>14, <2>2, <3>1, RetriesFact DEF Inv, SentFits
    <3>3. w.sent <= Retries + 4
      BY <1>4, <1>8, <3>1, <3>2, RetriesFact
    <3> QED BY <1>2, <1>6, <1>8, <1>14, <2>2, <3>2, <3>3, RetriesFact DEF SentFits
  <2> QED BY <1>5, <2>1, <2>2
<1>16. NeverBetterThanCollection'
  BY <1>2, <1>5, <1>6, <1>8 DEF NeverBetterThanCollection
<1> QED BY <1>11, <1>12, <1>13, <1>15, <1>16 DEF Inv

LEMMA AttemptKeeps == Inv /\ Attempt => Inv'
BY TryAgainKeeps, ConcludeKeeps DEF Attempt

\* Nothing new is a whole collection only when every source answered.
LEMMA CollectKeeps == Inv /\ Collect => Inv'
<1> SUFFICES ASSUME Inv, Collect PROVE Inv'
  OBVIOUS
<1>1. PICK w : w = pass'
  OBVIOUS
<1>2. PICK found \in Finds, status \in {"ok", "partial", "failed"}, broken \in BOOLEAN :
        LET docs == Prepare(found)
            p == [pass EXCEPT !.found = docs, !.collected = status, !.broken = broken]
        IN  /\ status = "ok" \/ broken
            /\ status = "failed" => found = <<>>
            /\ w = IF status = "failed" THEN Ends(p)
                   ELSE IF docs = <<>>
                   THEN [p EXCEPT !.at = "done", !.result = FoundNothing(status)]
                   ELSE [p EXCEPT !.at = "analyze", !.attempt = 1]
  BY <1>1 DEF Collect
<1>3. PICK docs : docs = Prepare(found)
  OBVIOUS
<1>4. PICK p : p = [pass EXCEPT !.found = docs, !.collected = status, !.broken = broken]
  OBVIOUS
<1>5. w = IF status = "failed" THEN Ends(p)
          ELSE IF docs = <<>>
          THEN [p EXCEPT !.at = "done", !.result = FoundNothing(status)]
          ELSE [p EXCEPT !.at = "analyze", !.attempt = 1]
  BY <1>2, <1>3, <1>4
<1>6. /\ pass.at = "collect" /\ call = NoCall
      /\ UNCHANGED <<rows, call, usage, edits>>
  BY DEF Collect, settings, Inv, CallFits
<1>7. /\ IsPass(p) /\ p.agent = pass.agent /\ p.provider = pass.provider
      /\ p.serves = pass.serves /\ p.asked = pass.asked /\ p.sent = pass.sent
      /\ p.attempt = pass.attempt /\ p.collected = status /\ p.found = docs
  BY <1>4 DEF Inv, Types, IsPass
<1>8. /\ IsPass(w) /\ w.agent = pass.agent /\ w.provider = pass.provider
      /\ w.serves = pass.serves /\ w.asked = pass.asked /\ w.sent = pass.sent
      /\ w.attempt \in {pass.attempt, 1} /\ w.collected = status
      /\ \/ w.at = "failed"
         \/ /\ w.at = "done" /\ w.found = <<>> /\ w.result = FoundNothing(status)
            /\ status # "failed"
         \/ w.at = "analyze" /\ w.attempt = 1 /\ status \in {"ok", "partial"}
  <2>1. CASE status = "failed"
    BY <2>1, <1>5, <1>7, EndsFacts
  <2>2. CASE status # "failed" /\ docs = <<>>
    BY <2>2, <1>5, <1>7 DEF IsPass
  <2>3. CASE status # "failed" /\ docs # <<>>
    BY <2>3, <1>5, <1>7 DEF IsPass
  <2> QED BY <2>1, <2>2, <2>3
<1>9. RowsAreTyped' /\ RecordFits' /\ CallFits'
  BY <1>6 DEF Inv, RowsAreTyped, RecordFits, CallFits
<1>10. Types'
  BY <1>1, <1>6, <1>8 DEF Inv, Types, PassPlaces
<1>11. pass.asked = LocalAgent /\ pass.agent = LocalAgent /\ ~Remotely
  BY <1>6, LocalIsLocal DEF Inv, PlaceFits, OnThisMachine, Remotely
<1>12. PlaceFits'
  BY <1>1, <1>8, <1>11 DEF PlaceFits, OnThisMachine
<1>13. ~Remotely' /\ InCall' = 0
  BY <1>1, <1>6, <1>8, <1>11 DEF Remotely, InCall
<1>14. pass.sent <= Retries /\ pass.sent \in Nat
  BY <1>6 DEF Inv, SentFits, Types
<1>15. SentFits'
  BY <1>1, <1>8, <1>13, <1>14, RetriesFact DEF SentFits
<1>16. NeverBetterThanCollection'
  <2>1. FoundNothing(status).coverage = "complete" => status # "partial"
    BY DEF FoundNothing
  <2> QED BY <1>1, <1>8, <2>1 DEF NeverBetterThanCollection
<1> QED BY <1>9, <1>10, <1>12, <1>15, <1>16 DEF Inv

LEMMA AttachKeeps == Inv /\ Attach => Inv'
<1> SUFFICES ASSUME Inv, Attach PROVE Inv'
  OBVIOUS
<1>1. PICK w : w = pass'
  OBVIOUS
<1>2. PICK r : r = pass.result
  OBVIOUS
<1>3. PICK raw : raw = pass.raw
  OBVIOUS
<1>4. PICK a : a = ApplyCollectionCoverage(AttachSources(r, pass.found))
  OBVIOUS
<1>5. w = [pass EXCEPT !.at = "done", !.result = a]
  BY <1>1, <1>2, <1>4 DEF Attach
<1>6. /\ pass.at = "attach" /\ call = NoCall
      /\ UNCHANGED <<rows, call, usage, edits>>
  BY DEF Attach, settings, Inv, CallFits
<1>7. /\ IsPass(w) /\ w.agent = pass.agent /\ w.provider = pass.provider
      /\ w.serves = pass.serves /\ w.asked = pass.asked /\ w.sent = pass.sent
      /\ w.attempt = pass.attempt /\ w.collected = pass.collected
      /\ w.broken = pass.broken /\ w.raw = raw /\ w.at = "done" /\ w.result = a
  BY <1>3, <1>5 DEF Inv, Types, IsPass
<1>8. RowsAreTyped' /\ RecordFits' /\ CallFits'
  BY <1>6 DEF Inv, RowsAreTyped, RecordFits, CallFits
<1>9. Types'
  BY <1>1, <1>6, <1>7 DEF Inv, Types, PassPlaces
<1>10. /\ pass.asked = LocalAgent /\ pass.agent = LocalAgent /\ ~Remotely
       /\ pass.collected \in {"ok", "partial"} /\ r = Validate(raw) /\ r # Junk
  BY <1>2, <1>3, <1>6, LocalIsLocal DEF Inv, PlaceFits, OnThisMachine, Remotely
<1>11. PlaceFits'
  BY <1>1, <1>7, <1>10 DEF PlaceFits, OnThisMachine
<1>12. ~Remotely' /\ pass.sent <= Retries + 4
  BY <1>1, <1>6, <1>7, <1>10 DEF Remotely, Inv, SentFits
<1>13. SentFits'
  BY <1>1, <1>7, <1>12 DEF SentFits
<1>14. a.coverage = "complete" =>
         /\ CleanStatus(raw.coverage) = "complete"
         /\ pass.collected # "partial" /\ ~pass.broken
  BY <1>4, <1>10, AttachedCoverage
<1>15. NeverBetterThanCollection'
  BY <1>1, <1>7, <1>10, <1>14 DEF NeverBetterThanCollection
<1> QED BY <1>8, <1>9, <1>11, <1>13, <1>15 DEF Inv

\* A remote agent asks twice at most.
LEMMA AskVendorKeeps == Inv /\ AskVendor => Inv'
<1> SUFFICES ASSUME Inv, AskVendor PROVE Inv'
  OBVIOUS
<1>1. PICK w : w = pass'
  OBVIOUS
<1>2. PICK u : u = usage'
  OBVIOUS
<1>3. /\ pass.at = "ask" /\ call = NoCall /\ UNCHANGED <<rows, call, edits>>
  BY DEF AskVendor, settings, Inv, CallFits
<1>4. /\ IsPass(pass) /\ pass.attempt \in 0..1 /\ pass.sent = pass.attempt /\ Remotely
      /\ usage \in Usages
  BY <1>3 DEF Inv, Types, PlaceFits, SentFits
<1>5. pass.collected = "none"
  BY <1>4, LocalIsLocal DEF Inv, PlaceFits, Remotely
<1> DEFINE Moved ==
      /\ IsPass(w) /\ w.agent = pass.agent /\ w.provider = pass.provider
      /\ w.serves = pass.serves /\ w.asked = pass.asked /\ w.sent = pass.sent + 1
      /\ w.collected = pass.collected
      /\ \/ w.at \in {"done", "failed"} /\ w.attempt = pass.attempt
         \/ w.at = "ask" /\ pass.attempt = 0 /\ w.attempt = 1
<1> DEFINE Counted ==
      /\ u \in Usages
      /\ u.recorded \/ u.refused
      /\ u.recorded => u.attempts >= u.sent
      /\ u.ok => u.attempts = u.sent
<1>6. ASSUME Refuse PROVE Moved /\ Counted
  <2>1. PICK p : p = [pass EXCEPT !.sent = pass.sent + 1]
    OBVIOUS
  <2>2. /\ IsPass(p) /\ p.sent = pass.sent + 1 /\ p.agent = pass.agent
        /\ p.provider = pass.provider /\ p.serves = pass.serves
        /\ p.asked = pass.asked /\ p.attempt = pass.attempt
        /\ p.collected = pass.collected
    BY <1>4, <2>1 DEF IsPass
  <2>3. w = Ends(p)
    BY <1>1, <1>6, <2>1 DEF Refuse
  <2>4. Moved
    BY <2>2, <2>3, EndsFacts
  <2>5. u = [sent |-> pass.attempt + 1, ok |-> FALSE, recorded |-> FALSE,
             attempts |-> 0, refused |-> TRUE]
    BY <1>2, <1>6 DEF Refuse, NoUsage
  <2>6. Counted
    BY <1>4, <2>5 DEF Usages
  <2> QED BY <2>4, <2>6
<1>7. ASSUME Unreachable PROVE Moved /\ Counted
  <2>1. PICK p : p = [pass EXCEPT !.sent = pass.sent + 1]
    OBVIOUS
  <2>2. /\ IsPass(p) /\ p.sent = pass.sent + 1 /\ p.agent = pass.agent
        /\ p.provider = pass.provider /\ p.serves = pass.serves
        /\ p.asked = pass.asked /\ p.attempt = pass.attempt
        /\ p.collected = pass.collected
    BY <1>4, <2>1 DEF IsPass
  <2>3. w = Ends(p)
    BY <1>1, <1>7, <2>1 DEF Unreachable
  <2>4. Moved
    BY <2>2, <2>3, EndsFacts
  <2>5. u = [sent |-> pass.attempt + 1, ok |-> FALSE, recorded |-> TRUE,
             attempts |-> 2, refused |-> FALSE]
    BY <1>2, <1>7 DEF Unreachable, Record
  <2>6. Counted
    BY <1>4, <2>5 DEF Usages
  <2> QED BY <2>4, <2>6
<1>8. ASSUME Unusable PROVE Moved /\ (Counted \/ UNCHANGED usage)
  <2>1. CASE pass.attempt = 0
    <3>1. w = [pass EXCEPT !.attempt = 1, !.sent = pass.sent + 1] /\ UNCHANGED usage
      BY <1>1, <1>8, <2>1 DEF Unusable
    <3> QED BY <1>3, <1>4, <2>1, <3>1 DEF IsPass
  <2>2. CASE pass.attempt # 0
    BY <1>7, <1>8, <2>2 DEF Unusable
  <2> QED BY <2>1, <2>2
<1>9. ASSUME NEW raw, NEW searched, Answer(raw, searched)
      PROVE  Moved /\ (Counted \/ UNCHANGED usage)
  <2>1. CASE ~searched /\ pass.provider \in Checked
    BY <1>6, <1>9, <2>1 DEF Answer
  <2>2. CASE ~(~searched /\ pass.provider \in Checked) /\ Validate(raw) = Junk
    BY <1>8, <1>9, <2>2 DEF Answer
  <2>3. CASE ~(~searched /\ pass.provider \in Checked) /\ Validate(raw) # Junk
    <3>1. PICK r : r = Validate(raw)
      OBVIOUS
    <3>2. w = [pass EXCEPT !.at = "done", !.sent = pass.sent + 1, !.raw = raw, !.result = r]
      BY <1>1, <1>9, <2>3, <3>1 DEF Answer
    <3>3. Moved
      BY <1>4, <3>2 DEF IsPass
    <3>4. u = [sent |-> pass.attempt + 1, ok |-> TRUE, recorded |-> TRUE,
               attempts |-> pass.attempt + 1, refused |-> FALSE]
      BY <1>2, <1>9, <2>3 DEF Answer, Record
    <3>5. Counted
      BY <1>4, <3>4 DEF Usages
    <3> QED BY <3>3, <3>5
  <2> QED BY <2>1, <2>2, <2>3
<1>10. Moved /\ (Counted \/ UNCHANGED usage)
  BY <1>6, <1>7, <1>8, <1>9 DEF AskVendor
<1>11. RowsAreTyped' /\ CallFits'
  BY <1>3 DEF Inv, RowsAreTyped, CallFits
<1>12. RecordFits' /\ usage' \in Usages
  BY <1>2, <1>10 DEF Inv, RecordFits, Types
<1>13. Types'
  BY <1>1, <1>3, <1>4, <1>10, <1>12 DEF Inv, Types, PassPlaces
<1>14. Remotely'
  BY <1>1, <1>4, <1>10 DEF Remotely
<1>15. PlaceFits'
  BY <1>1, <1>5, <1>10, <1>14 DEF PlaceFits, OnThisMachine
<1>16. SentFits'
  BY <1>1, <1>4, <1>10, <1>14 DEF SentFits
<1>17. NeverBetterThanCollection'
  BY <1>14 DEF NeverBetterThanCollection
<1> QED BY <1>11, <1>12, <1>13, <1>15, <1>16, <1>17 DEF Inv

----------------------------------------------------------------------------
(* Evidence, from step to step.                                            *)

\* What was found is a list, and a finished pass can show its evidence.
EvidenceFits == Numbered(pass.found) /\ EvidenceIsReal

\* A step that neither finds anything nor finishes.
LEMMA GoesOn ==
    ASSUME EvidenceFits, pass'.found = pass.found, pass'.at # "done"
    PROVE  EvidenceFits'
BY DEF EvidenceFits, EvidenceIsReal

LEMMA SamePassEvidence == EvidenceFits /\ UNCHANGED pass => EvidenceFits'
BY DEF EvidenceFits, EvidenceIsReal, Remotely

LEMMA BeginningKeepsEvidence ==
    Inv /\ EvidenceFits /\ (BuildAgent \/ LoadSnapshot) => EvidenceFits'
<1> SUFFICES ASSUME Inv, EvidenceFits, BuildAgent \/ LoadSnapshot
             PROVE  pass'.found = pass.found /\ pass'.at # "done"
  BY GoesOn
<1>1. PICK w : w = pass'
  OBVIOUS
<1>2. CASE BuildAgent
  <2>1. PICK e : e = EngineStatus(rows, choice)
    OBVIOUS
  <2>2. PICK p : p = [NewPass EXCEPT !.asked = choice.agent, !.agent = e.agent,
                                     !.provider = e.provider]
    OBVIOUS
  <2>3. PICK k : k = IF e.agent.kind = "local" THEN "load" ELSE "ask"
    OBVIOUS
  <2>4. w = IF ~e.ready THEN Ends(p) ELSE [p EXCEPT !.at = k]
    BY <1>1, <1>2, <2>1, <2>2, <2>3 DEF BuildAgent
  <2>5. pass.found = <<>> /\ IsPass(p) /\ p.found = <<>>
    <3>1. pass = NewPass
      BY <1>2 DEF BuildAgent, Inv, PlaceFits
    <3>2. pass.found = <<>>
      BY <3>1 DEF NewPass
    <3> QED BY <2>2, <3>2 DEF NewPass, IsPass
  <2>6. w.found = <<>> /\ w.at # "done"
    BY <2>3, <2>4, <2>5 DEF Ends, IsPass
  <2> QED BY <1>1, <2>5, <2>6
<1>3. CASE LoadSnapshot
  <2>1. PICK v : v = IF LlmReady(rows, vault, NoVendor)
                     THEN Resolve(rows, NoVendor) ELSE NoVendor
    OBVIOUS
  <2>2. w = [pass EXCEPT !.at = "plan", !.serves = v] \/ w = Ends(pass)
    BY <1>1, <1>3, <2>1 DEF LoadSnapshot
  <2>3. w.found = pass.found /\ w.at # "done"
    BY <2>2 DEF Inv, Types, IsPass, Ends
  <2> QED BY <1>1, <2>3
<1> QED BY <1>2, <1>3

LEMMA CallsKeepEvidence ==
    Inv /\ EvidenceFits /\ (CallModel \/ Attempt) => EvidenceFits'
<1> SUFFICES ASSUME Inv, EvidenceFits, CallModel \/ Attempt
             PROVE  EvidenceFits'
  OBVIOUS
<1>1. PICK w : w = pass'
  OBVIOUS
<1>2. IsPass(pass) /\ pass.at \in {"plan", "analyze"}
  BY DEF Inv, Types, CallFits, CallModel, Attempt
<1>3. ASSUME NEW outcome, NEW raw, NEW q, q = Resume(outcome, raw)
      PROVE  IsPass(q) /\ q.found = pass.found /\ q.at # "done"
  <2>1. PICK r : r = Validate(raw)
    OBVIOUS
  <2>2. \/ q = [pass EXCEPT !.at = "collect"]
        \/ q = [pass EXCEPT !.at = "attach", !.raw = raw, !.result = r]
        \/ q = [pass EXCEPT !.attempt = 2] \/ q = Ends(pass)
    BY <1>3, <2>1 DEF Resume
  <2> QED BY <1>2, <2>2 DEF IsPass, Ends
<1>4. CASE UNCHANGED pass
  BY <1>4, SamePassEvidence
<1>5. ASSUME NEW outcome, NEW raw, Conclude(outcome, raw) PROVE EvidenceFits'
  <2>1. PICK q : q = Resume(outcome, raw)
    OBVIOUS
  <2>2. w = [q EXCEPT !.sent = q.sent + 1]
    BY <1>1, <1>5, <2>1 DEF Conclude
  <2>3. w.found = pass.found /\ w.at # "done"
    BY <1>3, <2>1, <2>2 DEF IsPass
  <2> QED BY <1>1, <2>3, GoesOn
<1>6. CASE TryAgain
  <2>1. w = [pass EXCEPT !.sent = pass.sent + 1]
    BY <1>1, <1>6 DEF TryAgain
  <2>2. w.found = pass.found /\ w.at # "done"
    BY <1>2, <2>1 DEF IsPass
  <2> QED BY <1>1, <2>2, GoesOn
<1>7. CASE pass' = Resume("llm", Junk)
  BY <1>3, <1>7, GoesOn
<1> QED BY <1>4, <1>5, <1>6, <1>7 DEF CallModel, Attempt

LEMMA CollectKeepsEvidence == Inv /\ EvidenceFits /\ Collect => EvidenceFits'
<1> SUFFICES ASSUME Inv, EvidenceFits, Collect PROVE EvidenceFits'
  OBVIOUS
<1>1. PICK w : w = pass'
  OBVIOUS
<1>2. PICK found \in Finds, status \in {"ok", "partial", "failed"}, broken \in BOOLEAN :
        LET docs == Prepare(found)
            p == [pass EXCEPT !.found = docs, !.collected = status, !.broken = broken]
        IN  w = IF status = "failed" THEN Ends(p)
                ELSE IF docs = <<>>
                THEN [p EXCEPT !.at = "done", !.result = FoundNothing(status)]
                ELSE [p EXCEPT !.at = "analyze", !.attempt = 1]
  BY <1>1 DEF Collect
<1>3. PICK docs : docs = Prepare(found)
  OBVIOUS
<1>4. PICK p : p = [pass EXCEPT !.found = docs, !.collected = status, !.broken = broken]
  OBVIOUS
<1>5. PICK nothing : nothing = FoundNothing(status)
  OBVIOUS
<1>6. \/ w = Ends(p)
      \/ w = [p EXCEPT !.at = "done", !.result = nothing]
      \/ w = [p EXCEPT !.at = "analyze", !.attempt = 1]
  BY <1>2, <1>3, <1>4, <1>5
<1>7. IsPass(p) /\ p.found = docs /\ p.agent = pass.agent
  BY <1>4 DEF Inv, Types, IsPass
<1>8. /\ w.found = docs /\ w.agent = pass.agent
      /\ w.at = "done" => w.result = nothing
  BY <1>6, <1>7 DEF IsPass, Ends
<1>9. Numbered(docs)
  BY <1>3, AnswerAssumption, ListIsNumbered, PreparedFacts
<1>10. ~Remotely
  BY LocalIsLocal DEF Collect, Inv, PlaceFits, OnThisMachine, Remotely
<1>11. ~Remotely'
  BY <1>1, <1>8, <1>10 DEF Remotely
<1>12. nothing.sources = <<>>
  BY <1>5 DEF FoundNothing
<1>13. ToSet(nothing.sources) = {}
  BY <1>12 DEF ToSet
<1>14. EvidenceIsReal'
  BY <1>1, <1>8, <1>11, <1>13 DEF EvidenceIsReal
<1> QED BY <1>1, <1>8, <1>9, <1>14 DEF EvidenceFits

LEMMA AttachKeepsEvidence == Inv /\ EvidenceFits /\ Attach => EvidenceFits'
<1> SUFFICES ASSUME Inv, EvidenceFits, Attach PROVE EvidenceFits'
  OBVIOUS
<1>1. PICK w : w = pass'
  OBVIOUS
<1>2. PICK r : r = pass.result
  OBVIOUS
<1>3. PICK docs : docs = pass.found
  OBVIOUS
<1>4. PICK b : b = AttachSources(r, docs)
  OBVIOUS
<1>5. PICK a : a = ApplyCollectionCoverage(b)
  OBVIOUS
<1>6. w = [pass EXCEPT !.at = "done", !.result = a] /\ pass.at = "attach"
  BY <1>1, <1>2, <1>3, <1>4, <1>5 DEF Attach
<1>7. w.found = docs /\ w.agent = pass.agent /\ w.result = a
  BY <1>3, <1>6 DEF Inv, Types, IsPass
<1>8. ~Remotely /\ r = Validate(pass.raw) /\ r # Junk
  BY <1>2, <1>6, LocalIsLocal DEF Inv, PlaceFits, OnThisMachine, Remotely
<1>9. ~Remotely'
  BY <1>1, <1>7, <1>8 DEF Remotely
<1>10. PICK raw : raw = pass.raw
  OBVIOUS
<1>11. "sources" \in DOMAIN r
  <2>1. r = Validate(raw) /\ r # Junk
    BY <1>8, <1>10
  <2>2. PICK n, t, s, e, src, x :
          r = [coverage |-> CleanStatus(raw.coverage), notes |-> n, text |-> t,
               sections |-> s, events |-> e, sources |-> src, examined |-> x]
    BY <2>1, ValidatedCoverage
  <2> QED BY <2>2
<1>12. Numbered(docs)
  BY <1>3 DEF EvidenceFits
<1>13. \A y \in ToSet(b.sources) : y.id + 1 \in DOMAIN docs /\ y.url = docs[y.id + 1].url
  BY <1>4, <1>11, <1>12, AttachedSources
<1>14. a.sources = b.sources
  <2>1. PICK v : a = [b EXCEPT !.coverage = v]
    BY <1>5 DEF ApplyCollectionCoverage
  <2>2. PICK k, y : b = [r EXCEPT !.sources = k, !.examined = y]
    BY <1>4 DEF AttachSources
  <2>3. "sources" \in DOMAIN b
    BY <1>11, <2>2
  <2> QED BY <2>1, <2>3
<1>15. EvidenceIsReal'
  BY <1>1, <1>7, <1>9, <1>13, <1>14 DEF EvidenceIsReal
<1> QED BY <1>1, <1>7, <1>12, <1>15 DEF EvidenceFits

LEMMA AskVendorKeepsEvidence == Inv /\ EvidenceFits /\ AskVendor => EvidenceFits'
<1> SUFFICES ASSUME Inv, EvidenceFits, AskVendor PROVE EvidenceFits'
  OBVIOUS
<1>1. PICK w : w = pass'
  OBVIOUS
<1>2. IsPass(pass) /\ pass.at = "ask" /\ Remotely
  BY DEF AskVendor, Inv, Types, PlaceFits
<1>3. CASE Refuse \/ Unreachable
  <2>1. PICK p : p = [pass EXCEPT !.sent = pass.sent + 1]
    OBVIOUS
  <2>2. w = Ends(p) /\ IsPass(p) /\ p.found = pass.found
    BY <1>1, <1>2, <1>3, <2>1 DEF Refuse, Unreachable, IsPass
  <2>3. w.found = pass.found /\ w.at # "done"
    BY <2>2 DEF IsPass, Ends
  <2> QED BY <1>1, <2>3, GoesOn
<1>4. CASE Unusable
  <2>1. CASE pass.attempt = 0
    <3>1. w = [pass EXCEPT !.attempt = 1, !.sent = pass.sent + 1]
      BY <1>1, <1>4, <2>1 DEF Unusable
    <3>2. w.found = pass.found /\ w.at # "done"
      BY <1>2, <3>1 DEF IsPass
    <3> QED BY <1>1, <3>2, GoesOn
  <2>2. CASE pass.attempt # 0
    BY <1>3, <1>4, <2>2 DEF Unusable
  <2> QED BY <2>1, <2>2
<1>5. ASSUME NEW raw \in Answers, NEW searched, Answer(raw, searched)
      PROVE  EvidenceFits'
  <2>1. CASE (~searched /\ pass.provider \in Checked) \/ Validate(raw) = Junk
    BY <1>3, <1>4, <1>5, <2>1 DEF Answer
  <2>2. CASE ~(~searched /\ pass.provider \in Checked) /\ Validate(raw) # Junk
    <3>1. PICK r : r = Validate(raw)
      OBVIOUS
    <3>2. w = [pass EXCEPT !.at = "done", !.sent = pass.sent + 1, !.raw = raw, !.result = r]
      BY <1>1, <1>5, <2>2, <3>1 DEF Answer
    <3>3. /\ w.found = pass.found /\ w.agent = pass.agent
          /\ w.raw = raw /\ w.result = r
      BY <1>2, <3>2 DEF IsPass
    <3>4. PICK c : c = Coerce(raw)
      OBVIOUS
    <3>5. Traced(r, c)
      BY <2>2, <3>1, <3>4, ValidatedEvidence
    <3>6. Remotely'
      BY <1>1, <1>2, <3>3 DEF Remotely
    <3>7. EvidenceIsReal'
      BY <1>1, <3>3, <3>4, <3>5, <3>6 DEF EvidenceIsReal, Traced
    <3> QED BY <1>1, <3>3, <3>7 DEF EvidenceFits
  <2> QED BY <2>1, <2>2
<1> QED BY <1>3, <1>4, <1>5 DEF AskVendor

----------------------------------------------------------------------------
(* The theorems.                                                           *)

LEMMA InitInv == Init => Inv
<1> SUFFICES ASSUME Init PROVE Inv
  OBVIOUS
<1>1. RowsAreTyped
  BY DEF Init, Settled, RowsAreTyped
<1>2. PICK p : p = NewPass
  OBVIOUS
<1>3. /\ IsPass(p) /\ p.at = "idle" /\ p.agent = NoAgent /\ p.provider = NoVendor
      /\ p.serves = NoVendor /\ p.attempt = 0 /\ p.sent = 0 /\ p.collected = "none"
  BY <1>2, NewPassIsPass DEF NewPass
<1>4. pass = p /\ call = NoCall /\ usage = NoUsage /\ edits = 0
  BY <1>2 DEF Init
<1>5. NoUsage \in Usages /\ NoUsage.sent = 0 /\ NoCall \in Calls
  BY DEF NoUsage, Usages, NoCall, Calls
<1>6. Types
  BY <1>3, <1>4, <1>5, AgentAssumption DEF Types, PassPlaces
<1>7. RecordFits /\ CallFits /\ NeverBetterThanCollection
  BY <1>3, <1>4, <1>5 DEF RecordFits, CallFits, NeverBetterThanCollection
<1>8. PlaceFits
  BY <1>2, <1>3, <1>4 DEF PlaceFits, OnThisMachine
<1>9. SentFits
  BY <1>3, <1>4, RetriesFact DEF SentFits
<1> QED BY <1>1, <1>6, <1>7, <1>8, <1>9 DEF Inv

LEMMA StutterInv == Inv /\ UNCHANGED vars => Inv'
<1> SUFFICES ASSUME Inv, UNCHANGED vars PROVE Inv'
  OBVIOUS
<1>1. UNCHANGED <<rows, pass, call, usage, edits>>
  BY DEF vars, settings
<1>2. RowsAreTyped' /\ Types' /\ RecordFits' /\ CallFits'
  BY <1>1 DEF Inv, RowsAreTyped, Types, RecordFits, CallFits
<1>3. PlaceFits' /\ NeverBetterThanCollection'
  BY <1>1 DEF Inv, PlaceFits, NeverBetterThanCollection, Remotely
<1>4. SentFits'
  BY <1>1 DEF Inv, SentFits, InCall, Remotely
<1> QED BY <1>2, <1>3, <1>4 DEF Inv

\* The inductive invariant: where the pass is tells whose agent it has, what it
\* has gathered and how many requests it can have sent by then.
THEOREM AgentInvariant == AgentSpec => []Inv
<1>1. Init => Inv
  BY InitInv
<1>2. Inv /\ [Next]_vars => Inv'
  BY EditKeeps, BuildAgentKeeps, LoadSnapshotKeeps, CallModelKeeps, AttemptKeeps,
     CollectKeeps, AttachKeeps, AskVendorKeeps, StutterInv DEF Next
<1> QED BY <1>1, <1>2, PTL DEF AgentSpec

\* Types of the state.
THEOREM AgentTypes == AgentSpec => []TypeOK
<1>1. Inv => TypeOK
  BY DEF Inv, Types, CallFits, TypeOK, PassPlaces, NoCall, Calls
<1> QED BY <1>1, AgentInvariant, PTL

\* The usage page never undercounts, and a pass sends no more requests than
\* its attempts allow (llm/base.py, web_agents.py).
THEOREM UsageNeverUndercounts == AgentSpec => []UsageAgrees
<1>1. Inv => UsageAgrees
  BY DEF Inv, RecordFits, SentFits, UsageAgrees
<1> QED BY <1>1, AgentInvariant, PTL

\* Collectors run on this machine only for a user who chose the local engine,
\* whatever is switched off while the pass runs (catalog.py).
THEOREM LocalWorkIsAskedFor == AgentSpec => []LocalOnlyWhenAsked
<1>1. Inv => LocalOnlyWhenAsked
  BY DEF Inv, PlaceFits, OnThisMachine, LocalOnlyWhenAsked
<1> QED BY <1>1, AgentInvariant, PTL

\* A local result never claims more than its collection: complete only when
\* nothing it looked at broke and the model said so (local_agent.py).
THEOREM VerdictIsTheWorse == AgentSpec => []NeverBetterThanCollection
<1>1. Inv => NeverBetterThanCollection
  BY DEF Inv
<1> QED BY <1>1, AgentInvariant, PTL
\* Evidence can be traced: an event of a remote answer cites pages that the
\* result lists, the very pages its numbers stood for; a local result lists
\* documents that were fetched (contract.py, local_agent.py).
THEOREM EvidenceCanBeTraced == AgentSpec => []EvidenceIsReal
<1>1. Init => EvidenceFits
  BY DEF Init, NewPass, EvidenceFits, EvidenceIsReal, Numbered
<1>2. Inv /\ EvidenceFits /\ [Next]_vars => EvidenceFits'
  <2> SUFFICES ASSUME Inv, EvidenceFits, [Next]_vars PROVE EvidenceFits'
    OBVIOUS
  <2>1. CASE Edit \/ UNCHANGED vars
    BY <2>1, SamePassEvidence DEF Edit, vars
  <2> QED BY <2>1, BeginningKeepsEvidence, CallsKeepEvidence, CollectKeepsEvidence,
             AttachKeepsEvidence, AskVendorKeepsEvidence DEF Next
<1>3. EvidenceFits => EvidenceIsReal
  BY DEF EvidenceFits
<1> QED BY <1>1, <1>2, <1>3, AgentInvariant, PTL DEF AgentSpec
=============================================================================
