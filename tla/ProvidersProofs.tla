---------------------------- MODULE ProvidersProofs ----------------------------
(***************************************************************************)
(* Proofs about Providers for any set of vendors, keys, tasks and workers, *)
(* any number of requests and of faults.                                   *)
(***************************************************************************)
EXTENDS Providers, FiniteSetTheorems, WellFoundedInduction, TLAPS

-----------------------------------------------------------------------------
(* The tables of providers.                                                 *)

Tables == UNION {[D -> Row] : D \in SUBSET Vendors}

LEMMA TableFacts ==
    ASSUME NEW rs \in Tables
    PROVE  /\ DOMAIN rs \subseteq Vendors
           /\ rs \in [DOMAIN rs -> Row]
           /\ \A p \in DOMAIN rs : rs[p] \in Row
BY DEF Tables

LEMMA IsTable ==
    ASSUME NEW D, D \subseteq Vendors, NEW rs \in [D -> Row]
    PROVE  rs \in Tables /\ DOMAIN rs = D
BY DEF Tables

\* The smallest of some numbers: what makes CHOOSE in Oldest a choice.
LEMMA SmallestExists ==
    ASSUME NEW T \in SUBSET Nat, T # {}
    PROVE  \E x \in T : \A y \in T : x <= y
<1> DEFINE R == OpToRel(<, Nat)
<1>1. IsWellFoundedOn(R, Nat)
  BY NatLessThanWellFounded
<1>2. \A x, y \in Nat : x < y => <<x, y>> \in R
  BY DEF OpToRel
<1> HIDE DEF R
<1>3. PICK x \in T : \A y \in T : ~ (<<y, x>> \in R)
  BY <1>1, WFMin
<1>4. \A y \in T : ~(y < x)
  BY <1>2, <1>3
<1>5. \A y \in T : y \in Nat /\ x \in Nat
  OBVIOUS
<1>6. \A y \in T : x <= y
  BY <1>4, <1>5
<1> QED BY <1>6

LEMMA OldestIsThere ==
    ASSUME NEW rs \in Tables, NEW S \in SUBSET DOMAIN rs, S # {}
    PROVE  Oldest(rs, S) \in S
<1> DEFINE T == {rs[p].id : p \in S}
<1>1. T \in SUBSET Nat /\ T # {}
  BY TableFacts DEF Row
<1>2. PICK x \in T : \A y \in T : x <= y
  BY <1>1, SmallestExists
<1>3. \E p \in S : \A q \in S : rs[p].id <= rs[q].id
  BY <1>2
<1> QED BY <1>3 DEF Oldest

\* The default provider is an enabled row, or there is none.
LEMMA DefaultIsEnabled ==
    ASSUME NEW rs \in Tables, DefaultProvider(rs) # NoVendor
    PROVE  DefaultProvider(rs) \in DOMAIN rs /\ rs[DefaultProvider(rs)].enabled
BY OldestIsThere DEF DefaultProvider, Enabled

-----------------------------------------------------------------------------
(* What a request makes of its table.                                       *)

OneMarked(rs) == \A p, q \in DOMAIN rs : rs[p].default /\ rs[q].default => p = q

LEMMA NewIdType == ASSUME NEW rs PROVE NewId(rs) \in Nat
<1> DEFINE ids == {i \in 1..9 : \E p \in DOMAIN rs : rs[p].id >= i}
<1>1. ids \in SUBSET Nat /\ \A i \in ids : i <= 9
  OBVIOUS
<1>2. NewId(rs) = 1 + Cardinality(ids)
  BY DEF NewId
<1> HIDE DEF ids
<1>3. Cardinality(ids) \in Nat
  BY <1>1, FS_BoundedSetOfNaturals, FS_CardinalityType
<1> QED BY <1>2, <1>3

\* A table with one row more, or with one row rewritten.
LEMMA WithTable ==
    ASSUME NEW rs \in Tables, NEW p \in Vendors, NEW r \in Row
    PROVE  /\ With(rs, p, r) \in Tables
           /\ DOMAIN With(rs, p, r) = DOMAIN rs \cup {p}
           /\ With(rs, p, r)[p] = r
           /\ \A q \in DOMAIN rs \ {p} : With(rs, p, r)[q] = rs[q]
<1>1. With(rs, p, r) \in [DOMAIN rs \cup {p} -> Row] /\ DOMAIN rs \cup {p} \subseteq Vendors
  BY TableFacts DEF With
<1> QED BY <1>1, IsTable DEF With

\* Adding a provider never makes a second default, and gives no row a mirror.
LEMMA UpsertedTable ==
    ASSUME NEW rs \in Tables, NEW p \in Vendors, NEW on \in BOOLEAN
    PROVE  LET up == Upserted(rs, p, on) IN
           /\ up \in Tables /\ DOMAIN up = DOMAIN rs \cup {p}
           /\ \A q \in DOMAIN rs : up[q].mirror = rs[q].mirror
           /\ p \notin DOMAIN rs => up[p].mirror = NoKey
           /\ OneMarked(rs) => OneMarked(up)
<1>1. CASE p \in DOMAIN rs
  <2> DEFINE up == [rs EXCEPT ![p].enabled = on]
  <2>1. /\ up \in [DOMAIN rs -> Row]
        /\ \A q \in DOMAIN rs : /\ up[q].default = rs[q].default
                                /\ up[q].mirror = rs[q].mirror
    BY TableFacts DEF Row
  <2>2. up \in Tables /\ DOMAIN up = DOMAIN rs
    BY <2>1, TableFacts, IsTable
  <2>3. OneMarked(rs) => OneMarked(up)
    BY <2>1, <2>2 DEF OneMarked
  <2> QED BY <1>1, <2>1, <2>2, <2>3 DEF Upserted
<1>2. CASE p \notin DOMAIN rs
  <2> DEFINE r == [id |-> NewId(rs), enabled |-> on \/ DOMAIN rs = {},
                   default |-> DOMAIN rs = {}, model |-> TRUE, mirror |-> NoKey]
  <2>1. r \in Row
    BY NewIdType DEF Row
  <2>2. Upserted(rs, p, on) = With(rs, p, r)
    BY <1>2 DEF Upserted, CreateRow
  <2>3. r.mirror = NoKey /\ (r.default => DOMAIN rs = {})
    OBVIOUS
  <2> HIDE DEF r
  <2> DEFINE up == With(rs, p, r)
  <2>4. /\ up \in Tables /\ DOMAIN up = DOMAIN rs \cup {p}
        /\ up[p] = r /\ \A q \in DOMAIN rs \ {p} : up[q] = rs[q]
    BY <2>1, WithTable
  <2> HIDE DEF up
  <2>5. OneMarked(rs) => OneMarked(up)
    BY <1>2, <2>3, <2>4 DEF OneMarked
  <2>6. up[p].mirror = NoKey /\ \A q \in DOMAIN rs : up[q].mirror = rs[q].mirror
    BY <1>2, <2>3, <2>4
  <2> QED BY <2>2, <2>4, <2>5, <2>6 DEF up
<1> QED BY <1>1, <1>2

LEMMA MirroredTable ==
    ASSUME NEW rs \in Tables, NEW p \in DOMAIN rs, NEW key \in Keys \cup {NoKey}
    PROVE  LET up == Mirrored(rs, p, key) IN
           /\ up \in Tables /\ DOMAIN up = DOMAIN rs
           /\ \A q \in DOMAIN rs : up[q].mirror = IF q = p THEN key ELSE rs[q].mirror
           /\ OneMarked(rs) => OneMarked(up)
<1> DEFINE up == [rs EXCEPT ![p].mirror = key]
<1>1. /\ up \in [DOMAIN rs -> Row]
      /\ \A q \in DOMAIN rs : /\ up[q].default = rs[q].default
                              /\ up[q].mirror = IF q = p THEN key ELSE rs[q].mirror
  BY TableFacts DEF Row
<1>2. up \in Tables /\ DOMAIN up = DOMAIN rs
  BY <1>1, TableFacts, IsTable
<1>3. OneMarked(rs) => OneMarked(up)
  BY <1>1, <1>2 DEF OneMarked
<1> QED BY <1>1, <1>2, <1>3 DEF Mirrored

LEMMA MadeDefaultTable ==
    ASSUME NEW rs \in Tables, NEW p \in DOMAIN rs
    PROVE  LET up == MadeDefault(rs, p) IN
           /\ up \in Tables /\ DOMAIN up = DOMAIN rs
           /\ \A q \in DOMAIN rs : up[q].mirror = rs[q].mirror
           /\ OneMarked(up)
<1> DEFINE up == MadeDefault(rs, p)
<1>1. /\ up \in [DOMAIN rs -> Row]
      /\ \A q \in DOMAIN rs : up[q].mirror = rs[q].mirror /\ (up[q].default <=> q = p)
  <2> SUFFICES ASSUME NEW q \in DOMAIN rs
               PROVE  up[q] \in Row /\ up[q].mirror = rs[q].mirror /\ (up[q].default <=> q = p)
    BY DEF MadeDefault
  <2>1. up[q] = [rs[q] EXCEPT !.default = (q = p), !.enabled = @ \/ q = p] /\ rs[q] \in Row
    BY TableFacts DEF MadeDefault
  <2>2. CASE q = p
    <3>1. up[q] = [rs[q] EXCEPT !.default = TRUE, !.enabled = TRUE]
      BY <2>1, <2>2
    <3> QED BY <2>1, <2>2, <3>1 DEF Row
  <2>3. CASE q # p
    <3>1. up[q] = [rs[q] EXCEPT !.default = FALSE]
      BY <2>1, <2>3 DEF Row
    <3> QED BY <2>1, <2>3, <3>1 DEF Row
  <2> QED BY <2>2, <2>3
<1>2. up \in Tables /\ DOMAIN up = DOMAIN rs
  BY <1>1, TableFacts, IsTable
<1> QED BY <1>1, <1>2 DEF OneMarked

LEMMA ToggledTable ==
    ASSUME NEW rs \in Tables, NEW p \in DOMAIN rs
    PROVE  LET up == [rs EXCEPT ![p].enabled = ~@] IN
           /\ up \in Tables /\ DOMAIN up = DOMAIN rs
           /\ \A q \in DOMAIN rs : up[q].mirror = rs[q].mirror
           /\ OneMarked(rs) => OneMarked(up)
<1> DEFINE up == [rs EXCEPT ![p].enabled = ~@]
<1>1. /\ up \in [DOMAIN rs -> Row]
      /\ \A q \in DOMAIN rs : up[q].mirror = rs[q].mirror /\ up[q].default = rs[q].default
  BY TableFacts DEF Row
<1>2. up \in Tables /\ DOMAIN up = DOMAIN rs
  BY <1>1, TableFacts, IsTable
<1> QED BY <1>1, <1>2 DEF OneMarked

\* Where one provider at most is the default, deleting it makes one other so.
LEMMA DeletedTable ==
    ASSUME NEW rs \in Tables, NEW p \in DOMAIN rs
    PROVE  LET up == Deleted(rs, p) IN
           /\ up \in Tables /\ DOMAIN up = DOMAIN rs \ {p}
           /\ \A q \in DOMAIN up : up[q].mirror = rs[q].mirror
           /\ OneMarked(rs) => OneMarked(up)
<1> DEFINE left == Without(rs, p)
           next == DefaultProvider(left)
           up == [left EXCEPT ![next].default = TRUE]
<1>1. left \in Tables /\ DOMAIN left = DOMAIN rs \ {p} /\ \A q \in DOMAIN left : left[q] = rs[q]
  <2>1. left \in [DOMAIN rs \ {p} -> Row] /\ DOMAIN rs \ {p} \subseteq Vendors
    BY TableFacts DEF Without
  <2> QED BY <2>1, IsTable DEF Without
<1>2. CASE rs[p].default /\ next # NoVendor
  <2>1. next \in DOMAIN left
    BY <1>1, <1>2, DefaultIsEnabled
  <2> HIDE DEF left, next
  <2>2. /\ up \in [DOMAIN left -> Row]
        /\ \A q \in DOMAIN left : /\ up[q].mirror = left[q].mirror
                                  /\ up[q].default = IF q = next THEN TRUE ELSE left[q].default
    BY <1>1, <2>1, TableFacts DEF Row
  <2>3. up \in Tables /\ DOMAIN up = DOMAIN left
    BY <1>1, <2>2, TableFacts, IsTable
  <2>4. OneMarked(rs) => OneMarked(up)
    BY <1>1, <1>2, <2>2, <2>3 DEF OneMarked
  <2>5. Deleted(rs, p) = up
    BY <1>2 DEF Deleted, left, next
  <2> QED BY <1>1, <2>2, <2>3, <2>4, <2>5
<1>3. CASE ~(rs[p].default /\ next # NoVendor)
  <2>1. Deleted(rs, p) = left
    BY <1>3 DEF Deleted
  <2> QED BY <1>1, <2>1 DEF OneMarked
<1> QED BY <1>2, <1>3

-----------------------------------------------------------------------------
(* The inductive invariant.                                                 *)

Request ==
    [op : {"none", "upsert", "key", "unkey", "default", "toggle", "delete", "engine"},
     at : {"idle", "loaded", "stored", "refused", "commit"},
     p : Vendors \cup {NoVendor}, key : Keys \cup {NoKey}, on : BOOLEAN,
     agent : AllAgents \cup {NoAgent}, seen : Tables, read : Keys \cup {NoKey},
     sync : BOOLEAN]

\* What a request holds at each of its steps.
Consistent(q) == q.at # "idle" =>
    /\ q.op # "none" /\ q.p \in Vendors
    /\ q.op \notin {"upsert", "engine"} => q.p \in DOMAIN q.seen
    /\ q.at = "loaded" => IF q.key = NoKey THEN q.op \in {"unkey", "delete"}
                          ELSE q.op \in {"upsert", "engine", "key"}
    /\ q.at \in {"stored", "refused"} => q.op \in {"upsert", "engine", "key", "unkey"}
    /\ q.sync => q.at = "commit" /\ q.op \in {"upsert", "engine", "key", "unkey"}

Types ==
    /\ rows \in Tables
    /\ TypeOK
    /\ reqs \in [Requests -> Request]
    /\ \A r \in Requests : Consistent(reqs[r])
    /\ ~alive => Busy = {}

\* One request at a time, and the rows it has loaded are the rows.
Alone == \A r \in Busy : reqs[r].seen = rows /\ \A s \in Busy : s = r

OnlyOneMarked == "double" \notin cause => Alone /\ OneMarked(rows)

\* Outside S, credentials and mirrors are the same.
Agree(v, rs, S) ==
    \A p \in Vendors \ S : /\ v[p] # NoKey => p \in DOMAIN rs
                           /\ p \in DOMAIN rs => rs[p].mirror = v[p]

\* Where nothing excuses a difference, the vault and the rows agree between
\* requests; inside a request they differ for its provider from the write to
\* the vault on, and agree again in the copy it is about to commit.
Footing ==
    "orphan" \notin cause =>
        /\ mode = "ok" /\ "drift" \notin cause
        /\ Alone
        /\ Busy = {} => Agree(vault, rows, {})
        /\ \A r \in Busy : LET q == reqs[r] IN
              /\ q.at = "loaded" => Agree(vault, rows, {})
              /\ q.at = "stored" => Agree(vault, rows, {q.p})
              /\ q.at = "commit" => Agree(vault, Desired(q), {})
              /\ q.at # "refused"

Inv == Types /\ OnlyOneMarked /\ Footing

\* What the copy a request commits has in common with the one it loaded.
GoodCopy(q, up) ==
    /\ up \in Tables
    /\ DOMAIN up = IF q.op = "delete" THEN DOMAIN q.seen \ {q.p}
                   ELSE DOMAIN q.seen \cup {q.p}
    /\ \A x \in DOMAIN up :
         up[x].mirror = IF q.sync /\ x = q.p THEN q.read
                        ELSE IF x \in DOMAIN q.seen THEN q.seen[x].mirror ELSE NoKey
    /\ OneMarked(q.seen) => OneMarked(up)

LEMMA DesiredTable ==
    ASSUME NEW q \in Request, Consistent(q), q.at # "idle"
    PROVE  GoodCopy(q, Desired(q))
<1> DEFINE s == q.seen
<1>1. /\ s \in Tables /\ q.p \in Vendors /\ q.on \in BOOLEAN /\ q.read \in Keys \cup {NoKey}
      /\ q.op \in {"upsert", "key", "unkey", "default", "toggle", "delete", "engine"}
      /\ q.op \notin {"upsert", "engine"} => q.p \in DOMAIN s
      /\ q.sync => q.op \in {"upsert", "engine", "key", "unkey"}
  BY DEF Request, Consistent
<1>2. ASSUME NEW mid \in Tables, q.op # "delete",
             DOMAIN mid = DOMAIN s \cup {q.p},
             \A x \in DOMAIN s : mid[x].mirror = s[x].mirror,
             q.p \notin DOMAIN s => mid[q.p].mirror = NoKey,
             OneMarked(s) => OneMarked(mid),
             Desired(q) = IF q.sync THEN Mirrored(mid, q.p, q.read) ELSE mid
      PROVE  GoodCopy(q, Desired(q))
  <2>1. CASE ~q.sync
    BY <1>2, <2>1 DEF GoodCopy
  <2>2. CASE q.sync
    <3> DEFINE up == Mirrored(mid, q.p, q.read)
    <3>1. /\ up \in Tables /\ DOMAIN up = DOMAIN mid
          /\ \A x \in DOMAIN mid : up[x].mirror = IF x = q.p THEN q.read ELSE mid[x].mirror
          /\ OneMarked(mid) => OneMarked(up)
      BY <1>1, <1>2, MirroredTable
    <3>2. Desired(q) = up
      BY <1>2, <2>2
    <3> HIDE DEF up
    <3> QED BY <1>2, <2>2, <3>1, <3>2 DEF GoodCopy
  <2> QED BY <2>1, <2>2
<1>3. CASE q.op \in {"upsert", "engine"}
  <2>1. ASSUME NEW on \in BOOLEAN,
               Desired(q) = IF q.sync THEN Mirrored(Upserted(s, q.p, on), q.p, q.read)
                            ELSE Upserted(s, q.p, on)
        PROVE  GoodCopy(q, Desired(q))
    <3> DEFINE mid == Upserted(s, q.p, on)
    <3>1. /\ mid \in Tables /\ DOMAIN mid = DOMAIN s \cup {q.p}
          /\ \A x \in DOMAIN s : mid[x].mirror = s[x].mirror
          /\ q.p \notin DOMAIN s => mid[q.p].mirror = NoKey
          /\ OneMarked(s) => OneMarked(mid)
      BY <1>1, <2>1, UpsertedTable
    <3>2. Desired(q) = IF q.sync THEN Mirrored(mid, q.p, q.read) ELSE mid
      BY <2>1
    <3>3. q.op # "delete"
      BY <1>3
    <3> HIDE DEF mid
    <3> QED BY <1>2, <3>1, <3>2, <3>3
  <2>2. CASE q.op = "upsert"
    BY <1>1, <2>1, <2>2 DEF Desired
  <2>3. CASE q.op = "engine"
    BY <2>1, <2>3 DEF Desired
  <2> QED BY <1>3, <2>2, <2>3
<1>4. CASE q.op \in {"key", "unkey"}
  <2>1. Desired(q) = IF q.sync THEN Mirrored(s, q.p, q.read) ELSE s
    BY <1>4 DEF Desired
  <2>2. DOMAIN s = DOMAIN s \cup {q.p}
    BY <1>1, <1>4
  <2>3. s \in Tables /\ q.op # "delete" /\ q.p \in DOMAIN s
    BY <1>1, <1>4
  <2> HIDE DEF s
  <2> QED BY <1>2, <2>1, <2>2, <2>3
<1>5. CASE q.op \in {"default", "toggle"}
  <2>1. q.p \in DOMAIN s /\ DOMAIN s = DOMAIN s \cup {q.p} /\ ~q.sync
    BY <1>1, <1>5
  <2>2. /\ Desired(q) \in Tables /\ DOMAIN Desired(q) = DOMAIN s
        /\ \A x \in DOMAIN s : Desired(q)[x].mirror = s[x].mirror
        /\ OneMarked(s) => OneMarked(Desired(q))
    <3>1. CASE q.op = "default"
      <4>1. Desired(q) = MadeDefault(s, q.p)
        BY <3>1 DEF Desired
      <4> QED BY <1>1, <2>1, <4>1, MadeDefaultTable
    <3>2. CASE q.op = "toggle"
      <4>1. Desired(q) = [s EXCEPT ![q.p].enabled = ~@]
        BY <3>2 DEF Desired
      <4> QED BY <1>1, <2>1, <4>1, ToggledTable
    <3> QED BY <1>5, <3>1, <3>2
  <2> QED BY <1>5, <2>1, <2>2 DEF GoodCopy
<1>6. CASE q.op = "delete"
  <2> DEFINE up == Deleted(s, q.p)
  <2>1. Desired(q) = up
    BY <1>6 DEF Desired
  <2>2. q.p \in DOMAIN s /\ ~q.sync
    BY <1>1, <1>6
  <2>3. /\ up \in Tables /\ DOMAIN up = DOMAIN s \ {q.p}
        /\ \A x \in DOMAIN up : up[x].mirror = s[x].mirror
        /\ OneMarked(s) => OneMarked(up)
    BY <1>1, <2>2, DeletedTable
  <2> HIDE DEF up
  <2> QED BY <1>6, <2>1, <2>2, <2>3 DEF GoodCopy
<1> QED BY <1>1, <1>3, <1>4, <1>5, <1>6

-----------------------------------------------------------------------------
(* A commit.                                                                *)

\* Alone, a request's copy is what is committed.
LEMMA MergeAlone ==
    ASSUME NEW rs \in Tables, NEW mine \in Tables
    PROVE  ~Conflicts(rs, mine, rs) /\ Merged(rs, mine, rs) = mine
<1>1. ~Conflicts(rs, mine, rs)
  BY DEF Conflicts
<1>2. ASSUME NEW q \in DOMAIN mine, q \in DOMAIN rs
      PROVE  MergedRow(rs[q], mine[q], rs[q]) = mine[q]
  <2>1. rs[q] \in Row /\ mine[q] \in Row
    BY <1>2, TableFacts
  <2>2. \A a, b : Written(a, b, a) = b
    BY DEF Written
  <2> QED BY <2>1, <2>2 DEF MergedRow, Row
<1>3. DOMAIN Merged(rs, mine, rs) = DOMAIN mine
  BY DEF Merged
<1>4. \A q \in DOMAIN mine : Merged(rs, mine, rs)[q] = mine[q]
  BY <1>2 DEF Merged
<1>5. mine = [q \in DOMAIN mine |-> mine[q]]
  BY TableFacts
<1>6. Merged(rs, mine, rs) = [q \in DOMAIN mine |-> Merged(rs, mine, rs)[q]]
  BY <1>3 DEF Merged
<1> QED BY <1>1, <1>4, <1>5, <1>6

\* Whatever has happened meanwhile, a commit that does not raise leaves rows.
LEMMA MergedTable ==
    ASSUME NEW old \in Tables, NEW mine \in Tables, NEW now \in Tables,
           ~Conflicts(old, mine, now)
    PROVE  Merged(old, mine, now) \in Tables
<1> DEFINE D == (DOMAIN mine \ (DOMAIN old \ DOMAIN now))
                  \cup (DOMAIN now \ (DOMAIN old \ DOMAIN mine))
           m == Merged(old, mine, now)
<1>1. D \subseteq Vendors
  BY TableFacts
<1>2. ASSUME NEW q \in D PROVE m[q] \in Row
  <2>1. CASE q \in DOMAIN mine \cap DOMAIN now
    <3>1. q \in DOMAIN old
      BY <2>1 DEF Conflicts
    <3>2. old[q] \in Row /\ mine[q] \in Row /\ now[q] \in Row
      BY <2>1, <3>1, TableFacts
    <3>3. m[q] = MergedRow(old[q], mine[q], now[q])
      BY <1>2, <2>1 DEF Merged
    <3>4. /\ Written(old[q].id, mine[q].id, now[q].id) \in Nat
          /\ Written(old[q].enabled, mine[q].enabled, now[q].enabled) \in BOOLEAN
          /\ Written(old[q].default, mine[q].default, now[q].default) \in BOOLEAN
          /\ Written(old[q].model, mine[q].model, now[q].model) \in BOOLEAN
          /\ Written(old[q].mirror, mine[q].mirror, now[q].mirror) \in Keys \cup {NoKey}
      BY <3>2 DEF Written, Row
    <3> QED BY <3>3, <3>4 DEF MergedRow, Row
  <2>2. CASE q \in DOMAIN mine /\ q \notin DOMAIN now
    BY <1>2, <2>2, TableFacts DEF Merged
  <2>3. CASE q \notin DOMAIN mine
    BY <1>2, <2>3, TableFacts DEF Merged
  <2> QED BY <2>1, <2>2, <2>3
<1>3. m \in [D -> Row]
  BY <1>2 DEF Merged
<1> HIDE DEF D
<1> QED BY <1>1, <1>3, IsTable

-----------------------------------------------------------------------------
(* The requests after a step.                                               *)

LEMMA OneRequestMoves ==
    ASSUME Types, NEW r \in Requests, NEW q \in Request, Consistent(q),
           reqs' = [reqs EXCEPT ![r] = q], alive' = alive,
           alive \/ q.at = "idle"
    PROVE  /\ reqs' \in [Requests -> Request]
           /\ \A s \in Requests : Consistent(reqs'[s])
           /\ ~alive' => Busy' = {}
           /\ reqs'[r] = q
           /\ \A s \in Requests \ {r} : reqs'[s] = reqs[s]
           /\ Busy' = IF q.at = "idle" THEN Busy \ {r} ELSE Busy \cup {r}
<1>1. /\ reqs' \in [Requests -> Request]
      /\ reqs'[r] = q
      /\ \A s \in Requests \ {r} : reqs'[s] = reqs[s]
  BY DEF Types
<1>2. \A s \in Requests : Consistent(reqs'[s])
  BY <1>1 DEF Types
<1>3. Busy' = IF q.at = "idle" THEN Busy \ {r} ELSE Busy \cup {r}
  BY <1>1 DEF Busy
<1> QED BY <1>1, <1>2, <1>3 DEF Types

\* A request goes on to its next step: it stays alone if it was.
LEMMA Goes ==
    ASSUME Inv, NEW r \in Requests, reqs[r].at # "idle",
           NEW q \in Request, q.at # "idle", q.seen = reqs[r].seen,
           reqs' = [reqs EXCEPT ![r] = q], Consistent(q),
           rows' = rows, alive' = alive, cause' = cause
    PROVE  /\ reqs' \in [Requests -> Request]
           /\ \A s \in Requests : Consistent(reqs'[s])
           /\ ~alive' => Busy' = {}
           /\ reqs'[r] = q
           /\ Busy' = Busy /\ r \in Busy
           /\ OnlyOneMarked'
           /\ Alone => Alone' /\ Busy' = {r} /\ rows = q.seen
<1>1. r \in Busy /\ alive
  BY DEF Inv, Types, Busy
<1>2. /\ reqs' \in [Requests -> Request]
      /\ \A s \in Requests : Consistent(reqs'[s])
      /\ ~alive' => Busy' = {}
      /\ reqs'[r] = q
      /\ \A s \in Requests \ {r} : reqs'[s] = reqs[s]
      /\ Busy' = IF q.at = "idle" THEN Busy \ {r} ELSE Busy \cup {r}
  BY <1>1, OneRequestMoves DEF Inv
<1>3. Busy' = Busy
  BY <1>1, <1>2
<1>4. Alone => Alone' /\ Busy' = {r} /\ rows = q.seen
  BY <1>1, <1>2, <1>3 DEF Alone
<1>5. OnlyOneMarked'
  BY <1>4 DEF OnlyOneMarked, Inv, OneMarked
<1> QED BY <1>1, <1>2, <1>3, <1>4, <1>5

-----------------------------------------------------------------------------
(* The invariant holds at the start and every step keeps it.                *)

LEMMA InitInv == Init => Inv
<1> SUFFICES ASSUME Init PROVE Inv
  OBVIOUS
<1>1. NoRows \in Tables /\ DOMAIN NoRows = {} /\ rows = NoRows
  <2>1. NoRows \in [{} -> Row] /\ DOMAIN NoRows = {}
    BY DEF NoRows
  <2> QED BY <2>1, IsTable DEF Init
<1>2. Idle \in Request /\ Idle.at = "idle"
  BY <1>1 DEF Idle, Request
<1>3. Busy = {} /\ \A r \in Requests : reqs[r] = Idle
  BY <1>2 DEF Init, Busy
<1>4. TypeOK
  <2>1. routes \in [Tasks -> DOMAIN rows \cup {NoVendor}]
    BY DEF Init
  <2>2. choice \in [provider : Vendors \cup {NoVendor}, agent : CapableAgents \cup {NoAgent}]
    BY DEF Init, Unchosen
  <2>3. DOMAIN rows \subseteq Vendors /\ \A p \in DOMAIN rows : rows[p] \in Row
    BY <1>1
  <2>5. vault \in [Slots -> Keys \cup {NoKey}]
    <3>1. Keys \cup {NoKey} = {NoKey} \cup Keys
      OBVIOUS
    <3> QED BY <3>1, Zenon DEF Init
  <2>4. /\ mode \in {"ok", "mute", "gone"} /\ cause \subseteq Everything
        /\ alive \in BOOLEAN /\ ops \in 0..MaxOps /\ faults \in 0..MaxFaults
    <3>1. mode = "ok" /\ cause = {} /\ ops = 0 /\ faults = 0
      BY Zenon DEF Init
    <3>2. alive \in BOOLEAN
      BY DEF Init
    <3> QED BY <3>1, <3>2, BoundAssumption
  <2> QED BY <2>1, <2>2, <2>3, <2>4, <2>5 DEF TypeOK
<1>5. Types
  BY <1>1, <1>2, <1>3, <1>4 DEF Types, Init, Consistent
<1>6. Alone /\ OneMarked(rows)
  BY <1>1, <1>3 DEF Alone, OneMarked
<1>7. Agree(vault, rows, {})
  BY <1>1 DEF Agree, Init
<1>8. Footing
  BY <1>3, <1>6, <1>7 DEF Footing, Init
<1> QED BY <1>5, <1>6, <1>8 DEF Inv, OnlyOneMarked

\* A request that is the first finds vault and rows in agreement.
LEMMA LoadKeeps ==
    ASSUME Inv, NEW r \in Requests,
           NEW op \in {"upsert", "key", "unkey", "default", "toggle", "delete", "engine"},
           NEW p \in Vendors, NEW key \in Keys \cup {NoKey}, NEW on \in BOOLEAN,
           NEW agent \in AllAgents \cup {NoAgent},
           op = "key" => key # NoKey,
           op \in {"unkey", "default", "toggle", "delete"} => key = NoKey,
           Load(r, op, p, key, on, agent)
    PROVE  Inv'
<1> DEFINE at == IF op \in {"key", "unkey", "delete"} \/ key # NoKey
                 THEN "loaded" ELSE "commit"
           q == [op |-> op, p |-> p, key |-> key, on |-> on, agent |-> agent,
                 at |-> at, seen |-> rows, read |-> NoKey, sync |-> FALSE]
<1>1. reqs' = [reqs EXCEPT ![r] = q]
  BY Zenon DEF Load
<1>2. q \in Request
  BY DEF Request, Inv, Types
<1>3. Consistent(q)
  BY DEF Consistent, Load, Inv, Types
<1>4. q.seen = rows /\ q.p = p /\ q.at = at /\ q.at \in {"loaded", "commit"} /\ q.at # "idle"
      /\ q.sync = FALSE /\ (q.at = "commit" => q.op \notin {"key", "unkey", "delete"})
  OBVIOUS
<1> HIDE DEF q, at
<1>5. /\ alive /\ reqs[r].at = "idle" /\ rows' = rows /\ vault' = vault /\ mode' = mode
      /\ alive' = alive /\ cause \subseteq cause'
      /\ Busy # {} => cause' = cause \cup Everything
      /\ Busy = {} => cause' = cause
      /\ routes' = routes /\ choice' = choice /\ faults' = faults
      /\ ops < MaxOps /\ ops' = ops + 1
  BY DEF Load, Blame
<1>6. /\ reqs' \in [Requests -> Request]
      /\ \A s \in Requests : Consistent(reqs'[s])
      /\ ~alive' => Busy' = {}
      /\ reqs'[r] = q
      /\ Busy' = Busy \cup {r}
  BY <1>1, <1>2, <1>3, <1>4, <1>5, OneRequestMoves DEF Inv
<1>7. TypeOK'
  <2>1. cause' \subseteq Everything
    BY <1>5 DEF Inv, Types, TypeOK
  <2>2. ops' \in 0..MaxOps
    BY <1>5, BoundAssumption DEF Inv, Types, TypeOK
  <2> QED BY <1>5, <2>1, <2>2 DEF Inv, Types, TypeOK
<1>8. Types'
  BY <1>5, <1>6, <1>7 DEF Inv, Types
<1>9. Busy = {} => Alone'
  BY <1>4, <1>5, <1>6 DEF Alone
<1>10. OnlyOneMarked'
  BY <1>5, <1>9 DEF OnlyOneMarked, Inv, Everything, OneMarked
<1>11. Footing'
  <2> SUFFICES ASSUME "orphan" \notin cause' PROVE Footing'
    BY DEF Footing
  <2>1. Busy = {} /\ cause' = cause /\ Busy' = {r}
    BY <1>5, <1>6 DEF Everything
  <2>2. mode = "ok" /\ "drift" \notin cause /\ Agree(vault, rows, {})
    BY <2>1 DEF Inv, Footing
  <2>3. ASSUME q.at = "commit" PROVE Agree(vault', Desired(q), {})
    <3>1. GoodCopy(q, Desired(q))
      BY <1>2, <1>3, <1>4, DesiredTable
    <3> QED BY <1>4, <1>5, <2>2, <2>3, <3>1 DEF Agree, GoodCopy
  <2>4. Agree(vault', rows', {})
    BY <1>5, <2>2
  <2> QED BY <1>4, <1>5, <1>6, <1>9, <2>1, <2>2, <2>3, <2>4 DEF Footing
<1> QED BY <1>8, <1>10, <1>11 DEF Inv

LEMMA StoreKeyKeeps ==
    ASSUME Inv, NEW r \in Requests, StoreKey(r)
    PROVE  Inv'
<1> DEFINE q == [reqs[r] EXCEPT !.at = IF mode = "ok" THEN "stored" ELSE "refused"]
<1>1. reqs[r] \in Request /\ Consistent(reqs[r]) /\ reqs[r].at = "loaded" /\ reqs[r].key # NoKey
  BY DEF StoreKey, Inv, Types
<1>2. reqs' = [reqs EXCEPT ![r] = q]
  BY <1>1 DEF StoreKey, Inv, Types
<1>3. q \in Request /\ q.at = (IF mode = "ok" THEN "stored" ELSE "refused")
      /\ q.seen = reqs[r].seen /\ q.p = reqs[r].p /\ q.p \in Vendors
      /\ q.op = reqs[r].op /\ q.sync = reqs[r].sync /\ q.key = reqs[r].key
  BY <1>1 DEF Request, Consistent
<1>4. Consistent(q)
  BY <1>1, <1>3 DEF Consistent
<1> HIDE DEF q
<1>5. /\ rows' = rows /\ mode' = mode /\ alive' = alive /\ cause' = cause
      /\ routes' = routes /\ choice' = choice /\ faults' = faults /\ ops' = ops
      /\ vault' = IF mode = "ok" THEN [vault EXCEPT ![q.p] = q.key] ELSE vault
  BY <1>3 DEF StoreKey
<1>6. /\ reqs' \in [Requests -> Request]
      /\ \A s \in Requests : Consistent(reqs'[s])
      /\ ~alive' => Busy' = {}
      /\ reqs'[r] = q
      /\ Busy' = Busy /\ r \in Busy
      /\ OnlyOneMarked'
      /\ Alone => Alone' /\ Busy' = {r} /\ rows = q.seen
  BY <1>1, <1>2, <1>3, <1>4, <1>5, Goes
<1>7. vault' \in [Slots -> Keys \cup {NoKey}]
  BY <1>1, <1>3, <1>5 DEF Inv, Types, TypeOK, Request
<1>8. Types'
  BY <1>5, <1>6, <1>7 DEF Inv, Types, TypeOK
<1>9. Footing'
  <2> SUFFICES ASSUME "orphan" \notin cause PROVE Footing'
    BY <1>5 DEF Footing
  <2>1. mode = "ok" /\ "drift" \notin cause /\ Alone /\ Agree(vault, rows, {})
    BY <1>1, <1>6 DEF Inv, Footing
  <2>2. Agree(vault', rows', {q.p})
    BY <1>5, <2>1 DEF Agree, Inv, Types, TypeOK, Slots
  <2> QED BY <1>3, <1>5, <1>6, <2>1, <2>2 DEF Footing
<1> QED BY <1>6, <1>8, <1>9 DEF Inv

LEMMA RemoveKeyKeeps ==
    ASSUME Inv, NEW r \in Requests, RemoveKey(r)
    PROVE  Inv'
<1> DEFINE q == [reqs[r] EXCEPT !.at = IF reqs[r].op = "unkey" THEN "stored" ELSE "commit"]
<1>1. reqs[r] \in Request /\ Consistent(reqs[r]) /\ reqs[r].at = "loaded" /\ reqs[r].key = NoKey
  BY DEF RemoveKey, Inv, Types
<1>2. reqs' = [reqs EXCEPT ![r] = q]
  BY <1>1 DEF RemoveKey, Inv, Types
<1>3. q \in Request /\ q.at = (IF q.op = "unkey" THEN "stored" ELSE "commit")
      /\ q.seen = reqs[r].seen /\ q.p = reqs[r].p /\ q.p \in Vendors
      /\ q.op = reqs[r].op /\ q.sync = reqs[r].sync /\ q.sync = FALSE
      /\ q.op \in {"unkey", "delete"} /\ q.p \in DOMAIN q.seen
  BY <1>1 DEF Request, Consistent
<1>4. Consistent(q)
  BY <1>3 DEF Consistent
<1> HIDE DEF q
<1>5. /\ rows' = rows /\ mode' = mode /\ alive' = alive /\ cause' = cause
      /\ routes' = routes /\ choice' = choice /\ faults' = faults /\ ops' = ops
      /\ vault' = IF mode = "ok" THEN [vault EXCEPT ![q.p] = NoKey] ELSE vault
  BY <1>3 DEF RemoveKey
<1>6. /\ reqs' \in [Requests -> Request]
      /\ \A s \in Requests : Consistent(reqs'[s])
      /\ ~alive' => Busy' = {}
      /\ reqs'[r] = q
      /\ Busy' = Busy /\ r \in Busy
      /\ OnlyOneMarked'
      /\ Alone => Alone' /\ Busy' = {r} /\ rows = q.seen
  BY <1>1, <1>2, <1>3, <1>4, <1>5, Goes
<1>7. vault' \in [Slots -> Keys \cup {NoKey}]
  BY <1>1, <1>3, <1>5 DEF Inv, Types, TypeOK
<1>8. Types'
  BY <1>5, <1>6, <1>7 DEF Inv, Types, TypeOK
<1>9. Footing'
  <2> SUFFICES ASSUME "orphan" \notin cause PROVE Footing'
    BY <1>5 DEF Footing
  <2>1. mode = "ok" /\ "drift" \notin cause /\ Alone /\ Agree(vault, rows, {})
    BY <1>1, <1>6 DEF Inv, Footing
  <2>2. vault'[q.p] = NoKey /\ \A x \in Vendors \ {q.p} : vault'[x] = vault[x]
    BY <1>3, <1>5, <2>1 DEF Inv, Types, TypeOK, Slots
  <2>3. Agree(vault', rows', {q.p})
    BY <1>5, <2>1, <2>2 DEF Agree
  <2>4. ASSUME q.op = "delete" PROVE Agree(vault', Desired(q), {})
    <3>1. GoodCopy(q, Desired(q))
      BY <1>3, <1>4, DesiredTable
    <3> QED BY <1>3, <1>6, <2>1, <2>2, <2>4, <3>1 DEF Agree, GoodCopy
  <2> QED BY <1>3, <1>5, <1>6, <2>1, <2>3, <2>4 DEF Footing
<1> QED BY <1>6, <1>8, <1>9 DEF Inv

LEMMA SyncKeyStateKeeps ==
    ASSUME Inv, NEW r \in Requests, SyncKeyState(r)
    PROVE  Inv'
<1> DEFINE q == [reqs[r] EXCEPT !.at = "commit", !.sync = TRUE, !.read = VaultRead(reqs[r].p)]
<1>1. reqs[r] \in Request /\ Consistent(reqs[r]) /\ reqs[r].at = "stored"
  BY DEF SyncKeyState, Inv, Types
<1>2. reqs' = [reqs EXCEPT ![r] = q]
  BY <1>1 DEF SyncKeyState, Inv, Types
<1>3. reqs[r].p \in Vendors /\ VaultRead(reqs[r].p) \in Keys \cup {NoKey}
  BY <1>1 DEF Consistent, VaultRead, Inv, Types, TypeOK, Slots
<1>4. q \in Request /\ q.at = "commit" /\ q.seen = reqs[r].seen /\ q.p = reqs[r].p
      /\ q.p \in Vendors /\ q.op = reqs[r].op /\ q.sync = TRUE /\ q.read = VaultRead(q.p)
      /\ q.op \in {"upsert", "engine", "key", "unkey"}
  BY <1>1, <1>3 DEF Request, Consistent
<1>5. Consistent(q)
  BY <1>1, <1>4 DEF Consistent
<1> HIDE DEF q
<1>6. /\ rows' = rows /\ mode' = mode /\ alive' = alive /\ cause' = cause
      /\ routes' = routes /\ choice' = choice /\ faults' = faults /\ ops' = ops
      /\ vault' = vault
  BY DEF SyncKeyState
<1>7. /\ reqs' \in [Requests -> Request]
      /\ \A s \in Requests : Consistent(reqs'[s])
      /\ ~alive' => Busy' = {}
      /\ reqs'[r] = q
      /\ Busy' = Busy /\ r \in Busy
      /\ OnlyOneMarked'
      /\ Alone => Alone' /\ Busy' = {r} /\ rows = q.seen
  BY <1>1, <1>2, <1>4, <1>5, <1>6, Goes
<1>8. Types'
  BY <1>6, <1>7 DEF Inv, Types, TypeOK
<1>9. Footing'
  <2> SUFFICES ASSUME "orphan" \notin cause PROVE Footing'
    BY <1>6 DEF Footing
  <2>1. mode = "ok" /\ "drift" \notin cause /\ Alone /\ Agree(vault, rows, {q.p})
    BY <1>1, <1>4, <1>7 DEF Inv, Footing
  <2>2. q.read = vault[q.p]
    BY <1>4, <2>1 DEF VaultRead
  <2>3. Agree(vault', Desired(q), {})
    <3>1. GoodCopy(q, Desired(q))
      BY <1>4, <1>5, DesiredTable
    <3> QED BY <1>4, <1>6, <1>7, <2>1, <2>2, <3>1 DEF Agree, GoodCopy
  <2> QED BY <1>4, <1>6, <1>7, <2>1, <2>3 DEF Footing
<1> QED BY <1>7, <1>8, <1>9 DEF Inv

\* The agent of a vendor can research, or there is none.
LEMMA DefaultAgentType ==
    ASSUME NEW p PROVE DefaultAgent(p) \in CapableAgents \cup {NoAgent}
<1>1. CASE Spec(p, "remote", TRUE) \in NativeAgents
  BY <1>1 DEF DefaultAgent, CapableAgents, AllAgents, Spec
<1>2. CASE Spec(p, "remote", TRUE) \notin NativeAgents
  BY <1>2 DEF DefaultAgent
<1> QED BY <1>1, <1>2

LEMMA SelectType ==
    ASSUME TypeOK, NEW r \in Requests, Select(r),
           reqs[r].agent \in AllAgents \cup {NoAgent},
           reqs[r].at = "commit" => reqs[r].p \in Vendors
    PROVE  choice' \in [provider : Vendors \cup {NoVendor},
                       agent : CapableAgents \cup {NoAgent}]
<1>1. CASE choice' = choice
  BY <1>1 DEF TypeOK
<1>2. CASE reqs[r].op = "engine" /\ reqs[r].at = "commit" /\ ~Refused(r)
  <2>1. choice' = [provider |-> reqs[r].p, agent |-> Selected(reqs[r].p, reqs[r].agent)]
    BY <1>2 DEF Select
  <2>2. Selected(reqs[r].p, reqs[r].agent) \in CapableAgents \cup {NoAgent}
    BY <1>2, DefaultAgentType DEF Selected, Refused
  <2> QED BY <1>2, <2>1, <2>2
<1> QED BY <1>1, <1>2 DEF Select

LEMMA CommitKeeps ==
    ASSUME Inv, NEW r \in Requests, Commit(r)
    PROVE  Inv'
<1> DEFINE q == reqs[r]
           mine == Desired(q)
           old == q.seen
<1>1. /\ q \in Request /\ Consistent(q) /\ q.at \in {"refused", "commit"}
      /\ q.p \in Vendors /\ old \in Tables /\ q.agent \in AllAgents \cup {NoAgent}
      /\ rows \in Tables /\ Idle \in Request /\ Idle.at = "idle" /\ Consistent(Idle)
  <2>1. q \in Request /\ Consistent(q) /\ q.at \in {"refused", "commit"} /\ rows \in Tables
    BY DEF Commit, Inv, Types
  <2>2. NoRows \in [{} -> Row]
    BY DEF NoRows
  <2>3. NoRows \in Tables
    BY <2>2, IsTable
  <2>4. Idle \in Request /\ Idle.at = "idle" /\ Consistent(Idle)
    BY <2>3 DEF Idle, Request, Consistent
  <2> QED BY <2>1, <2>4 DEF Request, Consistent
<1>2. GoodCopy(q, mine)
  BY <1>1, DesiredTable
<1>3. /\ reqs' = [reqs EXCEPT ![r] = Idle]
      /\ vault' = vault /\ mode' = mode /\ alive' = alive /\ ops' = ops
      /\ faults' = faults /\ cause' = cause
  BY DEF Commit
<1>4. \/ rows' = rows /\ routes' = routes /\ choice' = choice /\ Conflicts(old, mine, rows)
      \/ /\ ~Conflicts(old, mine, rows)
         /\ rows' = Merged(old, mine, rows)
         /\ Unroute(DOMAIN rows') /\ Select(r)
  BY Zenon DEF Commit
<1> HIDE DEF mine
<1>5. /\ reqs' \in [Requests -> Request]
      /\ \A s \in Requests : Consistent(reqs'[s])
      /\ ~alive' => Busy' = {}
      /\ \A s \in Requests \ {r} : reqs'[s] = reqs[s]
      /\ Busy' = Busy \ {r}
      /\ r \in Busy
  BY <1>1, <1>3, OneRequestMoves DEF Inv, Busy
<1>6. rows' \in Tables
  BY <1>1, <1>2, <1>4, MergedTable DEF GoodCopy
<1>7. TypeOK'
  <2>1. routes' \in [Tasks -> DOMAIN rows' \cup {NoVendor}]
    BY <1>4 DEF Unroute, Inv, Types, TypeOK
  <2>2. choice' \in [provider : Vendors \cup {NoVendor}, agent : CapableAgents \cup {NoAgent}]
    BY <1>1, <1>4, SelectType DEF Inv, Types, TypeOK
  <2>3. DOMAIN rows' \subseteq Vendors /\ \A p \in DOMAIN rows' : rows'[p] \in Row
    BY <1>6, TableFacts
  <2> QED BY <1>3, <2>1, <2>2, <2>3 DEF Inv, Types, TypeOK
<1>8. Types'
  BY <1>5, <1>6, <1>7 DEF Types
<1>9. Alone => Busy' = {} /\ Alone' /\ rows' = mine
  <2> SUFFICES ASSUME Alone PROVE Busy' = {} /\ Alone' /\ rows' = mine
    OBVIOUS
  <2>1. Busy' = {} /\ old = rows
    BY <1>5 DEF Alone
  <2>2. rows' = mine
    BY <1>1, <1>2, <1>4, <2>1, MergeAlone DEF GoodCopy
  <2> QED BY <2>1, <2>2 DEF Alone
<1>10. OnlyOneMarked'
  <2> SUFFICES ASSUME "double" \notin cause PROVE Alone' /\ OneMarked(rows')
    BY <1>3 DEF OnlyOneMarked, OneMarked
  <2>1. Alone /\ OneMarked(rows) /\ old = rows
    BY <1>5 DEF Inv, OnlyOneMarked, Alone
  <2> QED BY <1>2, <1>9, <2>1 DEF GoodCopy
<1>11. Footing'
  <2> SUFFICES ASSUME "orphan" \notin cause PROVE Footing'
    BY <1>3 DEF Footing
  <2>1. mode = "ok" /\ "drift" \notin cause /\ Alone /\ q.at = "commit"
        /\ Agree(vault, mine, {})
    BY <1>1, <1>5 DEF Inv, Footing, mine
  <2> QED BY <1>3, <1>9, <2>1 DEF Footing
<1> QED BY <1>8, <1>10, <1>11 DEF Inv

LEMMA SaveRoutesKeeps == ASSUME Inv, SaveRoutes PROVE Inv'
<1>1. PICK t \in Tasks, p \in DOMAIN rows \cup {NoVendor} : routes' = [routes EXCEPT ![t] = p]
  BY DEF SaveRoutes
<1>2. ops' \in 0..MaxOps
  BY BoundAssumption DEF SaveRoutes, Inv, Types, TypeOK
<1>3. /\ rows' = rows /\ choice' = choice /\ vault' = vault /\ mode' = mode /\ reqs' = reqs
      /\ alive' = alive /\ faults' = faults /\ cause' = cause
  BY DEF SaveRoutes
<1>4. routes' \in [Tasks -> DOMAIN rows' \cup {NoVendor}]
  BY <1>1, <1>3 DEF Inv, Types, TypeOK
<1>5. Types'
  BY <1>2, <1>3, <1>4 DEF Inv, Types, TypeOK, Busy
<1>6. OnlyOneMarked' /\ Footing'
  BY <1>3 DEF Inv, OnlyOneMarked, Footing, Alone, OneMarked, Busy
<1> QED BY <1>5, <1>6 DEF Inv

\* The start-up realigns every mirror with a vault that answers.
LEMMA ReconciledTable ==
    ASSUME NEW rs \in Tables, NEW v, \A p \in Vendors : v[p] \in Keys \cup {NoKey}
    PROVE  LET up == ReconcileKeyState(rs, v) IN
           /\ up \in Tables /\ DOMAIN up = DOMAIN rs
           /\ mode = "ok" => \A p \in DOMAIN rs : up[p].mirror = v[p]
           /\ OneMarked(rs) => OneMarked(up)
<1> DEFINE up == ReconcileKeyState(rs, v)
           Mirror(p) == LET key == IF mode = "ok" THEN v[p] ELSE NoKey
                        IN  IF key # NoKey THEN key
                            ELSE IF IsAvailable THEN NoKey ELSE rs[p].mirror
<1>1. \A p \in DOMAIN rs : up[p] = [rs[p] EXCEPT !.mirror = Mirror(p)]
  BY DEF ReconcileKeyState
<1>2. ASSUME NEW p \in DOMAIN rs
      PROVE  Mirror(p) \in Keys \cup {NoKey} /\ (mode = "ok" => Mirror(p) = v[p])
  BY TableFacts DEF IsAvailable, Row
<1> HIDE DEF Mirror
<1>3. \A p \in DOMAIN rs : /\ up[p] \in Row /\ up[p].default = rs[p].default
                           /\ up[p].mirror = Mirror(p)
  <2> SUFFICES ASSUME NEW p \in DOMAIN rs
               PROVE  /\ up[p] \in Row /\ up[p].default = rs[p].default
                      /\ up[p].mirror = Mirror(p)
    OBVIOUS
  <2>1. rs[p] \in Row /\ Mirror(p) \in Keys \cup {NoKey}
    BY <1>2, TableFacts
  <2>2. up[p] = [rs[p] EXCEPT !.mirror = Mirror(p)]
    BY <1>1
  <2> HIDE DEF up
  <2> QED BY <2>1, <2>2 DEF Row
<1>4. up \in [DOMAIN rs -> Row]
  BY <1>3 DEF ReconcileKeyState
<1>5. up \in Tables /\ DOMAIN up = DOMAIN rs
  BY <1>4, TableFacts, IsTable
<1> HIDE DEF up
<1>6. OneMarked(rs) => OneMarked(up)
  BY <1>3, <1>5 DEF OneMarked
<1> QED BY <1>2, <1>3, <1>5, <1>6 DEF up

LEMMA StartUpKeeps == ASSUME Inv, StartUp PROVE Inv'
<1> DEFINE key == MigrateCredential
           copied == IF DOMAIN rows = {} /\ mode = "ok"
                     THEN [vault EXCEPT ![Legacy] = key] ELSE vault
           base == MigrateLegacyProvider(key)
<1>1. /\ ~alive /\ alive' = TRUE /\ vault' = copied /\ rows' = ReconcileKeyState(base, copied)
      /\ routes' = routes /\ choice' = choice /\ mode' = mode /\ reqs' = reqs
      /\ ops' = ops /\ faults' = faults
  BY Zenon DEF StartUp
<1>2. cause' = cause \ IF mode # "ok" THEN {}
                       ELSE IF \A p \in Vendors : vault'[p] # NoKey => p \in DOMAIN rows'
                       THEN {"drift", "orphan"} ELSE {"drift"}
  BY Zenon DEF StartUp
<1>3. Busy = {} /\ Busy' = {} /\ rows \in Tables /\ vault \in [Slots -> Keys \cup {NoKey}]
  BY <1>1 DEF Inv, Types, TypeOK, Busy
<1>4. key \in Keys \cup {NoKey}
  BY <1>3, VendorAssumption DEF MigrateCredential, VaultRead, Slots
<1> HIDE DEF key
<1>5. copied \in [Slots -> Keys \cup {NoKey}]
  BY <1>3, <1>4
<1>6. \A p \in Vendors : copied[p] \in Keys \cup {NoKey}
  BY <1>5 DEF Slots
<1>7. /\ base \in Tables
      /\ OneMarked(rows) => OneMarked(base)
      /\ DOMAIN rows # {} => base = rows
      /\ DOMAIN rows = {} => DOMAIN base = {Legacy}
  <2>1. CASE DOMAIN rows # {}
    BY <1>3, <2>1 DEF MigrateLegacyProvider
  <2>2. CASE DOMAIN rows = {}
    <3> DEFINE r == [id |-> NewId(rows), enabled |-> TRUE, default |-> TRUE,
                     model |-> TRUE, mirror |-> key]
    <3>1. r \in Row
      BY <1>4, NewIdType DEF Row
    <3>2. base = With(rows, Legacy, r)
      BY <2>2 DEF MigrateLegacyProvider
    <3> HIDE DEF r, base
    <3>3. base \in Tables /\ DOMAIN base = DOMAIN rows \cup {Legacy}
      BY <1>3, <3>1, <3>2, WithTable, VendorAssumption
    <3>4. DOMAIN base = {Legacy}
      BY <2>2, <3>3
    <3>5. OneMarked(base)
      BY <3>4 DEF OneMarked
    <3> QED BY <2>2, <3>3, <3>4, <3>5
  <2> QED BY <2>1, <2>2
<1> HIDE DEF base, copied
<1>8. /\ rows' \in Tables /\ DOMAIN rows' = DOMAIN base
      /\ mode = "ok" => \A p \in DOMAIN base : rows'[p].mirror = copied[p]
      /\ OneMarked(base) => OneMarked(rows')
  <2> DEFINE up == ReconcileKeyState(base, copied)
  <2>1. /\ up \in Tables /\ DOMAIN up = DOMAIN base
        /\ mode = "ok" => \A p \in DOMAIN base : up[p].mirror = copied[p]
        /\ OneMarked(base) => OneMarked(up)
    BY <1>6, <1>7, ReconciledTable
  <2> HIDE DEF up
  <2>2. rows' = up
    BY <1>1 DEF up
  <2> QED BY <2>1, <2>2
<1>9. Types'
  <2>1. routes' \in [Tasks -> DOMAIN rows' \cup {NoVendor}]
    <3>1. DOMAIN rows \subseteq DOMAIN rows'
      BY <1>7, <1>8
    <3>2. routes \in [Tasks -> DOMAIN rows \cup {NoVendor}]
      BY DEF Inv, Types, TypeOK
    <3> QED BY <1>1, <3>1, <3>2
  <2>2. DOMAIN rows' \subseteq Vendors /\ \A p \in DOMAIN rows' : rows'[p] \in Row
    BY <1>8, TableFacts
  <2>3. cause' \subseteq Everything
    BY <1>2 DEF Inv, Types, TypeOK
  <2>4. vault' \in [Slots -> Keys \cup {NoKey}]
    BY <1>1, <1>5
  <2>5. TypeOK'
    BY <1>1, <2>1, <2>2, <2>3, <2>4 DEF Inv, Types, TypeOK
  <2> QED BY <1>1, <1>3, <1>8, <2>5 DEF Inv, Types
<1>10. Alone'
  BY <1>3 DEF Alone
<1>11. OnlyOneMarked'
  <2>1. "double" \notin cause' => "double" \notin cause
    BY <1>2
  <2>2. "double" \notin cause' => OneMarked(rows')
    BY <1>7, <1>8, <2>1 DEF Inv, OnlyOneMarked
  <2> QED BY <1>10, <2>2 DEF OnlyOneMarked, OneMarked
<1>12. Footing'
  <2> SUFFICES ASSUME "orphan" \notin cause' PROVE Footing'
    BY DEF Footing
  <2>1. mode = "ok"
    BY <1>2 DEF Inv, Footing
  <2>2. "drift" \notin cause'
    BY <1>2, <2>1
  <2>3. \A p \in Vendors : copied[p] # NoKey => p \in DOMAIN rows'
    <3>1. CASE "orphan" \in cause
      BY <1>1, <1>2, <2>1, <3>1
    <3>2. CASE "orphan" \notin cause
      <4>1. Agree(vault, rows, {})
        BY <1>3, <3>2 DEF Inv, Footing
      <4>2. \A p \in Vendors \ {Legacy} : copied[p] = vault[p]
        BY <1>3 DEF copied, Slots
      <4>3. DOMAIN rows # {} => copied = vault
        BY DEF copied
      <4> QED BY <1>7, <1>8, <4>1, <4>2, <4>3 DEF Agree
    <3> QED BY <3>1, <3>2
  <2>4. Agree(vault', rows', {})
    BY <1>1, <1>8, <2>1, <2>3 DEF Agree
  <2> QED BY <1>1, <1>3, <1>10, <2>1, <2>2, <2>4 DEF Footing
<1> QED BY <1>9, <1>11, <1>12 DEF Inv

\* The process stops and forgets what it was doing.
LEMMA StopKeeps == ASSUME Inv, Stop PROVE Inv'
<1>1. /\ reqs' = [r \in Requests |-> Idle] /\ alive' = FALSE
      /\ rows' = rows /\ routes' = routes /\ choice' = choice /\ vault' = vault
      /\ mode' = mode /\ ops' = ops
      /\ Busy # {} => cause' = cause \cup {"drift", "orphan"}
      /\ Busy = {} => cause' = cause
  BY DEF Stop, Blame
<1>2. Idle \in Request /\ Idle.at = "idle"
  <2>1. NoRows \in [{} -> Row]
    BY DEF NoRows
  <2>2. NoRows \in Tables
    BY <2>1, IsTable
  <2> QED BY <2>2 DEF Idle, Request
<1>3. Busy' = {} /\ reqs' \in [Requests -> Request] /\ \A r \in Requests : Consistent(reqs'[r])
  BY <1>1, <1>2 DEF Busy, Consistent
<1>4. faults' \in 0..MaxFaults
  BY BoundAssumption DEF Stop, Inv, Types, TypeOK
<1>5. cause' \subseteq Everything
  BY <1>1 DEF Inv, Types, TypeOK, Everything
<1>6. Types'
  BY <1>1, <1>3, <1>4, <1>5 DEF Inv, Types, TypeOK
<1>7. Alone'
  BY <1>3 DEF Alone
<1>8. OnlyOneMarked'
  BY <1>1, <1>7 DEF Inv, OnlyOneMarked, OneMarked
<1>9. Footing'
  BY <1>1, <1>3, <1>7 DEF Inv, Footing, Agree
<1> QED BY <1>6, <1>8, <1>9 DEF Inv

LEMMA VaultChangesKeeps == ASSUME Inv, VaultChanges PROVE Inv'
<1>1. /\ rows' = rows /\ routes' = routes /\ choice' = choice /\ vault' = vault
      /\ reqs' = reqs /\ alive' = alive /\ ops' = ops
      /\ cause' = cause \cup {"drift", "orphan"} /\ mode' \in {"ok", "mute", "gone"}
  BY DEF VaultChanges, Blame
<1>2. faults' \in 0..MaxFaults /\ cause' \subseteq Everything
  BY <1>1, BoundAssumption DEF VaultChanges, Inv, Types, TypeOK, Everything
<1>3. Types'
  BY <1>1, <1>2 DEF Inv, Types, TypeOK, Busy
<1>4. OnlyOneMarked' /\ Footing'
  BY <1>1 DEF Inv, OnlyOneMarked, OneMarked, Alone, Busy, Footing
<1> QED BY <1>3, <1>4 DEF Inv

LEMMA CommitFailsKeeps == ASSUME Inv, NEW r \in Requests, CommitFails(r) PROVE Inv'
<1>1. /\ rows' = rows /\ routes' = routes /\ choice' = choice /\ vault' = vault
      /\ mode' = mode /\ alive' = alive /\ ops' = ops
      /\ reqs' = [reqs EXCEPT ![r] = Idle]
      /\ cause' = cause \cup {"drift", "orphan"}
  BY DEF CommitFails, Blame
<1>2. Idle \in Request /\ Idle.at = "idle" /\ Consistent(Idle)
  <2>1. NoRows \in [{} -> Row]
    BY DEF NoRows
  <2>2. NoRows \in Tables
    BY <2>1, IsTable
  <2> QED BY <2>2 DEF Idle, Request, Consistent
<1>3. /\ reqs' \in [Requests -> Request]
      /\ \A s \in Requests : Consistent(reqs'[s])
      /\ ~alive' => Busy' = {}
      /\ \A s \in Requests \ {r} : reqs'[s] = reqs[s]
      /\ Busy' = Busy \ {r}
  BY <1>1, <1>2, OneRequestMoves DEF Inv
<1>4. faults' \in 0..MaxFaults /\ cause' \subseteq Everything
  BY <1>1, BoundAssumption DEF CommitFails, Inv, Types, TypeOK, Everything
<1>5. Types'
  BY <1>1, <1>3, <1>4 DEF Inv, Types, TypeOK
<1>6. Alone => Alone'
  BY <1>1, <1>3 DEF Alone, Busy
<1>7. OnlyOneMarked' /\ Footing'
  BY <1>1, <1>6 DEF Inv, OnlyOneMarked, OneMarked, Footing
<1> QED BY <1>5, <1>7 DEF Inv

LEMMA ServeKeeps == ASSUME Inv, NEW r \in Requests, Serve(r) PROVE Inv'
<1>1. CASE UpsertProvider(r)
  <2>1. PICK p \in Vendors, k \in Keys \cup {NoKey}, on \in BOOLEAN :
            Load(r, "upsert", p, k, on, NoAgent)
    BY <1>1, Zenon DEF UpsertProvider
  <2> QED BY <2>1, LoadKeeps
<1>2. CASE SaveKey(r)
  <2>1. PICK p \in Vendors, k \in Keys : Load(r, "key", p, k, TRUE, NoAgent)
    BY <1>2, Zenon DEF SaveKey
  <2> QED BY <2>1, LoadKeeps, VendorAssumption
<1>3. CASE DeleteKey(r)
  <2>1. PICK p \in Vendors : Load(r, "unkey", p, NoKey, TRUE, NoAgent)
    BY <1>3, Zenon DEF DeleteKey
  <2> QED BY <2>1, LoadKeeps
<1>4. CASE SetDefault(r)
  <2>1. PICK p \in Vendors : Load(r, "default", p, NoKey, TRUE, NoAgent)
    BY <1>4, Zenon DEF SetDefault
  <2> QED BY <2>1, LoadKeeps
<1>5. CASE ToggleProvider(r)
  <2>1. PICK p \in Vendors : Load(r, "toggle", p, NoKey, TRUE, NoAgent)
    BY <1>5, Zenon DEF ToggleProvider
  <2> QED BY <2>1, LoadKeeps
<1>6. CASE DeleteProvider(r)
  <2>1. PICK p \in Vendors : Load(r, "delete", p, NoKey, TRUE, NoAgent)
    BY <1>6, Zenon DEF DeleteProvider
  <2> QED BY <2>1, LoadKeeps
<1>7. CASE SaveEngine(r)
  <2>1. PICK p \in Vendors, k \in Keys \cup {NoKey}, a \in AllAgents \cup {NoAgent} :
            Load(r, "engine", p, k, TRUE, a)
    BY <1>7, Zenon DEF SaveEngine
  <2> QED BY <2>1, LoadKeeps
<1> QED BY <1>1, <1>2, <1>3, <1>4, <1>5, <1>6, <1>7, StoreKeyKeeps, RemoveKeyKeeps,
           SyncKeyStateKeeps, CommitKeeps DEF Serve

LEMMA NextInv == Inv /\ [Next]_vars => Inv'
<1> SUFFICES ASSUME Inv, [Next]_vars PROVE Inv'
  OBVIOUS
<1>1. CASE Next
  BY <1>1, ServeKeeps, CommitFailsKeeps, SaveRoutesKeeps, StartUpKeeps, StopKeeps,
     VaultChangesKeeps DEF Next
<1>2. CASE UNCHANGED vars
  BY <1>2 DEF vars, Inv, Types, TypeOK, OnlyOneMarked, OneMarked, Footing, Agree, Alone, Busy
<1> QED BY <1>1, <1>2

\* What the other theorems follow from: the vault, the rows and each request's
\* copy fit together at every step of a request, not only between requests.
THEOREM ProvidersInvariant == Spec0 => []Inv
<1> QED BY InitInv, NextInv, PTL DEF Spec0

\* Rows, routes, the selection and the vault keep their types under any
\* interleaving of requests, whatever fails.
THEOREM ProvidersTypes == Spec0 => []TypeOK
<1>1. Inv => TypeOK
  BY DEF Inv, Types
<1> QED BY <1>1, ProvidersInvariant, PTL

\* set_default and the deletion of a default leave one default at most
\* (routers/providers.py), for any number of requests one after the other.
THEOREM AtMostOneDefault == Spec0 => []OneDefault
<1>1. Inv => OneDefault
  BY DEF Inv, OnlyOneMarked, OneMarked, OneDefault
<1> QED BY <1>1, ProvidersInvariant, PTL

\* The mirror of a credential is never wrong, and no credential outlives its
\* provider, without a fault or two overlapping requests to blame.
THEOREM DriftAlwaysHasACause == Spec0 => []DriftHasACause
<1>1. Inv => DriftHasACause
  BY DEF Inv, Types, Tables, Footing, Agree, DriftHasACause
<1> QED BY <1>1, ProvidersInvariant, PTL

\* What engine_status shows as ready has the key its agent will be given.
THEOREM ReadyEngineRuns == Spec0 => []ReadyEngineCanRun
<1>1. Inv => ReadyEngineCanRun
  <2> DEFINE p == ResolveRow(rows, choice.provider)
             s == ResolveSpec(choice.agent, p)
  <2> SUFFICES ASSUME Inv, alive, Busy = {}, EngineStatus(rows, choice).ready,
                      cause \cap {"drift", "orphan"} = {}
               PROVE  /\ p \in Keyless \/ vault[p] # NoKey
                      /\ p # NoVendor /\ s.vendor \in {NoVendor, p}
    BY DEF ReadyEngineCanRun, EngineStatus
  <2>1. p # NoVendor /\ s # NoAgent /\ IsConfigured(rows, p)
    BY DEF EngineStatus
  <2>2. p \in DOMAIN rows /\ DOMAIN rows \subseteq Vendors
    BY <2>1, DefaultIsEnabled, TableFacts DEF ResolveRow, Enabled, Inv, Types
  <2>3. rows[p].mirror = vault[p]
    BY <2>2 DEF Inv, Footing, Agree
  <2>4. s.vendor \in {NoVendor, p}
    BY <2>1 DEF ResolveSpec, DefaultAgent, Spec
  <2> QED BY <2>1, <2>3, <2>4 DEF IsConfigured
<1> QED BY <1>1, ProvidersInvariant, PTL
=============================================================================
