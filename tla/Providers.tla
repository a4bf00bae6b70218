------------------------------ MODULE Providers ------------------------------
(***************************************************************************)
(* The provider settings: rows in the database, credentials in the OS      *)
(* vault.  A request loads rows, writes the vault, reads it back into the  *)
(* row's mirror (has_api_key, api_key_last_four) and commits; the vault is *)
(* outside the transaction, and requests run on a thread pool, so each of  *)
(* these is a step of its own.  A commit writes only what the request      *)
(* changed in its copy, as SQLAlchemy does.  The vault may refuse calls    *)
(* for a while ("mute": calls raise, swallowed by keyring_service) or have *)
(* no backend ("gone"); a commit may fail; the process may die and start   *)
(* again, when it migrates the legacy settings and realigns the mirrors.   *)
(***************************************************************************)
EXTENDS Engine

CONSTANTS
    Requests,     \* worker threads that serve settings requests
    Tasks,        \* the tasks with a route of their own
    MaxOps,       \* requests served in one behaviour
    MaxFaults     \* faults of the vault, the database and the process

ASSUME BoundAssumption == MaxOps \in Nat /\ MaxFaults \in Nat

VARIABLES
    rows, routes, choice,   \* committed: providers, task routes, selection
    vault, mode,            \* credentials by slot, and whether it answers
    reqs,                   \* what each worker is doing
    alive, ops, faults,
    cause                   \* which promises have lost their footing

vars == <<rows, routes, choice, vault, mode, reqs, alive, ops, faults, cause>>

LegacySlot == NoVendor      \* the slot of single-provider installs
Slots == Vendors \cup {LegacySlot}
NoRows == [p \in {} |-> 0]
Idle == [op |-> "none", at |-> "idle", p |-> NoVendor, key |-> NoKey,
         on |-> TRUE, agent |-> NoAgent, seen |-> NoRows, read |-> NoKey,
         sync |-> FALSE]
Unchosen == [provider |-> NoVendor, agent |-> NoAgent]

----------------------------------------------------------------------------
(* Copies of the rows.                                                     *)

NewId(rs) == 1 + Cardinality({i \in 1..9 : \E p \in DOMAIN rs : rs[p].id >= i})
With(rs, p, r) == [q \in DOMAIN rs \cup {p} |-> IF q = p THEN r ELSE rs[q]]
Without(rs, p) == [q \in DOMAIN rs \ {p} |-> rs[q]]

\* A new row; the first one a user configures becomes the default.
CreateRow(rs, p, on) ==
    With(rs, p, [id |-> NewId(rs), enabled |-> on \/ DOMAIN rs = {},
                 default |-> DOMAIN rs = {}, model |-> TRUE, mirror |-> NoKey])

Upserted(rs, p, on) ==
    IF p \in DOMAIN rs THEN [rs EXCEPT ![p].enabled = on] ELSE CreateRow(rs, p, on)

\* A defect: a default that leaves the others marked.
MadeDefaultToo(rs, p) == [rs EXCEPT ![p].default = TRUE, ![p].enabled = TRUE]

MadeDefault(rs, p) ==
    [q \in DOMAIN rs |->
        [rs[q] EXCEPT !.default = (q = p), !.enabled = @ \/ q = p]]

\* The row is gone; when it was the default another enabled row becomes it.
Deleted(rs, p) ==
    LET left == Without(rs, p)
        next == DefaultProvider(left)
    IN  IF rs[p].default /\ next # NoVendor
        THEN [left EXCEPT ![next].default = TRUE] ELSE left

Mirrored(rs, p, key) == IF p \in DOMAIN rs THEN [rs EXCEPT ![p].mirror = key] ELSE rs

\* What request q makes of its copy.
Desired(q) ==
    LET s == q.seen
        p == q.p
        Synced(rs) == IF q.sync THEN Mirrored(rs, p, q.read) ELSE rs
    IN  CASE q.op = "upsert"  -> Synced(Upserted(s, p, q.on))
          [] q.op = "engine"  -> Synced(Upserted(s, p, TRUE))
          [] q.op \in {"key", "unkey"} -> Synced(s)
          [] q.op = "default" -> MadeDefault(s, p)
          [] q.op = "toggle"  -> [s EXCEPT ![p].enabled = ~@]
          [] q.op = "delete"  -> Deleted(s, p)
          [] OTHER -> s

\* The committed rows after it: only the attributes it changed are written.
Written(old, mine, now) == IF mine = old THEN now ELSE mine
MergedRow(old, mine, now) ==
    [id      |-> Written(old.id, mine.id, now.id),
     enabled |-> Written(old.enabled, mine.enabled, now.enabled),
     default |-> Written(old.default, mine.default, now.default),
     model   |-> Written(old.model, mine.model, now.model),
     mirror  |-> Written(old.mirror, mine.mirror, now.mirror)]
Merged(old, mine, now) ==
    [q \in (DOMAIN mine \ (DOMAIN old \ DOMAIN now))
              \cup (DOMAIN now \ (DOMAIN old \ DOMAIN mine)) |->
        IF q \in DOMAIN mine \cap DOMAIN now
        THEN MergedRow(old[q], mine[q], now[q])
        ELSE IF q \in DOMAIN mine THEN mine[q] ELSE now[q]]

\* It raises instead when it creates a row that is there by now, or writes
\* one that is gone.
Conflicts(old, mine, now) ==
    \/ (DOMAIN mine \ DOMAIN old) \cap DOMAIN now # {}
    \/ \E q \in DOMAIN mine \cap DOMAIN old :
          q \notin DOMAIN now /\ mine[q] # old[q]
    \/ \E q \in DOMAIN old \ DOMAIN mine : q \notin DOMAIN now

----------------------------------------------------------------------------
(* The vault.                                                              *)

\* Reading never raises: a vault that does not answer looks empty.
VaultRead(slot) == IF mode = "ok" THEN vault[slot] ELSE NoKey
IsAvailable == mode # "gone"

----------------------------------------------------------------------------
(* Requests.                                                               *)

Busy == {r \in Requests : reqs[r].at # "idle"}
Blame(what) == cause' = cause \cup what
Everything == {"drift", "orphan", "double"}

Init ==
    /\ rows = NoRows /\ routes = [t \in Tasks |-> NoVendor]
    /\ choice = Unchosen
    /\ vault \in [Slots -> {NoKey} \cup Keys]
    /\ \A p \in Vendors : vault[p] = NoKey
    /\ mode = "ok" /\ reqs = [r \in Requests |-> Idle]
    /\ alive = FALSE /\ ops = 0 /\ faults = 0 /\ cause = {}

\* A handler starts and loads the rows it works on; 404 when its row is not
\* there.  Two requests in flight at once excuse what follows.
Load(r, op, p, key, on, agent) ==
    /\ alive /\ reqs[r].at = "idle" /\ ops < MaxOps
    /\ op \notin {"upsert", "engine"} => p \in DOMAIN rows
    /\ reqs' = [reqs EXCEPT ![r] =
                  [op |-> op, p |-> p, key |-> key, on |-> on, agent |-> agent,
                   at |-> IF op \in {"key", "unkey", "delete"} \/ key # NoKey
                          THEN "loaded" ELSE "commit",
                   seen |-> rows, read |-> NoKey, sync |-> FALSE]]
    /\ ops' = ops + 1
    /\ IF Busy # {} THEN Blame(Everything) ELSE UNCHANGED cause
    /\ UNCHANGED <<rows, routes, choice, vault, mode, alive, faults>>

UpsertProvider(r) ==
    \E p \in Vendors, k \in Keys \cup {NoKey}, on \in BOOLEAN :
        Load(r, "upsert", p, k, on, NoAgent)
SaveKey(r) == \E p \in Vendors, k \in Keys : Load(r, "key", p, k, TRUE, NoAgent)
DeleteKey(r) == \E p \in Vendors : Load(r, "unkey", p, NoKey, TRUE, NoAgent)
SetDefault(r) == \E p \in Vendors : Load(r, "default", p, NoKey, TRUE, NoAgent)
ToggleProvider(r) == \E p \in Vendors : Load(r, "toggle", p, NoKey, TRUE, NoAgent)
DeleteProvider(r) == \E p \in Vendors : Load(r, "delete", p, NoKey, TRUE, NoAgent)
\* Its steps run on the event loop; only its load and commit are apart from
\* another save_engine's.  The orders this adds are among those excused.
SaveEngine(r) ==
    \E p \in Vendors, k \in Keys \cup {NoKey}, a \in AllAgents \cup {NoAgent} :
        Load(r, "engine", p, k, TRUE, a)

\* set_provider_key stores the key, or raises and the handler returns at
\* once, keeping the rows it has flushed.
StoreKey(r) ==
    /\ reqs[r].at = "loaded" /\ reqs[r].key # NoKey
    /\ IF mode = "ok"
       THEN /\ vault' = [vault EXCEPT ![reqs[r].p] = reqs[r].key]
            /\ reqs' = [reqs EXCEPT ![r].at = "stored"]
       ELSE /\ reqs' = [reqs EXCEPT ![r].at = "refused"]
            /\ UNCHANGED vault
    /\ UNCHANGED <<rows, routes, choice, mode, alive, ops, faults, cause>>

\* delete_provider_key removes the key, or reports that there was none.
RemoveKey(r) ==
    /\ reqs[r].at = "loaded" /\ reqs[r].key = NoKey
    /\ vault' = IF mode = "ok" THEN [vault EXCEPT ![reqs[r].p] = NoKey] ELSE vault
    /\ reqs' = [reqs EXCEPT ![r].at =
                    IF reqs[r].op = "unkey" THEN "stored" ELSE "commit"]
    /\ UNCHANGED <<rows, routes, choice, mode, alive, ops, faults, cause>>

\* sync_key_state reads the vault back.
SyncKeyState(r) ==
    /\ reqs[r].at = "stored"
    /\ reqs' = [reqs EXCEPT ![r].at = "commit", ![r].sync = TRUE,
                            ![r].read = VaultRead(reqs[r].p)]
    /\ UNCHANGED <<rows, routes, choice, vault, mode, alive, ops, faults, cause>>

\* The agent save_engine stores: the one asked for, the vendor's own, none.
Selected(p, asked) ==
    IF asked = NoAgent \/ asked.vendor \notin {NoVendor, p}
    THEN DefaultAgent(p) ELSE asked

\* A chat-only agent is refused after the row and the key are saved.
Refused(r) == /\ reqs[r].agent # NoAgent
              /\ reqs[r].agent \notin CapableAgents

Select(r) ==
    IF reqs[r].op = "engine" /\ reqs[r].at = "commit" /\ ~Refused(r)
    THEN choice' = [provider |-> reqs[r].p,
                    agent |-> Selected(reqs[r].p, reqs[r].agent)]
    ELSE UNCHANGED choice

\* The routes of a deleted provider go with it.
Unroute(now) ==
    routes' = [t \in Tasks |-> IF routes[t] \in now THEN routes[t] ELSE NoVendor]

\* The session of the request commits, or rolls back when it raises.
Commit(r) ==
    /\ reqs[r].at \in {"commit", "refused"}
    /\ LET old == reqs[r].seen
           mine == Desired(reqs[r])
       IN  IF Conflicts(old, mine, rows)
           THEN UNCHANGED <<rows, routes, choice>>
           ELSE /\ rows' = Merged(old, mine, rows)
                /\ Unroute(DOMAIN rows') /\ Select(r)
    /\ reqs' = [reqs EXCEPT ![r] = Idle]
    /\ UNCHANGED <<vault, mode, alive, ops, faults, cause>>

\* A route names an existing row, or is cleared back to the default.
SaveRoutes ==
    /\ alive /\ ops < MaxOps
    /\ \E t \in Tasks, p \in DOMAIN rows \cup {NoVendor} :
          routes' = [routes EXCEPT ![t] = p]
    /\ ops' = ops + 1
    /\ UNCHANGED <<rows, choice, vault, mode, reqs, alive, faults, cause>>

----------------------------------------------------------------------------
(* Start-up and faults.                                                    *)

\* The legacy credential is copied to the vendor's slot; the row remembers
\* it even when the copy fails.
MigrateCredential ==
    IF VaultRead(Legacy) # NoKey THEN VaultRead(Legacy) ELSE VaultRead(LegacySlot)

\* With no provider row the single-provider settings become one.
MigrateLegacyProvider(key) ==
    IF DOMAIN rows # {} THEN rows
    ELSE With(rows, Legacy, [id |-> NewId(rows), enabled |-> TRUE,
                             default |-> TRUE, model |-> TRUE, mirror |-> key])

\* A defect: the flag is set, never cleared.
ReconcileNeverClears(rs, v) ==
    [p \in DOMAIN rs |->
        [rs[p] EXCEPT !.mirror = IF mode = "ok" /\ v[p] # NoKey THEN v[p] ELSE @]]

\* Every mirror is realigned; it is cleared only while a backend is there.
ReconcileKeyState(rs, v) ==
    [p \in DOMAIN rs |->
        LET key == IF mode = "ok" THEN v[p] ELSE NoKey
        IN  [rs[p] EXCEPT !.mirror =
                IF key # NoKey THEN key ELSE IF IsAvailable THEN NoKey ELSE @]]

\* init_db: migrate, then reconcile, in one transaction.
StartUp ==
    /\ ~alive
    /\ LET key == MigrateCredential
           copied == IF DOMAIN rows = {} /\ mode = "ok"
                     THEN [vault EXCEPT ![Legacy] = key] ELSE vault
       IN  /\ vault' = copied
           /\ rows' = ReconcileKeyState(MigrateLegacyProvider(key), copied)
    /\ alive' = TRUE
    /\ cause' = cause \ IF mode # "ok" THEN {}
                        ELSE IF \A p \in Vendors : vault'[p] # NoKey => p \in DOMAIN rows'
                        THEN {"drift", "orphan"} ELSE {"drift"}
    /\ UNCHANGED <<routes, choice, mode, reqs, ops, faults>>

\* The process stops; whatever a request had not committed is lost.
Stop ==
    /\ alive /\ alive' = FALSE
    /\ faults < MaxFaults /\ faults' = faults + 1
    /\ reqs' = [r \in Requests |-> Idle]
    /\ IF Busy # {} THEN Blame({"drift", "orphan"}) ELSE UNCHANGED cause
    /\ UNCHANGED <<rows, routes, choice, vault, mode, ops>>

\* The vault stops answering or answers again.
VaultChanges ==
    /\ faults < MaxFaults /\ faults' = faults + 1
    /\ mode' \in {"ok", "mute", "gone"} \ {mode}
    /\ Blame({"drift", "orphan"})
    /\ UNCHANGED <<rows, routes, choice, vault, reqs, alive, ops>>

\* The commit of a request fails and rolls it back.
CommitFails(r) ==
    /\ reqs[r].at \in {"commit", "refused"}
    /\ faults < MaxFaults /\ faults' = faults + 1
    /\ reqs' = [reqs EXCEPT ![r] = Idle]
    /\ Blame({"drift", "orphan"})
    /\ UNCHANGED <<rows, routes, choice, vault, mode, alive, ops>>

Serve(r) ==
    \/ UpsertProvider(r) \/ SaveKey(r) \/ DeleteKey(r) \/ SetDefault(r)
    \/ ToggleProvider(r) \/ DeleteProvider(r) \/ SaveEngine(r)
    \/ StoreKey(r) \/ RemoveKey(r) \/ SyncKeyState(r) \/ Commit(r)

Next ==
    \/ \E r \in Requests : Serve(r) \/ CommitFails(r)
    \/ SaveRoutes \/ StartUp \/ Stop \/ VaultChanges

Spec0 == Init /\ [][Next]_vars

----------------------------------------------------------------------------
(* Properties.                                                             *)

\* Types of the state.
TypeOK ==
    /\ DOMAIN rows \subseteq Vendors /\ \A p \in DOMAIN rows : rows[p] \in Row
    /\ routes \in [Tasks -> DOMAIN rows \cup {NoVendor}]
    /\ choice \in [provider : Vendors \cup {NoVendor},
                   agent : CapableAgents \cup {NoAgent}]
    /\ vault \in [Slots -> Keys \cup {NoKey}]
    /\ mode \in {"ok", "mute", "gone"} /\ cause \subseteq Everything
    /\ alive \in BOOLEAN /\ ops \in 0..MaxOps /\ faults \in 0..MaxFaults

\* Between requests every row mirrors its vault slot (provider_migration.py) and
\* no credential outlives its provider (routers/providers.py, delete_provider).
\* They drift apart only after a fault or two requests at once, or over a
\* credential such a fault left without its row, and a start with a vault that
\* answers brings them together again.
DriftHasACause ==
    alive /\ Busy = {} /\ "orphan" \notin cause =>
        /\ \A p \in Vendors : vault[p] # NoKey => p \in DOMAIN rows
        /\ "drift" \notin cause => \A p \in DOMAIN rows : rows[p].mirror = vault[p]

\* One provider at most is the default, whatever faults and restarts there
\* are, as long as requests come one after the other (set_default).
OneDefault ==
    "double" \notin cause =>
        \A p, q \in DOMAIN rows : rows[p].default /\ rows[q].default => p = q

\* An engine shown as ready can run: the vault holds the key of the provider
\* its agent will call, and a vendor's agent is never given another vendor's
\* key (research/registry.py, engine_status and build_agent).
ReadyEngineCanRun ==
    LET e == EngineStatus(rows, choice)
    IN  (/\ alive /\ Busy = {} /\ e.ready
         /\ cause \cap {"drift", "orphan"} = {}) =>
            /\ e.provider \in Keyless \/ vault[e.provider] # NoKey
            /\ e.agent.vendor \in {NoVendor, e.provider}
=============================================================================
