------------------------------- MODULE Engine -------------------------------
(***************************************************************************)
(* The AI services a user has configured and what is decided from them:    *)
(* the provider behind the research engine and its agent, the provider and *)
(* model behind each task, and why the engine cannot run when it cannot.   *)
(* Everything here is a function of the provider rows, the task routes and *)
(* the stored choice; Providers changes them and Agents runs on them.      *)
(***************************************************************************)
EXTENDS Naturals, FiniteSets

CONSTANTS
    Vendors,      \* provider ids; a vendor has at most one row
    Remote,       \* the vendors with a web-search agent of their own
    Keyless,      \* the vendors whose preset needs no key
    Legacy,       \* "deepseek", the vendor of single-provider installs
    Keys,
    NoKey, NoVendor, NoAgent

ASSUME VendorAssumption ==
    /\ Remote \subseteq Vendors /\ Keyless \subseteq Vendors
    /\ Legacy \in Vendors /\ NoVendor \notin Vendors
    /\ NoKey \notin Keys

----------------------------------------------------------------------------
(* The catalogue of agents.                                                *)

Spec(vendor, kind, capable) ==
    [vendor |-> vendor, kind |-> kind, capable |-> capable]

LocalAgent == Spec(NoVendor, "local", TRUE)
NativeAgents == {Spec(p, "remote", TRUE) : p \in Remote}
ChatOnly(p) == Spec(p, "remote", FALSE)
AllAgents == {LocalAgent} \cup NativeAgents
                          \cup {ChatOnly(p) : p \in Vendors \ Remote}

CapableAgents == {s \in AllAgents : s.capable}

\* A defect: a vendor without search gets the local engine unasked.
DefaultAgentOrLocal(p) ==
    IF Spec(p, "remote", TRUE) \in NativeAgents
    THEN Spec(p, "remote", TRUE) ELSE LocalAgent

\* What is selected for a user who selected nothing: never local_collection.
DefaultAgent(p) ==
    IF Spec(p, "remote", TRUE) \in NativeAgents
    THEN Spec(p, "remote", TRUE) ELSE NoAgent

----------------------------------------------------------------------------
(* The rows of llm_provider_configs, by vendor.  mirror is has_api_key and *)
(* api_key_last_four, which together name the key they were taken from.    *)

Row == [id : Nat, enabled : BOOLEAN, default : BOOLEAN, model : BOOLEAN,
        mirror : Keys \cup {NoKey}]

Enabled(rows) == {p \in DOMAIN rows : rows[p].enabled}
Oldest(rows, S) == CHOOSE p \in S : \A q \in S : rows[p].id <= rows[q].id

\* The enabled default, else any enabled row, else nothing.
DefaultProvider(rows) ==
    LET on == Enabled(rows)
        marked == {p \in on : rows[p].default}
    IN  IF marked # {} THEN Oldest(rows, marked)
        ELSE IF on # {} THEN Oldest(rows, on) ELSE NoVendor

IsConfigured(rows, p) ==
    rows[p].model /\ (p \in Keyless \/ rows[p].mirror # NoKey)

\* The row behind the research engine: the chosen one while it is enabled.
ResolveRow(rows, chosen) ==
    IF chosen \in Enabled(rows) THEN chosen ELSE DefaultProvider(rows)

\* A defect: the stored agent is kept whatever the provider is by now.
ResolveSpecAnyVendor(stored, p) ==
    IF stored \in CapableAgents THEN stored ELSE DefaultAgent(p)

\* The stored agent while it can research and belongs to that vendor.
ResolveSpec(stored, p) ==
    IF /\ stored \in CapableAgents
       /\ stored.vendor \in {NoVendor, p}
    THEN stored ELSE DefaultAgent(p)

\* What the research engine block shows and build_agent obeys.
EngineStatus(rows, choice) ==
    LET p == ResolveRow(rows, choice.provider)
        s == ResolveSpec(choice.agent, p)
    IN  [ready    |-> p # NoVendor /\ s # NoAgent /\ IsConfigured(rows, p),
         provider |-> p,
         agent    |-> IF p = NoVendor THEN NoAgent ELSE s]

----------------------------------------------------------------------------
(* Which provider serves a task, decided on LLMService's snapshot of the   *)
(* enabled rows: the route's, the default, or any.                         *)

Resolve(rows, route) ==
    IF route \in Enabled(rows) THEN route ELSE DefaultProvider(rows)

\* The first objection to running the analysis tasks, if there is one.
LlmReady(rows, vault, route) ==
    LET p == Resolve(rows, route)
    IN  p # NoVendor /\ (p \in Keyless \/ vault[p] # NoKey)
=============================================================================
