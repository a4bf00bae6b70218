------------------------------- MODULE Agents -------------------------------
(***************************************************************************)
(* One research pass: the agent that build_agent makes of the current      *)
(* settings, the requests it sends to a model, the attempts and repairs,   *)
(* the usage records it leaves and the result it returns or the error it   *)
(* raises.  A remote agent asks its vendor, which searches; the local one  *)
(* plans queries with the model, collects with AIOS's own collectors and   *)
(* has the model analyse what was fetched.  The user may change the        *)
(* settings while a pass runs.                                             *)
(***************************************************************************)
EXTENDS Engine, ResearchResult

CONSTANTS
    Checked,      \* vendors whose adapter insists that a search was made
    Answers,      \* raw answers a model may give
    Finds,        \* candidate lists the collectors may return
    Retries,      \* attempts of one call unless the caller says otherwise
    MaxEvidence,  \* candidates kept for analysis
    MaxEdits      \* settings changed in one behaviour

ASSUME AgentAssumption ==
    /\ Checked \subseteq Remote
    /\ {Retries, MaxEvidence} \subseteq Nat \ {0} /\ MaxEdits \in Nat

\* What a JSON array is read as, and what the collectors return: a list.
ASSUME AnswerAssumption ==
    /\ \A raw \in Answers :
          /\ IsList(raw.sources) /\ IsList(raw.events)
          /\ \A n \in DOMAIN raw.events :
                raw.events[n] # Junk => IsList(raw.events[n].ids)
    /\ \A found \in Finds : IsList(found)

VARIABLES
    rows, vault, choice, route,   \* the settings
    pass,                         \* the research pass
    call,                         \* the model call it is waiting for
    usage,                        \* the last call and the record it left
    edits

settings == <<rows, vault, choice, route>>
vars == <<settings, pass, call, usage, edits>>

NoCall == [attempt |-> 0, budget |-> 0]
NoUsage == [sent |-> 0, ok |-> FALSE, recorded |-> FALSE, attempts |-> 0,
            refused |-> FALSE]
NewPass == [at |-> "idle", agent |-> NoAgent, provider |-> NoVendor,
            asked |-> NoAgent, serves |-> NoVendor,
            attempt |-> 0, sent |-> 0, found |-> <<>>, collected |-> "none",
            broken |-> FALSE, raw |-> Junk, result |-> Junk]

----------------------------------------------------------------------------
(* Settings.                                                               *)

\* Rows whose mirrors agree with the vault; Providers says when they do.
Settled(on, keyed) ==
    [p \in Vendors |-> [id |-> 1, enabled |-> p \in on, default |-> p = Legacy,
                        model |-> TRUE,
                        mirror |-> IF p \in keyed THEN CHOOSE k \in Keys : TRUE
                                   ELSE NoKey]]

Mirrored(r) == [p \in Vendors |-> r[p].mirror]

Init ==
    /\ rows = Settled(Vendors, Vendors) /\ vault = Mirrored(rows)
    /\ choice \in [provider : Vendors, agent : CapableAgents \cup {NoAgent}]
    /\ route = NoVendor
    /\ pass = NewPass /\ call = NoCall /\ usage = NoUsage /\ edits = 0

\* A provider switched off or its key removed, another engine selected,
\* another route: until the pass has read the settings for the last time.
Edit ==
    /\ pass.at \in {"idle", "load"}
    /\ edits < MaxEdits /\ edits' = edits + 1
    /\ \/ /\ \E p \in Vendors : rows' \in {Settled(Vendors \ {p}, Vendors),
                                           Settled(Vendors, Vendors \ {p})}
          /\ vault' = Mirrored(rows')
          /\ UNCHANGED <<choice, route>>
       \/ /\ \E p \in Vendors, s \in CapableAgents \cup {NoAgent} :
                choice' = [provider |-> p, agent |-> s]
          /\ UNCHANGED <<rows, vault, route>>
       \/ /\ route' \in Vendors \cup {NoVendor}
          /\ UNCHANGED <<rows, vault, choice>>
    /\ UNCHANGED <<pass, call, usage>>

----------------------------------------------------------------------------
(* Building the agent.                                                     *)

Ends(p) == [p EXCEPT !.at = "failed"]

\* build_agent refuses what engine_status says cannot run.
BuildAgent ==
    /\ pass.at = "idle"
    /\ LET e == EngineStatus(rows, choice)
           p == [NewPass EXCEPT !.asked = choice.agent, !.agent = e.agent,
                                !.provider = e.provider]
       IN  pass' = IF ~e.ready THEN Ends(p)
                   ELSE [p EXCEPT !.at = IF e.agent.kind = "local"
                                         THEN "load" ELSE "ask"]
    /\ UNCHANGED <<settings, call, usage, edits>>

\* LLMService.load takes its snapshot in a session of its own, later; the
\* local agent is ready when it can serve topic_analysis.  The research tasks
\* have no route of their own: the default provider will serve them, if it
\* has a key.
LoadSnapshot ==
    /\ pass.at = "load"
    /\ pass' = IF LlmReady(rows, vault, route)
               THEN [pass EXCEPT !.at = "plan", !.serves =
                        IF LlmReady(rows, vault, NoVendor)
                        THEN Resolve(rows, NoVendor) ELSE NoVendor]
               ELSE Ends(pass)
    /\ UNCHANGED <<settings, call, usage, edits>>

----------------------------------------------------------------------------
(* A structured call of the LLM layer (generate_json).                     *)

\* The pass goes on with the outcome of its call: "answer", "json" when the
\* last attempt was garbled, "llm" for every other error.
Resume(outcome, raw) ==
    IF pass.at = "plan" THEN [pass EXCEPT !.at = "collect"]   \* or the brief's own words
    ELSE IF outcome = "answer" /\ Validate(raw) # Junk
    THEN [pass EXCEPT !.at = "attach", !.raw = raw, !.result = Validate(raw)]
    ELSE IF outcome \in {"answer", "json"} /\ pass.attempt = 1
    THEN [pass EXCEPT !.attempt = 2]
    ELSE Ends(pass)

\* Every call that sent a request leaves one record; a failed one says that
\* it used its whole budget.
Record(sent, ok, attempts) ==
    usage' = [sent |-> sent, ok |-> ok, recorded |-> TRUE, attempts |-> attempts,
              refused |-> FALSE]

\* provider_for, then the key, then the first request.
CallModel ==
    /\ pass.at \in {"plan", "analyze"} /\ call = NoCall
    /\ IF pass.serves # NoVendor
       THEN /\ call' = [attempt |-> 1, budget |-> IF pass.at = "plan" THEN Retries ELSE 2]
            /\ UNCHANGED <<pass, usage>>
       ELSE /\ pass' = Resume("llm", Junk)
            /\ usage' = NoUsage /\ UNCHANGED call
    /\ UNCHANGED <<settings, edits>>

\* Another attempt follows a failure of the transport, after a wait, and a
\* garbled reply, which is sent back for repair.
TryAgain ==
    /\ call.attempt < call.budget
    /\ call' = [call EXCEPT !.attempt = @ + 1]
    /\ pass' = [pass EXCEPT !.sent = @ + 1] /\ UNCHANGED usage

\* A defect: a call is recorded as one request, however many it took.
ConcludeOnce(outcome, raw) ==
    /\ call' = NoCall
    /\ Record(call.attempt, outcome = "answer", 1)
    /\ pass' = [Resume(outcome, raw) EXCEPT !.sent = @ + 1]

\* The answer is returned, or the error of the last attempt raised.
Conclude(outcome, raw) ==
    /\ call' = NoCall
    /\ Record(call.attempt, outcome = "answer",
              IF outcome = "answer" THEN call.attempt ELSE call.budget)
    /\ pass' = [Resume(outcome, raw) EXCEPT !.sent = @ + 1]

Attempt ==
    /\ call # NoCall
    /\ \/ TryAgain
       \/ \E raw \in Answers : Conclude("answer", raw)
       \/ Conclude("llm", Junk)      \* refused at once, or never reached
       \/ call.attempt = call.budget /\ Conclude("json", Junk)
    /\ UNCHANGED <<settings, edits>>

----------------------------------------------------------------------------
(* The local agent between its calls.                                      *)

\* A candidate is [url, story, banned]: the same page, or the same story
\* told elsewhere, is kept once; a banned keyword drops it.
Same(c, d) == c.url = d.url \/ c.story = d.story
DedupeCandidates(found) ==
    Keep(found, CHOOSE kept \in SUBSET DOMAIN found :
                    \A n \in DOMAIN found :
                        n \in kept <=> ~\E m \in kept : m < n /\ Same(found[m], found[n]))
FilterExcluded(found) == Keep(found, {n \in DOMAIN found : ~found[n].banned})

\* What is read and numbered from zero for the model.
Prepare(found) == Take(DedupeCandidates(FilterExcluded(found)), MaxEvidence)

\* Nothing new was found: a result that only says how well AIOS could look.
FoundNothing(collected) ==
    [coverage |-> IF collected = "partial" THEN "partial" ELSE "complete",
     notes |-> <<>>, text |-> FALSE, sections |-> <<>>, events |-> <<>>,
     sources |-> <<>>, examined |-> 0]

Collect ==
    /\ pass.at = "collect"
    /\ \E found \in Finds, status \in {"ok", "partial", "failed"}, broken \in BOOLEAN :
        LET docs == Prepare(found)
            p == [pass EXCEPT !.found = docs, !.collected = status, !.broken = broken]
        IN  /\ status = "ok" \/ broken
            /\ status = "failed" => found = <<>>
            /\ pass' = IF status = "failed" THEN Ends(p)
                       ELSE IF docs = <<>>
                       THEN [p EXCEPT !.at = "done", !.result = FoundNothing(status)]
                       ELSE [p EXCEPT !.at = "analyze", !.attempt = 1]
    /\ UNCHANGED <<settings, call, usage, edits>>

Cites(r) == UNION ({ToSet(e.ids) : e \in ToSet(r.events)}
                   \cup {UNION {ToSet(ids) : ids \in ToSet(s)} : s \in ToSet(r.sections)})

\* The model's own source list is replaced by the fetched documents it cites.
AttachSources(r, docs) ==
    LET numbered == [n \in DOMAIN docs |-> [id |-> n - 1, url |-> docs[n].url]]
        cited == {n \in DOMAIN docs : n - 1 \in Cites(r)}
    IN  [r EXCEPT !.sources = Keep(numbered, cited), !.examined = Len(docs)]

\* A defect: only an incomplete collection counts, not a broken source.
CoverageOfCollection(r) ==
    [r EXCEPT !.coverage = IF pass.collected = "partial" /\ @ # "failed"
                           THEN "partial" ELSE @]

\* A collection that went badly lowers the model's claim, never raises it.
ApplyCollectionCoverage(r) ==
    LET lowered == IF pass.collected = "partial" /\ r.coverage # "failed"
                   THEN "partial" ELSE r.coverage
    IN  [r EXCEPT !.coverage = IF pass.broken /\ lowered = "complete"
                               THEN "partial" ELSE lowered]

Attach ==
    /\ pass.at = "attach"
    /\ pass' = [pass EXCEPT !.at = "done", !.result =
                    ApplyCollectionCoverage(AttachSources(pass.result, pass.found))]
    /\ UNCHANGED <<settings, call, usage, edits>>

----------------------------------------------------------------------------
(* A remote agent (WebResearchAgent.run).                                  *)

\* An HTTP status of 400 and above, or a vendor that did not search and is
\* checked for it, is raised at once and leaves no record.
Refuse ==
    /\ pass' = Ends([pass EXCEPT !.sent = @ + 1])
    /\ usage' = [NoUsage EXCEPT !.sent = pass.attempt + 1, !.refused = TRUE]

\* The vendor cannot be reached or its reply is not JSON: no second attempt.
Unreachable ==
    /\ pass' = Ends([pass EXCEPT !.sent = @ + 1])
    /\ Record(pass.attempt + 1, FALSE, 2)

\* The text holds no usable answer: one repair is asked for.
Unusable ==
    IF pass.attempt = 0
    THEN /\ pass' = [pass EXCEPT !.attempt = 1, !.sent = @ + 1]
         /\ UNCHANGED usage
    ELSE Unreachable

Answer(raw, searched) ==
    IF ~searched /\ pass.provider \in Checked THEN Refuse
    ELSE IF Validate(raw) = Junk THEN Unusable
    ELSE /\ pass' = [pass EXCEPT !.at = "done", !.sent = @ + 1, !.raw = raw,
                                 !.result = Validate(raw)]
         /\ Record(pass.attempt + 1, TRUE, pass.attempt + 1)

AskVendor ==
    /\ pass.at = "ask"
    /\ \/ Refuse \/ Unreachable \/ Unusable
       \/ \E raw \in Answers, searched \in BOOLEAN : Answer(raw, searched)
    /\ UNCHANGED <<settings, call, edits>>

----------------------------------------------------------------------------
Next ==
    \/ Edit \/ BuildAgent \/ LoadSnapshot \/ CallModel \/ Attempt
    \/ Collect \/ Attach \/ AskVendor

AgentSpec == Init /\ [][Next]_vars

Remotely == pass.agent # NoAgent /\ pass.agent.kind = "remote"

\* Types of the state.
TypeOK ==
    /\ pass.at \in {"idle", "load", "plan", "collect", "analyze", "attach", "ask",
                    "done", "failed"}
    /\ pass.agent \in CapableAgents \cup {NoAgent}
    /\ pass.provider \in Vendors \cup {NoVendor}
    /\ call.attempt \in 0..call.budget /\ edits \in 0..MaxEdits
    /\ pass.attempt \in 0..2 /\ pass.serves \in Vendors \cup {NoVendor}

\* The usage page never undercounts: a call that sent requests has a record,
\* unless a remote agent was refused, a success names exactly the requests it
\* took, a failure at least those it sent (llm/base.py, web_agents.py).  And a
\* pass sends two requests to a vendor at most; a local one its query attempts
\* and two calls of two, whatever comes back.
UsageAgrees ==
    /\ usage.sent > 0 =>
        /\ usage.recorded \/ usage.refused
        /\ usage.recorded => usage.attempts >= usage.sent
        /\ usage.ok => usage.attempts = usage.sent
    /\ pass.sent <= IF Remotely THEN 2 ELSE Retries + 4

\* Collectors run on this machine only for a user whose stored choice is the
\* local engine: no remote or missing choice ever leads there, whatever is
\* switched off meanwhile (research/catalog.py, default_agent_for_provider).
LocalOnlyWhenAsked ==
    pass.collected # "none" \/ pass.at \in {"load", "plan"} =>
        pass.asked = LocalAgent

\* local_agent.py:459, the verdict is the worse of the two: a local result
\* says complete only when the collection was whole, no source it analysed
\* broke, and the model claimed it.
NeverBetterThanCollection ==
    (pass.at = "done" /\ ~Remotely /\ pass.result.coverage = "complete") =>
        /\ pass.collected = "ok"
        /\ pass.found # <<>> =>
              ~pass.broken /\ CleanStatus(pass.raw.coverage) = "complete"

\* Evidence can be traced.  A remote event cites listed pages only, and when
\* no number was used for two pages, exactly the pages its numbers stood for in
\* the list that AIOS kept;
\* the sources of a local result are the documents that were fetched.
Consistent(s) ==
    \A i, j \in DOMAIN s : s[i].id = s[j].id => s[i].url = s[j].url
PagesOf(sources, ids) == UNION {Pages(sources, i) : i \in ids}
EvidenceIsReal ==
    pass.at = "done" =>
        LET r == pass.result
            c == Coerce(pass.raw)
        IN
        IF Remotely
        THEN /\ \A e \in ToSet(r.events) :
                   e.ids # <<>> /\ ToSet(e.ids) \subseteq SourceIds(r.sources)
             /\ Consistent(c.sources) =>
                   {PagesOf(r.sources, ToSet(e.ids)) : e \in ToSet(r.events)}
                   = {PagesOf(c.sources, ToSet(e.ids)) : e \in ToSet(c.events)} \ {{}}
        ELSE \A s \in ToSet(r.sources) :
                /\ s.id + 1 \in DOMAIN pass.found
                /\ s.url = pass.found[s.id + 1].url
=============================================================================
