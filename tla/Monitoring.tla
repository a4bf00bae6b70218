------------------------------ MODULE Monitoring ------------------------------
(***************************************************************************)
(* The monitoring configuration: modules, their topics, the queries of a   *)
(* topic.  It is edited by hand, a form at a time, or by applying a draft  *)
(* that a model wrote from one sentence and the user looked at.  A request *)
(* reads the rows, checks, and decides what to write; its writes and its   *)
(* commit are one step under SQLite's write lock, and fail together.  Only *)
(* attributes that differ from the row as it was read are written.         *)
(***************************************************************************)
EXTENDS DraftConfig

CONSTANTS
    Workers,      \* threads that serve requests
    ModuleKeys, Names, Texts,
    Payloads,     \* module payloads a model may answer with
    TopicPayloads,
    Seeds,        \* SEED_MODULES: a sequence of [key, topics]
    MaxOps        \* requests in one behaviour

\* What is proposed and seeded is lists, of texts that cleaning a second time
\* leaves alone, and a name has a key; the seeds name no module and no topic
\* of a module twice.
Settles(text) == Clean(Clean(text)) = Clean(text)
Proposed(t) ==
    /\ IsList(t.queries) /\ IsList(t.sources) /\ IsList(t.banned)
    /\ Settles(t.name) /\ \A i \in DOMAIN t.queries : Settles(t.queries[i].text)
IsKey(k) ==
    /\ IsList(k) /\ Len(k) \in 1..KeyLen /\ k[1] \notin {Underscore, Dash}
    /\ \A i \in DOMAIN k : k[i] \in 0..Dash

ASSUME MonitoringAssumption ==
    /\ MaxOps \in Nat
    /\ Clean(Blank) = Blank
    /\ \A k \in ModuleKeys : IsList(k)
    /\ \A p \in Payloads :
          /\ IsList(p.key) /\ IsList(p.topics)
          /\ Settles(p.name) /\ IsKey(Slug(p.name)) /\ IsKey(Slug(Clean(p.name)))
          /\ \A i \in DOMAIN p.topics : p.topics[i] \notin {Blank, Junk} => Proposed(p.topics[i])
    /\ \A t \in TopicPayloads : t # Junk => Proposed(t)
    /\ IsList(Seeds)
    /\ Firsts([i \in DOMAIN Seeds |-> Seeds[i].key]) = DOMAIN Seeds
    /\ \A i \in DOMAIN Seeds :
          /\ IsList(Seeds[i].topics)
          /\ \A j \in DOMAIN Seeds[i].topics : IsList(Seeds[i].topics[j].queries)
          /\ Firsts(NameFolds(Seeds[i].topics)) = DOMAIN Seeds[i].topics

VARIABLES
    modules, topics, queries,   \* the rows, by id
    page,                       \* the preview that is open in the browser
    reqs, ops,
    cause                       \* which promises have lost their footing

rowvars == <<modules, topics, queries>>
editorVars == <<rowvars, page, reqs, ops, cause>>

Nothing == <<>>
NoPage == [kind |-> "none", module |-> 0, draft |-> Junk]

\* What a request has decided to write: patches of rows, new modules with
\* their topics, new topics of a module, new queries, a query to delete.
NoChange == [mods |-> Nothing, tops |-> Nothing, qrys |-> Nothing, modules |-> <<>>,
             topics |-> <<>>, queries |-> <<>>, gone |-> {}]
Idle == [at |-> "idle", change |-> NoChange, draft |-> FALSE]

----------------------------------------------------------------------------
(* Reading the rows.                                                       *)

TopicsOf(m) == {t \in DOMAIN topics : topics[t].module = m}
LiveTopics(m) == {t \in TopicsOf(m) : ~topics[t].archived}
QueriesOf(t) == {q \in DOMAIN queries : queries[q].topic = t}
KeyExists(key, except) == \E m \in DOMAIN modules \ except : modules[m].key = key
HasTopic(m, name) == \E t \in LiveTopics(m) : Fold(topics[t].name) = Fold(name)
Largest(S) == CHOOSE n \in S \cup {0} : \A x \in S : x <= n
NextModuleOrder == 1 + Largest({modules[m].order : m \in DOMAIN modules})
NextTopicOrder(m) == 1 + Largest({topics[t].order : t \in TopicsOf(m)})

\* What the next run executes: enabled modules with a topic to search for.
ActiveTopics(m) == {t \in LiveTopics(m) : topics[t].enabled}
ActiveQueries(t) == {q \in QueriesOf(t) : queries[q].on}
BuildPlan ==
    {m \in DOMAIN modules : /\ modules[m].enabled /\ ~modules[m].archived
                            /\ \E t \in ActiveTopics(m) : ActiveQueries(t) # {}}

\* A defect: a query of a topic that is switched off counts as well.
DiagnoseAllTopics(m) ==
    IF ActiveTopics(m) = {} THEN {"no topics"}
    ELSE IF \A t \in LiveTopics(m) : ActiveQueries(t) = {} THEN {"no queries"} ELSE {}

\* What the editor says of a module: why it will be skipped, what is double.
Diagnose(m) ==
    LET active == UNION {ActiveQueries(t) : t \in LiveTopics(m)}
    IN  (IF ActiveTopics(m) = {} THEN {"no topics"}
         ELSE IF \A t \in ActiveTopics(m) : ActiveQueries(t) = {}
              THEN {"no queries"} ELSE {})
        \cup IF \E p, q \in active : p # q /\ Fold(queries[p].text) = Fold(queries[q].text)
             THEN {"duplicates"} ELSE {}

----------------------------------------------------------------------------
(* What the forms of routers/monitoring.py decide.                         *)

Changed(row, wanted) ==
    [f \in {g \in DOMAIN wanted : wanted[g] # row[g]} |-> wanted[f]]
PatchModule(m, wanted) ==
    [NoChange EXCEPT !.mods = [i \in {m} |-> Changed(modules[m], wanted)]]
PatchTopic(t, wanted) ==
    [NoChange EXCEPT !.tops = [i \in {t} |-> Changed(topics[t], wanted)]]
PatchQuery(q, wanted) ==
    [NoChange EXCEPT !.qrys = [i \in {q} |-> Changed(queries[q], wanted)]]

CreateModule ==
    {[NoChange EXCEPT !.modules = <<[key |-> k, order |-> NextModuleOrder,
                                     topics |-> <<>>]>>] :
        k \in {x \in ModuleKeys : ~KeyExists(x, {})}}

\* The settings form writes the key, the switch and the place in the list.
ModuleUpdate ==
    UNION {{PatchModule(m, wanted) :
               wanted \in [key : {x \in ModuleKeys : ~KeyExists(x, {m})}, enabled : BOOLEAN,
                          order : {0, modules[m].order}]} : m \in DOMAIN modules}

ModuleToggle == {PatchModule(m, [enabled |-> ~modules[m].enabled]) : m \in DOMAIN modules}
ModuleArchive == {PatchModule(m, [archived |-> TRUE, enabled |-> FALSE]) :
                     m \in DOMAIN modules}
ModuleRestore == {PatchModule(m, [archived |-> FALSE]) : m \in DOMAIN modules}

\* Positions in the list of modules that are not archived.
Before(m, n) == \/ modules[m].order < modules[n].order
                \/ modules[m].order = modules[n].order /\ m < n
Follows(m, n) ==
    LET listed == {x \in DOMAIN modules : ~modules[x].archived}
    IN  /\ {m, n} \subseteq listed /\ Before(m, n)
        /\ ~\E x \in listed : Before(m, x) /\ Before(x, n)

Swap(m, n) ==
    [NoChange EXCEPT !.mods =
        [i \in {m, n} |-> Changed(modules[i], [order |-> modules[IF i = m THEN n ELSE m].order])]]

ModuleMove ==
    UNION {{Swap(m, n) : n \in {x \in DOMAIN modules : Follows(m, x)}} : m \in DOMAIN modules}

EmptyTopic(m, name) ==
    [NoChange EXCEPT !.topics = <<[module |-> m, name |-> name, queries |-> <<>>,
                                   order |-> NextTopicOrder(m)]>>]

\* A defect: names are compared as they are written.
CreateTopicExactly ==
    UNION {{EmptyTopic(m, n) : n \in Names \ {topics[t].name : t \in LiveTopics(m)}} :
              m \in DOMAIN modules}

CreateTopic ==
    UNION {{EmptyTopic(m, n) : n \in {x \in Names : ~HasTopic(m, x)}} : m \in DOMAIN modules}

\* Renaming looks for no other topic of that name.
TopicUpdate ==
    {PatchTopic(t, [name |-> n, enabled |-> on]) :
        t \in DOMAIN topics, n \in Names, on \in BOOLEAN}
TopicToggle == {PatchTopic(t, [enabled |-> ~topics[t].enabled]) : t \in DOMAIN topics}
TopicArchive == {PatchTopic(t, [archived |-> TRUE, enabled |-> FALSE]) :
                    t \in DOMAIN topics}

CreateQuery ==
    UNION {{[NoChange EXCEPT !.queries = <<[topic |-> t, text |-> x]>>] :
               x \in {y \in Texts : \A q \in QueriesOf(t) : Fold(queries[q].text) # Fold(y)}} :
              t \in DOMAIN topics}
UpdateQuery == {PatchQuery(q, [text |-> x]) : q \in DOMAIN queries, x \in Texts}
ToggleQuery == {PatchQuery(q, [on |-> ~queries[q].on]) : q \in DOMAIN queries}
DeleteQuery == {[NoChange EXCEPT !.gone = {q}] : q \in DOMAIN queries}

----------------------------------------------------------------------------
(* Drafts (routers/config_ai.py).                                          *)

\* The page is rendered from the answer; no row of the configuration is
\* written, and what is read now may be stale when the page is posted.
GenerateModule ==
    /\ \E p \in Payloads :
          page' = IF ConfigRefused(CoercePayload(p)) THEN NoPage
                  ELSE [kind |-> "module", module |-> 0,
                        draft |-> ModuleDraft(p, {modules[m].key : m \in DOMAIN modules})]
    /\ UNCHANGED <<rowvars, reqs, cause>>

GenerateTopic ==
    /\ \E m \in DOMAIN modules, p \in TopicPayloads :
          LET t == CoerceTopic(p)
          IN  page' = IF TopicRefused(t) \/ TopicTaken(t, {topics[u].name : u \in LiveTopics(m)})
                      THEN NoPage
                      ELSE [kind |-> "topic", module |-> m, draft |-> GeneratedTopic(t)]
    /\ UNCHANGED <<rowvars, reqs, cause>>

\* The draft's topics in their order, to be created with their queries.
NewTopics(m, ts) ==
    [i \in DOMAIN ts |-> [module |-> m, name |-> ts[i].name, order |-> i,
                          queries |-> ts[i].queries]]

\* The form keeps the topics left on, and the key the user may have changed.
Posted(some, key) ==
    LET on == [n \in 1..Cardinality(some) |-> Position(some, n)]
    IN  [ConfigFromForm(page.draft, on) EXCEPT !.key = key]

Posts == {Posted(some, key) : some \in SUBSET DOMAIN page.draft.topics,
                              key \in ModuleKeys \cup {page.draft.key}}

ApplyModule ==
    IF page.kind # "module" THEN {}
    ELSE LET valid == {PostedConfig(c) : c \in {x \in Posts : ~FormRefused(x)}}
         IN  {[NoChange EXCEPT !.modules =
                  <<[key |-> c.key, order |-> NextModuleOrder, topics |-> c.topics]>>] :
                 c \in {x \in valid : ~KeyExists(x.key, {})}}

\* Only the topic is written; the module may have changed since the preview.
ApplyTopic ==
    LET form == TopicFromForm(page.draft)
        t == GeneratedTopic(form)
        m == page.module
    IN  IF page.kind # "topic" THEN {}
        ELSE IF TopicRefused(form) \/ HasTopic(m, t.name) THEN {}
        ELSE {[NoChange EXCEPT !.topics =
                  <<[module |-> m, name |-> t.name, order |-> NextTopicOrder(m),
                     queries |-> t.queries]>>]}

----------------------------------------------------------------------------
(* Writing.                                                                *)

Patched(rows, patch) ==
    [i \in DOMAIN rows |->
        IF i \notin DOMAIN patch THEN rows[i]
        ELSE [f \in DOMAIN rows[i] |->
                 IF f \in DOMAIN patch[i] THEN patch[i][f] ELSE rows[i][f]]]

\* Rows appended with the next ids.
Added(rows, new) ==
    LET last == Largest(DOMAIN rows)
    IN  [i \in DOMAIN rows \cup (last + 1)..(last + Len(new)) |->
            IF i \in DOMAIN rows THEN rows[i] ELSE new[i - last]]

ModulesAfter(ch) ==
    Added(Patched(modules, ch.mods),
          [i \in DOMAIN ch.modules |->
              [key |-> ch.modules[i].key, order |-> ch.modules[i].order,
               enabled |-> TRUE, archived |-> FALSE]])

\* The topics of new modules, then the new topics of old ones.
TopicsToAdd(ch) ==
    Flat([i \in DOMAIN ch.modules |->
             NewTopics(Largest(DOMAIN modules) + i, ch.modules[i].topics)])
    \o ch.topics

TopicsAfter(ch) ==
    LET new == TopicsToAdd(ch)
    IN  Added(Patched(topics, ch.tops),
              [i \in DOMAIN new |->
                  [module |-> new[i].module, name |-> new[i].name, order |-> new[i].order,
                   enabled |-> TRUE, archived |-> FALSE]])

QueriesAfter(ch) ==
    LET kept == [q \in DOMAIN queries \ ch.gone |-> Patched(queries, ch.qrys)[q]]
        new == TopicsToAdd(ch)
        drafted == [i \in DOMAIN new |->
                      [j \in DOMAIN new[i].queries |->
                          [topic |-> Largest(DOMAIN topics) + i,
                           text |-> new[i].queries[j].text, on |-> TRUE]]]
        typed == [i \in DOMAIN ch.queries |->
                      [topic |-> ch.queries[i].topic, text |-> ch.queries[i].text,
                       on |-> TRUE]]
    IN  Added(kept, Flat(drafted) \o typed)

\* A unique index refuses the rows, or a row to be changed is gone.
Violates(ch) ==
    LET ms == ModulesAfter(ch)
        ts == TopicsAfter(ch)
    IN  \/ \E m, n \in DOMAIN ms : m # n /\ ms[m].key = ms[n].key
        \/ \E t, u \in DOMAIN ts : t # u /\ ts[t].module = ts[u].module
                                         /\ ts[t].name = ts[u].name
        \/ ~(ch.gone \cup DOMAIN ch.qrys \subseteq DOMAIN queries)

EditorInit ==
    /\ modules = Nothing /\ topics = Nothing /\ queries = Nothing
    /\ page = NoPage /\ reqs = [r \in Workers |-> Idle] /\ ops = 0 /\ cause = {}

Commit(ch) ==
    /\ modules' = ModulesAfter(ch)
    /\ topics' = TopicsAfter(ch) /\ queries' = QueriesAfter(ch)

\* Before the first request, and again at every start: the default modules,
\* on an empty table only.
SeedIfEmpty ==
    /\ modules = Nothing
    /\ Commit([NoChange EXCEPT !.modules =
                  [i \in DOMAIN Seeds |-> [key |-> Seeds[i].key, order |-> i,
                                           topics |-> Seeds[i].topics]]])
    /\ UNCHANGED <<page, reqs, ops, cause>>

\* A request that passed its checks; two in flight, or a rename, excuse twins.
Submit(r, changes, draft, excuse) ==
    /\ reqs[r] = Idle
    /\ \E ch \in changes :
          reqs' = [reqs EXCEPT ![r] = [at |-> "write", change |-> ch, draft |-> draft]]
    /\ cause' = cause \cup excuse \cup IF \E q \in Workers : reqs[q] # Idle
                                     THEN {"twins"} ELSE {}
    /\ UNCHANGED <<rowvars, page>>

Write(r) ==
    /\ reqs[r].at = "write"
    /\ LET ch == reqs[r].change
       IN  IF Violates(ch) THEN UNCHANGED rowvars
           ELSE Commit(ch)
    /\ reqs' = [reqs EXCEPT ![r] = Idle]
    /\ UNCHANGED <<page, ops, cause>>

\* A defect: the module is committed before its topics.
FailHalfway(r) ==
    /\ reqs[r].at = "write" /\ ~Violates(reqs[r].change)
    /\ modules' = ModulesAfter(reqs[r].change)
    /\ reqs' = [reqs EXCEPT ![r] = Idle]
    /\ UNCHANGED <<topics, queries, page, ops, cause>>

\* The database refuses, or the process dies: the transaction leaves nothing.
WriteFails(r) ==
    /\ reqs[r].at = "write"
    /\ reqs' = [reqs EXCEPT ![r] = Idle]
    /\ UNCHANGED <<rowvars, page, ops, cause>>

Edit(r) ==
    \/ Submit(r, CreateModule \cup ModuleToggle \cup ModuleArchive \cup ModuleRestore
                 \cup ModuleMove \cup ModuleUpdate, FALSE, {})
    \/ Submit(r, CreateTopic \cup TopicToggle \cup TopicArchive, FALSE, {})
    \/ Submit(r, TopicUpdate, FALSE, {"twins"})
    \/ Submit(r, CreateQuery \cup UpdateQuery \cup ToggleQuery \cup DeleteQuery, FALSE, {})
    \/ Submit(r, ApplyModule \cup ApplyTopic, TRUE, {})

EditorNext ==
    \/ SeedIfEmpty
    \/ /\ modules # Nothing /\ ops < MaxOps /\ ops' = ops + 1
       /\ (\E r \in Workers : Edit(r)) \/ GenerateModule \/ GenerateTopic
    \/ \E r \in Workers : Write(r) \/ WriteFails(r)

EditorSpec == EditorInit /\ [][EditorNext]_editorVars

----------------------------------------------------------------------------
(* Properties.                                                             *)

\* Types of the state, and what the unique indexes keep.
EditorTypes ==
    /\ \A m \in DOMAIN modules : modules[m].enabled \in BOOLEAN
    /\ \A t \in DOMAIN topics : topics[t].module \in DOMAIN modules
    /\ \A q \in DOMAIN queries : queries[q].topic \in DOMAIN topics
    /\ ~Violates(NoChange) /\ ops \in 0..MaxOps

\* An applied draft writes all of itself or nothing, and touches no row that
\* was there (config_generator.py, apply_module_draft and apply_topic_draft).
Texted(qs) == {qs[i].text : i \in DOMAIN qs}
Writes(r) == reqs[r].draft /\ reqs'[r] = Idle /\ rowvars' # rowvars
DraftIsWhole ==
    [][ \A r \in Workers : Writes(r) =>
          LET ch == reqs[r].change
              new == DOMAIN topics' \ DOMAIN topics
          IN  /\ \A m \in DOMAIN modules : modules'[m] = modules[m]
              /\ \A t \in DOMAIN topics : topics'[t] = topics[t]
              /\ \A q \in DOMAIN queries : queries'[q] = queries[q]
              /\ {<<topics'[t].name, {queries'[q].text :
                        q \in {x \in DOMAIN queries' : queries'[x].topic = t}}>> :
                     t \in new}
                 = {<<TopicsToAdd(ch)[i].name, Texted(TopicsToAdd(ch)[i].queries)>> :
                       i \in DOMAIN TopicsToAdd(ch)} ]_editorVars

\* What a page shows that validation will not take a second time: lengths
\* were checked before the texts were cleaned (schemas/config_generation.py),
\* and a domain loses another www. at each pass.
Spoilt(t, passes) ==
    \/ t.name \in BadNames
    \/ \E i \in DOMAIN t.queries : t.queries[i].text \in BadQueries
    \/ \E i \in DOMAIN t.sources :
          LET domain == CleanDomain(t.sources[i])
          IN  domain = NotADomain \/ (passes = 2 /\ CleanDomain(domain) = NotADomain)

\* The same subject and the same searches, in their order.
SameTopic(t, u) ==
    /\ t.name = u.name /\ Len(t.queries) = Len(u.queries)
    /\ \A i \in DOMAIN u.queries : t.queries[i].text = u.queries[i].text

\* schemas/config_generation.py:18-19, a budget cuts once: a page posted as it
\* was shown loses none of its topics and searches to a second pass, and is
\* refused only for a text that is spoilt; its key is cut to KeyLen, though,
\* and what it was shown to be free of may then be taken.
PostedIsShown ==
    /\ page.kind = "module" =>
          LET c == page.draft
              form == ConfigFromForm(c, [i \in DOMAIN c.topics |-> i])
              posted == PostedConfig(form)
          IN  IF FormRefused(form)
              THEN c.name \in BadNames \/ \E i \in DOMAIN c.topics : Spoilt(c.topics[i], 2)
              ELSE /\ posted.name = c.name /\ posted.key = Take(c.key, KeyLen)
                   /\ Len(posted.topics) = Len(c.topics)
                   /\ \A i \in DOMAIN c.topics : SameTopic(posted.topics[i], c.topics[i])
    /\ page.kind = "topic" =>
          LET form == TopicFromForm(page.draft)
          IN  IF TopicRefused(form) THEN Spoilt(page.draft, 1)
              ELSE SameTopic(GeneratedTopic(form), page.draft)

\* No module has two live topics whose names differ in case only, however
\* forms and drafts are mixed, short of a rename or two requests at once.
NoTwinTopics ==
    "twins" \notin cause =>
        \A m \in DOMAIN modules : \A t, u \in LiveTopics(m) :
            Fold(topics[t].name) = Fold(topics[u].name) => t = u

\* The editor and the run agree: an enabled module is left out of the plan
\* when and only when its page says so (config_diagnostics.py, pipeline.py).
SkippedIsFlagged ==
    \A m \in DOMAIN modules : (modules[m].enabled /\ ~modules[m].archived) =>
        (m \notin BuildPlan <=> Diagnose(m) \cap {"no topics", "no queries"} # {})
=============================================================================
