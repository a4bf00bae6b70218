----------------------------- MODULE Storylines -----------------------------
(***************************************************************************)
(* The memory of one research topic, or of one monitored module, over      *)
(* several days: what _record_event of research_pipeline.py, or            *)
(* _record_one of pipeline.py, makes of the items of each run, through the *)
(* matcher, and what the changes page says of the reports.  An agent       *)
(* describes its items by organisation, product, type, date and sources;   *)
(* the classic engine by wording and figures alone.  A run may fail before *)
(* its report is filed, a report may be deleted, and the process may be    *)
(* restarted between two runs.                                             *)
(***************************************************************************)
EXTENDS EventMatcher, ReportDiff

CONSTANTS
  Story,      \* what may be reported, a function from names to items
  Orders,     \* orders in which a process may walk its set of known event types
  Days,       \* the days on which the topic is researched
  Lookback,   \* event_match_lookback_days
  MaxItems,   \* bound on the items recorded in all
  MaxReports  \* bound on the reports filed

ASSUME StorylinesAssumption ==
  /\ Days \subseteq Nat
  /\ Lookback \in Nat \ {0}
  /\ {MaxItems, MaxReports} \subseteq Nat
  /\ \A name \in DOMAIN Story :
       LET s == Story[name]
       IN /\ s.engine \in {"agent", "classic"} /\ s.date \in Nat \cup {NoDate}
          /\ IsFiniteSet(s.title) /\ IsFiniteSet(s.summary) /\ IsFiniteSet(s.entities)

VARIABLES
  engine,   \* which engine fills this memory
  events,   \* the rows of events, by id
  obs,      \* the rows of observations, by id
  reports,  \* the reports that were not deleted, by id
  filed,    \* how many reports were filed
  recent,   \* ids of events, the one seen last first
  today,
  recorded, \* the items of the run under way
  order     \* how this process walks _DISTINCT_TYPES

memoryVars == <<engine, events, obs, reports, filed, recent, today, recorded, order>>

MemoryInit ==
  /\ engine \in {"agent", "classic"}
  /\ events = <<>> /\ obs = <<>> /\ recent = <<>> /\ recorded = <<>>
  /\ reports = <<>> /\ filed = 0
  /\ today \in Days /\ \A d \in Days : today <= d
  /\ order \in Orders

-----------------------------------------------------------------------------
OfTopic == engine = "agent"

\* identity_from_event
Known(e) ==
  [title |-> e.title, summary |-> e.summary,
   org |-> NameKey(e.org), product |-> NameKey(e.product), type |-> TypeKey(e.type, order),
   date |-> e.seen, entities |-> e.entities, urls |-> e.urls]

\* identity_from_candidate, of the candidate _record_event builds
Candidate(s) ==
  [title |-> s.title, summary |-> s.summary,
   org |-> NameKey(s.org), product |-> NameKey(s.product), type |-> TypeKey(s.kind, order),
   date |-> s.date, entities |-> s.entities, urls |-> s.urls]

\* _candidate_events: the events seen within the lookback, the latest first.
CandidateEvents ==
  LET reach == Keep(recent, {n \in DOMAIN recent : today - events[recent[n]].seen <= Lookback})
  IN [n \in DOMAIN reach |-> [id |-> reach[n], known |-> Known(events[reach[n]])]]

ShortlistOf(s) == Shortlist(Candidate(s), CandidateEvents)

\* The type as describe_identity stores it: the canonical one.
StoredType(s) == IF s.kind = {} THEN {} ELSE {TypeKey(s.kind, order)}

Keys == {events[e].key : e \in DOMAIN events}

Created(s) ==
  [key |-> FreshKey(s.slug, Keys), title |-> s.title, summary |-> s.summary,
   org |-> s.org, product |-> s.product, type |-> StoredType(s), seen |-> today,
   entities |-> s.entities, urls |-> KeptUrls(s.urls), count |-> 1]

Filled(old, new, blank) == IF old = blank THEN new ELSE old

\* _merge_identity compares the urls as they are spelled, not the pages.
MergedUrls(known, incoming) ==
  LET new == KeptUrls(incoming)
      unknown == {n \in DOMAIN new : \A i \in DOMAIN known : known[i] # new[n]}
  IN Take(known \o Keep(new, unknown), UrlCap)

MergeIdentity(e, s) ==
  [e EXCEPT !.org = Filled(@, s.org, <<>>), !.product = Filled(@, s.product, <<>>),
            !.type = Filled(@, StoredType(s), {}), !.entities = @ \cup s.entities,
            !.urls = MergedUrls(@, s.urls),
            !.summary = s.summary, !.seen = today, !.count = @ + 1]

Observation(name, e) ==
  [event |-> e, date |-> today, facts |-> Story[name].summary, figure |-> Story[name].figure,
   correction |-> Story[name].correction]

ToFront(id) == <<id>> \o Keep(recent, {n \in DOMAIN recent : recent[n] # id})

\* One item of the run.  Evidence links and the article rows are those of
\* ResearchPipeline.
RecordEvent(name, decision) ==
  LET s == Story[name]
      isNew == decision.event = 0
      id == IF isNew THEN Len(events) + 1 ELSE decision.event
  IN /\ events' = IF isNew THEN Append(events, Created(s))
                  ELSE [events EXCEPT ![id] = MergeIdentity(@, s)]
     /\ obs' = Append(obs, Observation(name, id))
     /\ recorded' = Append(recorded, [event |-> id, obs |-> Len(obs) + 1,
                                      label |-> IF isNew THEN "new" ELSE "updated",
                                      story |-> name, how |-> decision.how])
     /\ recent' = ToFront(id)
     /\ UNCHANGED <<engine, reports, filed, today, order>>

Items == {name \in DOMAIN Story : Story[name].engine = engine}

Record ==
  /\ Len(obs) < MaxItems
  /\ \E name \in Items :
       LET shortlist == ShortlistOf(Story[name])
       IN \E answer \in Answers(shortlist) : RecordEvent(name, Decide(shortlist, answer))

\* The report shows an item for each thing recorded, in the order of the run.
Report ==
  [date |-> today,
   items |-> [n \in DOMAIN recorded |->
                [event |-> recorded[n].event, obs |-> recorded[n].obs, label |-> recorded[n].label]]]

\* The run files its report; it may have found nothing.
Publish ==
  /\ filed < MaxReports
  /\ filed' = filed + 1
  /\ reports' = [n \in DOMAIN reports \cup {filed'} |->
                   IF n = filed' THEN Report ELSE reports[n]]
  /\ recorded' = <<>>
  /\ UNCHANGED <<engine, events, obs, recent, today, order>>

\* The run fails: what it has recorded stays, and there is no report.
FailRun ==
  /\ recorded # <<>>
  /\ recorded' = <<>>
  /\ UNCHANGED <<engine, events, obs, reports, filed, recent, today, order>>

NextDay ==
  /\ recorded = <<>>
  /\ \E d \in Days : d > today /\ (\A c \in Days : c > today => d <= c) /\ today' = d
  /\ UNCHANGED <<engine, events, obs, reports, filed, recent, recorded, order>>

Restart ==
  /\ recorded = <<>>
  /\ order' \in Orders \ {order}
  /\ UNCHANGED <<engine, events, obs, reports, filed, recent, today, recorded>>

DeleteReport ==
  /\ \E n \in DOMAIN reports : reports' = [m \in DOMAIN reports \ {n} |-> reports[m]]
  /\ UNCHANGED <<engine, events, obs, filed, recent, today, recorded, order>>

MemoryNext == Record \/ Publish \/ FailRun \/ NextDay \/ Restart \/ DeleteReport

MemorySpec == MemoryInit /\ [][MemoryNext]_memoryVars

-----------------------------------------------------------------------------
\* The tables refer to each other, an event counts its observations, and no two
\* events have one key.
MemoryTypes ==
  /\ \A o \in DOMAIN obs : obs[o].event \in DOMAIN events
  /\ \A e \in DOMAIN events : events[e].count = Cardinality({o \in DOMAIN obs : obs[o].event = e})
  /\ \A e, f \in DOMAIN events : e # f => events[e].key # events[f].key
  /\ {recent[n] : n \in DOMAIN recent} = DOMAIN events /\ Len(recent) = Len(events)
  /\ \A n \in DOMAIN reports : \A i \in DOMAIN reports[n].items :
        obs[reports[n].items[i].obs].event = reports[n].items[i].event
  /\ DOMAIN reports \subseteq 1 .. filed
  /\ today \in Days /\ order \in Orders

\* An item that identity alone adds to a known event cites one of its pages, or
\* is about its product and of no other kind: a company, people, a date and
\* words together are not enough.  (event_identity.py: only ever supports.)
MergeIsWarranted ==
  [][\A n \in DOMAIN recorded' \ DOMAIN recorded :
       recorded'[n].how = "identity" =>
         LET e == Known(events[recorded'[n].event])
             c == Candidate(Story[recorded'[n].story])
         IN \/ SharesPage(c, e)
            \/ Related(c.product, e.product) /\ (c.type = e.type \/ {"", "other"} \cap {c.type, e.type} # {})]_memoryVars

\* The label of an item comes from the matcher, the group of its event from the
\* comparison of two reports.  Whatever was filed, deleted or lost before: what a
\* report calls new its changes page never shows as an update, and what the page
\* shows as an update has a timeline with something to compare.
PagesMatchLabels ==
  \A n \in DOMAIN reports :
    LET page == Changes(reports, n, OfTopic, obs)
    IN Earlier(reports, n, OfTopic) # {} =>
         /\ \A i \in DOMAIN reports[n].items :
              reports[n].items[i].label = "new" => reports[n].items[i].event \in page.new
         /\ \A e \in page.updated : Cardinality(Timeline(e, reports[n], obs)) > 1

\* Comparing two dates gives the same groups whichever date is given first, and
\* what has ended is in the older report, what is new in the newer one.
CompareIsSymmetric ==
  \A a, b \in Days :
    LET diff == CompareDates(reports, a, b, obs)
        older == reports[ByDate(reports, IF a < b THEN a ELSE b)]
    IN /\ diff = CompareDates(reports, b, a, obs)
       /\ \A e \in DOMAIN diff :
            /\ diff[e] = "RESOLVED" => e \in EventsOf(older)
            /\ diff[e] = "NEW" => e \notin EventsOf(older)

ChangesMatchHistory == PagesMatchLabels /\ CompareIsSymmetric
=============================================================================
