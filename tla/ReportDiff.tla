----------------------------- MODULE ReportDiff -----------------------------
(***************************************************************************)
(* aios/services/diff_engine.py and the changes page of simple_views.py:   *)
(* what changed between two reports, event by event.  A report is          *)
(* [date, items], an item [event, obs, label]; Obs is the table of         *)
(* observations, whose id is their place in it.                            *)
(***************************************************************************)
EXTENDS Integers, Sequences, FiniteSets

CONSTANT NoFigure   \* an observation without the metric

Abs(n) == IF n < 0 THEN -n ELSE n

\* A figure is <<"number", n>> or <<"text", t>>.  parse_number: text is never
\* coerced into a number.
IsNumber(figure) == figure[1] = "number"

\* compare_metric: no arithmetic on text, no percentage over zero.
MetricChange(old, new) ==
  LET comparable == IsNumber(old) /\ IsNumber(new)
  IN [old |-> old, new |-> new, comparable |-> comparable,
      change  |-> IF comparable THEN {new[2] - old[2]} ELSE {},
      percent |-> IF comparable /\ old[2] # 0
                  THEN {((new[2] - old[2]) * 100) \div Abs(old[2])} ELSE {}]

\* compare_structured_data: only a metric both observations carry.
MetricChanges(old, new) ==
  IF NoFigure \in {old, new} \/ old = new THEN {} ELSE {MetricChange(old, new)}

Max0(S) == CHOOSE n \in S \cup {0} : \A m \in S : m <= n

\* _index_items: when an event has several items, the last one.
ItemOf(report, event) ==
  report.items[Max0({i \in DOMAIN report.items : report.items[i].event = event})]

EventsOf(report) == {report.items[i].event : i \in DOMAIN report.items}

Classify(event, old, new, obs) ==
  LET before == obs[ItemOf(old, event).obs]
      after  == obs[ItemOf(new, event).obs]
      moved  == ItemOf(old, event).obs # ItemOf(new, event).obs
  IN IF event \notin EventsOf(old) THEN "NEW"
     ELSE IF event \notin EventsOf(new) THEN "RESOLVED"
     ELSE IF after.correction THEN "CORRECTION"
     ELSE IF moved /\ MetricChanges(before.figure, after.figure) # {} THEN "DATA_CHANGE"
     ELSE IF moved /\ before.facts # after.facts THEN "UPDATED"
     ELSE "UNCHANGED"

\* compare_reports: the older of the two is the base, whatever the order asked for.
CompareReports(a, b, obs) ==
  LET old == IF a.date > b.date THEN b ELSE a
      new == IF a.date > b.date THEN a ELSE b
  IN [event \in EventsOf(old) \cup EventsOf(new) |-> Classify(event, old, new, obs)]

-----------------------------------------------------------------------------
\* _baseline: for a report of a topic the report of the topic that was filed just
\* before it, by date and then by id; else the last report of an earlier date.
Earlier(reports, n, ofTopic) ==
  {m \in DOMAIN reports : \/ reports[m].date < reports[n].date
                          \/ ofTopic /\ reports[m].date = reports[n].date /\ m < n}

Baseline(reports, n, ofTopic) ==
  CHOOSE m \in Earlier(reports, n, ofTopic) :
    \A k \in Earlier(reports, n, ofTopic) :
       reports[k].date < reports[m].date \/ (reports[k].date = reports[m].date /\ k <= m)

\* get_by_date: the last report of a date.
ByDate(reports, date) == Max0({m \in DOMAIN reports : reports[m].date = date})

\* compare_dates: the comparison of two dates, nothing when one has no report.
CompareDates(reports, a, b, obs) ==
  IF 0 \in {ByDate(reports, a), ByDate(reports, b)} THEN <<>>
  ELSE CompareReports(reports[ByDate(reports, a)], reports[ByDate(reports, b)], obs)

ChangeGroups ==
  [new |-> {"NEW"},
   updated |-> {"UPDATED", "DATA_CHANGE", "CORRECTION"},
   unchanged |-> {"UNCHANGED", "RESOLVED"}]

Group(diff, label) == {event \in DOMAIN diff : diff[event] \in ChangeGroups[label]}

\* changes_context: the page of one report.
Changes(reports, n, ofTopic, obs) ==
  IF Earlier(reports, n, ofTopic) = {} THEN [label \in DOMAIN ChangeGroups |-> {}]
  ELSE LET diff == CompareReports(reports[Baseline(reports, n, ofTopic)], reports[n], obs)
       IN [label \in DOMAIN ChangeGroups |-> Group(diff, label)]

\* _timeline: the observations of an event up to the report, the last four.
TimelineLimit == 4

\* The slip of a timeline that ends the day before.
TimelineBefore(event, report, obs) ==
  {o \in DOMAIN obs : obs[o].event = event /\ obs[o].date < report.date}

Timeline(event, report, obs) ==
  LET dated == {o \in DOMAIN obs : obs[o].event = event /\ obs[o].date <= report.date}
  IN {o \in dated : Cardinality({p \in dated : p > o}) < TimelineLimit}
=============================================================================
