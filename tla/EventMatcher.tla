---------------------------- MODULE EventMatcher ----------------------------
(***************************************************************************)
(* aios/services/event_matcher.py: whether an item continues one of the    *)
(* events of its topic.  Rules rank the events, identity merges what is    *)
(* beyond doubt, the model decides the rest, and wording decides when the  *)
(* model does not.                                                         *)
(***************************************************************************)
EXTENDS EventIdentity

CONSTANT
  ShortlistLimit  \* events the model is shown: shortlist_with_identity's limit

ASSUME MatcherAssumption == ShortlistLimit \in Nat \ {0}

IdentityFloor == 180
LexicalFloor  == 120
FallbackMatch == 550

NewEvent(how)     == [event |-> 0, how |-> how]
Match(event, how) == [event |-> event, how |-> how]

\* Overlap of two sets of words, over the smaller of them.
Overlap(a, b) ==
  IF a = {} \/ b = {} THEN 0
  ELSE (1000 * Cardinality(a \cap b)) \div Least(Cardinality(a), Cardinality(b))

LexicalScore(c, e) ==
  Greatest(Overlap(c.title, e.title),
           (9 * Overlap(c.title \cup c.summary, e.title \cup e.summary)) \div 10)

\* list.sort(reverse=True): the best first, equals in the order they came in.
Ahead(score, i) ==
  {j \in DOMAIN score : score[j] > score[i] \/ (score[j] = score[i] /\ j < i)}

Ranked(score, n) == CHOOSE i \in DOMAIN score : Cardinality(Ahead(score, i)) = n - 1

Best(s, score) == [n \in DOMAIN s |-> s[Ranked(score, n)]]

\* The bonus of a shared topic, which every event of a topic's memory earns; the
\* events of the other topics of a classic module are left out.
RankScore(match) == Least(1000, match.score + 30)

\* events is a sequence of [id, known], most recently seen first.
Shortlist(c, events) ==
  LET entries == [n \in DOMAIN events |->
                    [id |-> events[n].id,
                     match |-> CompareIdentity(c, events[n].known, LexicalScore(c, events[n].known))]]
      worth == Keep(entries, {n \in DOMAIN entries :
                                \/ RankScore(entries[n].match) >= IdentityFloor
                                \/ entries[n].match.lexical >= LexicalFloor})
  IN Take(Best(worth, [n \in DOMAIN worth |-> RankScore(worth[n].match)]), ShortlistLimit)

\* The model is asked only about what identity leaves open.
Undecided(shortlist) == shortlist # <<>> /\ ~IsStrong(shortlist[1].match)

\* What the model may say: nothing (no client, an error), something that is not
\* a decision, or a decision with an event and a confidence.  0 is an event that
\* it was not shown.
Silence == [said |-> "nothing", event |-> 0, sure |-> FALSE]

Answers(shortlist) ==
  {Silence} \cup
  IF ~Undecided(shortlist) THEN {}
  ELSE [said : {"nonsense", "NEW_EVENT"}, event : {0}, sure : {TRUE}]
       \cup [said : {"MATCH"}, sure : BOOLEAN,
             event : {0} \cup {shortlist[i].id : i \in DOMAIN shortlist}]

HasDecided(answer) == answer.said \in {"NEW_EVENT", "MATCH"}

ModelDecision(shortlist, answer) ==
  IF /\ answer.said = "MATCH"
     /\ answer.sure
     /\ \E i \in DOMAIN shortlist : shortlist[i].id = answer.event
  THEN Match(answer.event, "llm")
  ELSE NewEvent("llm")

RuleDecision(shortlist) ==
  LET best == Best(shortlist, [n \in DOMAIN shortlist |-> shortlist[n].match.lexical])[1]
  IN IF best.match.lexical >= FallbackMatch THEN Match(best.id, "rules") ELSE NewEvent("rules")

Decide(shortlist, answer) ==
  IF shortlist = <<>> THEN NewEvent("no_candidates")
  ELSE IF IsStrong(shortlist[1].match) THEN Match(shortlist[1].id, "identity")
  ELSE IF HasDecided(answer) THEN ModelDecision(shortlist, answer)
  ELSE RuleDecision(shortlist)

\* unique_event_key: the base, or the base and the first number that is free.
\* At sixty it draws a random suffix, which is free as well.
FreshKey(base, keys) ==
  IF <<base, 1>> \notin keys THEN <<base, 1>>
  ELSE <<base, CHOOSE n \in 2 .. Cardinality(keys) + 2 :
                 <<base, n>> \notin keys /\ \A m \in 2 .. n - 1 : <<base, m>> \in keys>>
=============================================================================
