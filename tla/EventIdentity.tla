---------------------------- MODULE EventIdentity ----------------------------
(***************************************************************************)
(* aios/services/event_identity.py: how likely two descriptions are one    *)
(* event.  Scores are thousandths, each signal rounded down.               *)
(*                                                                         *)
(* A name is the sequence of its words, a url the page it leads to and one *)
(* of the spellings of that page (scheme, www., tracking parameters,       *)
(* fragment), an event type as an agent words it the set of its parts.     *)
(***************************************************************************)
EXTENDS Integers, Selection

CONSTANTS
  Suffixes,   \* words of a name that carry no identity: inc, corp, 公司
  ShortWords, \* words under three characters
  Horizon,    \* DATE_PROXIMITY_DAYS
  UrlCap,     \* urls kept on one event
  NoDate

ASSUME IdentityAssumption ==
  /\ Horizon \in Nat \ {0}
  /\ UrlCap \in Nat \ {0}
  /\ NoDate \notin Nat

StrongIdentity == 820

Milestones == {"product_launch", "partnership", "funding", "deployment", "research", "policy",
               "regulatory", "acquisition", "personnel", "incident", "financial"}

\* Some of _TYPE_ALIASES, in the order of that dictionary.
Aliases == << <<"launch", "product_launch">>, <<"release", "product_launch">>,
              <<"rollout", "deployment">>, <<"paper", "research">> >>

Least(a, b) == IF a < b THEN a ELSE b
Greatest(a, b) == IF a > b THEN a ELSE b
Distance(a, b) == IF a < b THEN b - a ELSE a - b

NameKey(name) == Keep(name, {n \in DOMAIN name : name[n] \notin Suffixes})

Within(part, whole) ==
  \E i \in 1 .. Len(whole) : \E j \in i .. Len(whole) : SubSeq(whole, i, j) = part

LongEnough(key) == Len(key) > 1 \/ (Len(key) = 1 /\ key[1] \notin ShortWords)

\* Two keys agree exactly, or one contains the other.
Same(a, b) == a # <<>> /\ a = b

Related(a, b) ==
  \/ Same(a, b)
  \/ a # <<>> /\ b # <<>> /\ LongEnough(a) /\ LongEnough(b) /\ (Within(a, b) \/ Within(b, a))

\* _DISTINCT_TYPES is a set of strings: a process walks it in an order of its
\* own, given here as a sequence, and a worded type that contains two of them is
\* the one that comes first.
TypeKey(worded, order) ==
  LET known == SelectSeq(order, LAMBDA type : type \in worded)
      aliases == SelectSeq(Aliases, LAMBDA pair : pair[1] \in worded)
  IN IF worded = {} THEN ""
     ELSE IF worded \cap Milestones # {} THEN Head(Append(known, "other"))
     ELSE Head(Append(aliases, <<"other", "other">>))[2]

PageOf(url) == url[1]
Pages(urls) == {PageOf(urls[i]) : i \in DOMAIN urls}

\* merged_urls([]): one spelling of each page, the first, and no more than fit.
KeptUrls(urls) ==
  Take(Keep(urls, Firsts([i \in DOMAIN urls |-> PageOf(urls[i])])), UrlCap)

-----------------------------------------------------------------------------
\* The share of the horizon that lies between two dates, in thousandths.
Closeness(a, b) == ((Horizon - Least(Distance(a, b), Horizon)) * 1000) \div Horizon

Dated(a, b) == a # NoDate /\ b # NoDate

ProductWeight(c, e) ==
  IF Same(c.product, e.product) THEN 460 ELSE IF Related(c.product, e.product) THEN 300 ELSE 0

OrgWeight(c, e) ==
  LET whole == IF Related(c.product, e.product) THEN 200 ELSE 120
  IN IF Same(c.org, e.org) THEN whole
     ELSE IF Related(c.org, e.org) THEN (whole * 3) \div 4 ELSE 0

EntityWeight(c, e) == Least(120, 40 * Cardinality(c.entities \cap e.entities))

TypeWeight(c, e) == IF c.type # "" /\ c.type = e.type THEN 100 ELSE 0

DateWeight(c, e) == IF Dated(c.date, e.date) THEN (120 * Closeness(c.date, e.date)) \div 1000 ELSE 0

\* The slip that counts every signal and lets none of them block.
ConflictsForgotten(c, e) == {}

\* What argues against a merge.
Conflicts(c, e) ==
  (IF c.product # <<>> /\ e.product # <<>> /\ ~Related(c.product, e.product)
   THEN {"product"} ELSE {})
  \cup (IF c.type # e.type /\ {"", "other"} \cap {c.type, e.type} = {} THEN {"type"} ELSE {})
  \cup (IF Dated(c.date, e.date) /\ Closeness(c.date, e.date) = 0 THEN {"date"} ELSE {})

SharesPage(c, e) == Pages(c.urls) \cap Pages(e.urls) # {}

CompareIdentity(c, e, lexical) ==
  IF SharesPage(c, e)
  THEN [score |-> 1000, conflicts |-> {}, lexical |-> lexical]
  ELSE [score |-> Least(1000, ProductWeight(c, e) + OrgWeight(c, e) + EntityWeight(c, e)
                              + TypeWeight(c, e) + DateWeight(c, e) + (300 * lexical) \div 1000),
        conflicts |-> Conflicts(c, e),
        lexical |-> lexical]

IsStrong(match) == match.score >= StrongIdentity /\ match.conflicts = {}
=============================================================================
