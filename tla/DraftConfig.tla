----------------------------- MODULE DraftConfig -----------------------------
(***************************************************************************)
(* What becomes of a configuration a model proposes: the payload is read   *)
(* tolerantly, validated, cut to the budgets and given a free key; the     *)
(* preview page posts it back as a form, which is validated again.         *)
(* Lengths are checked on a text as it comes, before it is cleaned: what   *)
(* is shown may be too short when it comes back.  A topic is Junk when it  *)
(* is no object; Blank is the empty text; cleaned texts that differ in     *)
(* case only have the same Fold.  A key is the sequence of its characters  *)
(* in lower case: 0 to 9 are the digits, 10 to 35 the letters, then the    *)
(* underscore, which stands for a blank inside as well, and the dash;      *)
(* others are not for keys.                                                *)
(***************************************************************************)
EXTENDS Selection

CONSTANTS
    MaxTopics, MaxQueries, MaxTotal, MaxSources, MaxExclusions,
    KeyLen,               \* characters a cleaned key is cut to: 60
    SuffixedLen,          \* characters a key with a suffix is cut to: 63
    RawKeyLen,            \* characters a key may come with: 64
    MaxSuffix,            \* suffixes tried for a taken key: 99
    Fold(_), Slug(_),
    Clean(_),             \* without blanks around, nor two together
    CleanDomain(_),       \* without scheme, path and one leading www.
    CleanWord(_),         \* cleaned, and cut to 60 characters
    BadNames, BadQueries, \* texts whose length is out of bounds
    Addresses,            \* cleaned texts that are no keywords but a URL
    NotADomain, Blank, Junk

ASSUME BudgetAssumption ==
    /\ {MaxTopics, MaxQueries, MaxTotal, MaxSources, MaxExclusions} \subseteq Nat \ {0}
    /\ KeyLen \in Nat \ {0} /\ SuffixedLen \in KeyLen..RawKeyLen /\ RawKeyLen \in Nat
    /\ MaxSuffix \in 2..99

\* The first of the entries that have one key.
FirstOf(s, keys) == Keep(s, Firsts(keys))

NameFolds(ts) == [i \in DOMAIN ts |-> Fold(ts[i].name)]

----------------------------------------------------------------------------
(* Reading the model's payload (the _coerce functions).                    *)

Without(s, wrong) == Keep(s, {i \in DOMAIN s : s[i] # wrong})

\* A wrong domain or an empty query goes; the rest of the topic stays.  What is
\* no object becomes a topic that says nothing.
CoerceTopic(t) ==
    IF t = Junk
    THEN [name |-> Blank, queries |-> <<>>, sources |-> <<>>, banned |-> <<>>]
    ELSE [name    |-> t.name,
          queries |-> Keep(t.queries, {i \in DOMAIN t.queries : Clean(t.queries[i].text) # Blank}),
          sources |-> Keep(t.sources, {i \in DOMAIN t.sources : CleanDomain(t.sources[i]) # NotADomain}),
          banned  |-> Keep(t.banned, {i \in DOMAIN t.banned : Clean(t.banned[i]) # Blank})]

CoercePayload(c) ==
    LET some == Without(c.topics, Blank)
    IN  [name   |-> c.name,
         key    |-> IF c.key = <<>> THEN Slug(c.name) ELSE c.key,
         topics |-> [i \in DOMAIN some |-> CoerceTopic(some[i])]]

----------------------------------------------------------------------------
(* Validating it (GeneratedTopic, GeneratedMonitorConfig).                 *)

ValidQuery(q) == q.text \notin BadQueries /\ Clean(q.text) \notin Addresses \cup {Blank}

TopicRefused(t) ==
    \/ t.name \in BadNames \/ t.queries = <<>>
    \/ \E i \in DOMAIN t.queries : ~ValidQuery(t.queries[i])
    \/ \E i \in DOMAIN t.sources : CleanDomain(t.sources[i]) = NotADomain

\* The field validators.
Cleaned(t) ==
    [name    |-> Clean(t.name),
     queries |-> [i \in DOMAIN t.queries |->
                     [text |-> Clean(t.queries[i].text), priority |-> t.queries[i].priority]],
     sources |-> [i \in DOMAIN t.sources |-> CleanDomain(t.sources[i])],
     banned  |-> Without([i \in DOMAIN t.banned |-> CleanWord(t.banned[i])], Blank)]

Budgeted(t) ==
    LET texts == [i \in DOMAIN t.queries |-> Fold(t.queries[i].text)]
        words == [i \in DOMAIN t.banned |-> Fold(t.banned[i])]
    IN  [name    |-> t.name,
         queries |-> Take(FirstOf(t.queries, texts), MaxQueries),
         sources |-> Take(FirstOf(t.sources, t.sources), MaxSources),
         banned  |-> Take(FirstOf(t.banned, words), MaxExclusions)]

\* A topic that is not refused, cleaned and within its budget.
GeneratedTopic(t) == Budgeted(Cleaned(t))

\* Queries of the topics before the i-th.
Offered(topics, i) ==
    Cardinality({p \in Places([n \in DOMAIN topics |-> topics[n].queries]) : p[1] < i})

Left(topics, i) == IF Offered(topics, i) < MaxTotal THEN MaxTotal - Offered(topics, i) ELSE 0

Cut(topics) ==
    [i \in DOMAIN topics |->
        [topics[i] EXCEPT !.queries = Take(topics[i].queries, Left(topics, i))]]

\* A defect: topics beyond the budget are kept without their queries.
SpendEmptying(topics) == Cut(topics)

\* The total of queries is spent in the order of the topics.
Spend(topics) == Keep(Cut(topics), {i \in DOMAIN topics : Left(topics, i) > 0})

Underscore == 36
Dash == 37
CleanKey(key) == Take(Keep(key, {i \in DOMAIN key : key[i] \in 0..Dash}), KeyLen)

\* A key that is empty or begins with a mark is made from the name.
KeyOf(c) ==
    LET key == CleanKey(c.key)
    IN  IF key = <<>> \/ key[1] \in {Underscore, Dash} THEN Slug(Clean(c.name)) ELSE key

ConfigRefused(c) ==
    \/ c.name \in BadNames \/ Len(c.key) > RawKeyLen \/ c.topics = <<>>
    \/ \E i \in DOMAIN c.topics : TopicRefused(c.topics[i])

\* The draft, of what is not refused.
GeneratedConfig(c) ==
    LET topics == [i \in DOMAIN c.topics |-> GeneratedTopic(c.topics[i])]
    IN  [name   |-> Clean(c.name),
         key    |-> KeyOf(c),
         topics |-> Spend(Take(FirstOf(topics, NameFolds(topics)), MaxTopics))]

\* The key with the first free suffix of one or two digits; the last resort
\* is the letter x, and is not looked up.
Digits(n) == IF n < 10 THEN <<n>> ELSE <<n \div 10, n % 10>>
Suffixed(key, suffix) == Take(key \o <<Underscore>> \o suffix, SuffixedLen)
UniqueKey(key, taken) ==
    LET free == {n \in 2..MaxSuffix : Suffixed(key, Digits(n)) \notin taken}
    IN  IF key \notin taken THEN key
        ELSE IF free = {} THEN Suffixed(key, <<33>>)
        ELSE Suffixed(key, Digits(CHOOSE n \in free : \A m \in free : n <= m))

\* generate_module: what the page shows of a payload that is not refused.
ModuleDraft(payload, taken) ==
    LET c == GeneratedConfig(CoercePayload(payload))
    IN  [c EXCEPT !.key = UniqueKey(c.key, taken)]

\* generate_topic: a topic the module has already is refused as well.
TopicTaken(t, names) == \E n \in names : Fold(n) = Fold(GeneratedTopic(t).name)

----------------------------------------------------------------------------
(* The preview form.                                                       *)

\* One query a line: its priority is not on the page and becomes 5 again.
\* What is shown has been trimmed, so that trimming the lines is left out.
TopicFromForm(t) ==
    [name |-> t.name, sources |-> t.sources, banned |-> t.banned,
     queries |-> [i \in DOMAIN t.queries |-> [text |-> t.queries[i].text, priority |-> 5]]]

\* Topics the user has switched off are left out.
ConfigFromForm(c, kept) ==
    [name |-> c.name, key |-> c.key,
     topics |-> [n \in DOMAIN kept |-> TopicFromForm(c.topics[kept[n]])]]

\* A posted topic is validated by itself, and once more with its module.
Validated(form) ==
    [form EXCEPT !.topics = [i \in DOMAIN form.topics |-> GeneratedTopic(form.topics[i])]]
FormRefused(form) ==
    \/ \E i \in DOMAIN form.topics : TopicRefused(form.topics[i])
    \/ ConfigRefused(Validated(form))
PostedConfig(form) == GeneratedConfig(Validated(form))
=============================================================================
