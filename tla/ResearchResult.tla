--------------------------- MODULE ResearchResult ---------------------------
(***************************************************************************)
(* The contract of a research answer: what an agent's JSON is read as, what*)
(* is repaired, what is dropped, and when it is refused.  A raw answer is a*)
(* record with the sources and events as the agent listed them; an entry   *)
(* of an unusable shape is Junk, a number that cannot be read is NoId, an  *)
(* address that is not http(s) is NotAPage.  Where the agent put a field   *)
(* and what it called it is layout and left out.                           *)
(***************************************************************************)
EXTENDS Selection, SequencesExt

CONSTANTS
    MaxEvents, MaxSources, MaxSections, MaxItems, MaxNotes,
    Junk, NoId, NotAPage, NoDate

ASSUME CapAssumption ==
    {MaxEvents, MaxSources, MaxSections, MaxItems, MaxNotes} \subseteq Nat \ {0}

----------------------------------------------------------------------------
(* Cleaning values.                                                        *)

Usable(s) == Keep(s, {i \in DOMAIN s : s[i] # Junk})
Distinct(s) == Keep(s, Firsts(s))

\* Notes without blanks or repetitions, at most MaxNotes.
StringList(s, n) == Take(Distinct(Usable(s)), n)

\* Evidence ids without what is not a number and without repetitions.
IntList(ids) == Distinct(Keep(ids, {n \in DOMAIN ids : ids[n] \notin {NoId, Junk}}))

\* A date that cannot be read stays unknown; it is never guessed.
ParseDate(d) == IF d = Junk THEN NoDate ELSE d

Statuses == {"complete", "partial", "failed"}
Done == {"ok", "success", "succeeded", "full", "done"}
Broken == {"error", "failure", "unavailable", "aborted"}

\* A word that means nothing to AIOS never counts as complete.
CleanStatus(word) ==
    CASE word \in Statuses -> word
      [] word \in Done \cup {""} -> "complete"
      [] word \in Broken -> "failed"
      [] OTHER -> "partial"

----------------------------------------------------------------------------
(* Repairing an answer (the _coerce functions).                            *)

CoerceSource(raw, fallback) ==
    IF raw = Junk THEN Junk
    ELSE IF raw.url = NotAPage THEN Junk
    ELSE [id |-> IF raw.id = NoId THEN fallback ELSE raw.id, url |-> raw.url]

\* A source without a number of its own gets its place in the list.
CoerceSources(raw) == Usable([i \in DOMAIN raw |-> CoerceSource(raw[i], i - 1)])

CoerceEvent(raw) ==
    IF raw = Junk THEN Junk
    ELSE [ids |-> IntList(raw.ids), date |-> ParseDate(raw.date)]

CoerceEvents(raw) == Usable([i \in DOMAIN raw |-> CoerceEvent(raw[i])])

CoerceItem(raw) == IF raw = Junk THEN Junk ELSE IntList(raw)

\* A section is the list of its items, an item the evidence it cites.
CoerceSection(raw) ==
    IF raw = Junk THEN Junk
    ELSE Take(Usable([i \in DOMAIN raw |-> CoerceItem(raw[i])]), MaxItems)

CoerceSections(raw) == Usable([i \in DOMAIN raw |-> CoerceSection(raw[i])])

\* An answer that is not an object reads as an empty one.
Coerce(raw) ==
    LET sources == CoerceSources(raw.sources)
    IN  [coverage |-> CleanStatus(raw.coverage),
         notes    |-> StringList(raw.notes, MaxNotes),
         text     |-> raw.text,
         sections |-> Take(CoerceSections(raw.sections), MaxSections),
         events   |-> Take(CoerceEvents(raw.events), MaxEvents),
         sources  |-> Take(sources, MaxSources),
         examined |-> Len(sources)]

----------------------------------------------------------------------------
(* Validating it (validate_research_payload).                              *)

\* The number a page was first listed under.
FirstId(sources, url) ==
    sources[CHOOSE i \in DOMAIN sources :
        /\ sources[i].url = url
        /\ \A j \in DOMAIN sources : sources[j].url = url => i <= j].id

\* One entry per page: the first.
UniqueSources(sources) ==
    Keep(sources, Firsts([i \in DOMAIN sources |-> sources[i].url]))

\* A defect: ids are kept although their sources were merged.
RemapNothing(sources, id) == id

\* A number used for several pages stands for the last page it was used for.
Remap(sources, id) ==
    LET uses == {i \in DOMAIN sources : sources[i].id = id}
    IN  IF uses = {} THEN id
        ELSE FirstId(sources,
                     sources[CHOOSE i \in uses : \A j \in uses : j <= i].url)

SourceIds(sources) == {sources[i].id : i \in DOMAIN sources}

\* Evidence in terms of the listed sources; what names none of them goes.
ResolveIds(sources, ids) ==
    LET listed == SourceIds(UniqueSources(sources))
        remapped == [n \in DOMAIN ids |-> Remap(sources, ids[n])]
    IN  Distinct(Keep(remapped, {n \in DOMAIN ids : remapped[n] \in listed}))

\* Events whose evidence resolves to nothing are inadmissible.
Admissible(sources, events) ==
    LET resolved == [n \in DOMAIN events |->
                        [events[n] EXCEPT !.ids = ResolveIds(sources, @)]]
    IN  Keep(resolved, {n \in DOMAIN events : resolved[n].ids # <<>>})

SaidNothing(r) ==
    /\ r.events = <<>> /\ r.sections = <<>> /\ r.sources = <<>>
    /\ ~r.text /\ r.notes = <<>>

\* The result, or Junk when ResearchResultError is raised.
Validate(raw) ==
    LET c == Coerce(raw)
        Cited(section) == [i \in DOMAIN section |-> ResolveIds(c.sources, section[i])]
        r == [c EXCEPT !.sources = UniqueSources(c.sources),
                       !.events = Admissible(c.sources, c.events),
                       !.sections = [i \in DOMAIN @ |-> Cited(@[i])],
                       !.examined = IF @ = 0 THEN Len(UniqueSources(c.sources)) ELSE @]
    IN  IF SaidNothing(r) /\ r.coverage # "failed" THEN Junk ELSE r

Pages(sources, id) == {s.url : s \in {x \in ToSet(sources) : x.id = id}}
=============================================================================
