--------------------------- MODULE MCResearchTopics ---------------------------
(* Two coroutine handlers, and a pooled one, over two topics.     *)
EXTENDS ResearchTopics

CONSTANTS c1, c2, h1, n1, n2, x1

TwoCoroutines == {c1, c2}
OnePooled == {h1}
TwoNames == {n1, n2}
OneBrief == {[name |-> n1, text |-> x1]}
OneText == {x1}
AllKinds == {"refine", "create", "edit", "revise"}
=============================================================================
