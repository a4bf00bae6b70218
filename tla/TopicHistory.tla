----------------------------- MODULE TopicHistory -----------------------------
(***************************************************************************)
(* What the readers of a research topic rely on: the sequence of briefs it *)
(* has had only grows, one brief per edit, and its id stays (the promise   *)
(* of aios/repositories/research_topics.py, update_topic).                 *)
(***************************************************************************)
EXTENDS Naturals, Sequences

CONSTANTS Ids, Briefs

VARIABLE history   \* the briefs of each topic, the one in effect last

Init == history \in [Ids -> {<<>>} \cup {<<b>> : b \in Briefs}]

Create(t) == /\ history[t] = <<>>
             /\ \E b \in Briefs : history' = [history EXCEPT ![t] = <<b>>]

Edit(t) == /\ history[t] # <<>>
           /\ \E b \in Briefs : history' = [history EXCEPT ![t] = Append(@, b)]

Next == \E t \in Ids : Create(t) \/ Edit(t)

Spec == Init /\ [][Next]_history
=============================================================================
