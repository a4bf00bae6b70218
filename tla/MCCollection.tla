----------------------------- MODULE MCCollection -----------------------------
(* A small instance of Collection: three topics, the second repeating a     *)
(* query of the first, one source to search and one feed or none.          *)
EXTENDS Collection, TLC

CONSTANTS q1, q2, q3, q4, k1, k2, g, rss, f1, f2

ThreeTopics == <<{q1, q2}, {q3}, {q4}>>
KeyOfEach == q1 :> k1 @@ q2 :> k1 @@ q3 :> k1 @@ q4 :> k2
OneSearch == {g}
Orders ==
  {[order |-> <<>>, feeds |-> <<>>],
   [order |-> <<g, rss>>, feeds |-> <<>>],
   [order |-> <<rss, g>>, feeds |-> <<f1>>]}
Slots == g :> 1 @@ rss :> 2
Thresholds == g :> 2 @@ rss :> 1
Tries == g :> 2 @@ rss :> 1
OneRemembered == {<<g, k2>>}
=============================================================================
