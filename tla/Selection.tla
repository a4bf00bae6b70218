------------------------------ MODULE Selection ------------------------------
(***************************************************************************)
(* Sequences cut down to some of their entries: a comprehension with an if,*)
(* a loop with a set of what it has seen, a slice.  A selection is given by*)
(* the positions that stay, so that theorems can speak of it.  And lists   *)
(* run together, as nested loops walk them.                                *)
(***************************************************************************)
EXTENDS Naturals, Sequences, FiniteSets

\* A sequence, whatever its entries are.
IsList(s) == s \in Seq({s[i] : i \in DOMAIN s})

\* The n-th of a set of positions.
Below(kept, i) == {j \in kept : j < i}
Position(kept, n) == CHOOSE i \in kept : Cardinality(Below(kept, i)) = n - 1

\* The entries of s at these positions, in their order.
Keep(s, kept) == [n \in 1..Cardinality(kept) |-> s[Position(kept, n)]]

\* Where a value occurs for the first time.
Firsts(s) == {i \in DOMAIN s : \A j \in 1..(i - 1) : s[j] # s[i]}

\* s[:n]
Take(s, n) == SubSeq(s, 1, IF Len(s) < n THEN Len(s) ELSE n)

\* One list after the other: the places in a list of lists, in their order.
Places(lists) == UNION {{<<i, j>> : j \in DOMAIN lists[i]} : i \in DOMAIN lists}
Preceding(lists, p) ==
  {q \in Places(lists) : q[1] < p[1] \/ (q[1] = p[1] /\ q[2] < p[2])}
PlaceAt(lists, n) ==
  CHOOSE p \in Places(lists) : Cardinality(Preceding(lists, p)) = n - 1
Flat(lists) ==
  [n \in 1..Cardinality(Places(lists)) |->
     lists[PlaceAt(lists, n)[1]][PlaceAt(lists, n)[2]]]
=============================================================================
