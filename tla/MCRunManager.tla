---------------------------- MODULE MCRunManager ----------------------------
(***************************************************************************)
(* The instances of RunManager for TLC: one process that crashes, stops    *)
(* and starts again, over a database that may refuse or one that answers.  *)
(***************************************************************************)
EXTENDS RunManager

CONSTANTS p1, p2

OneProcess == {p1}
=============================================================================
