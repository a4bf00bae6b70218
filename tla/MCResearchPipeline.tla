------------------------- MODULE MCResearchPipeline -------------------------
(***************************************************************************)
(* Instances of ResearchPipeline for TLC: two source ids, for two urls or  *)
(* for one, and answers of up to two events, so that a run can create an   *)
(* event and match it again.                                               *)
(***************************************************************************)
EXTENDS ResearchPipeline, TLC

CONSTANTS s1, s2, u1, u2

OneIdEach    == (s1 :> u1) @@ (s2 :> u2)
TwoIdsOneUrl == [s \in {s1, s2} |-> u1]
DiskFault    == {"disk"}
AllFaults    == {"disk", "db", "kill", "topic"}
=============================================================================
