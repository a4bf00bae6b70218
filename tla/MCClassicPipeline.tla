-------------------------- MODULE MCClassicPipeline --------------------------
(* A small instance of ClassicPipeline, with sections of one item.  The     *)
(* user may have switched every module off, or left two modules, or one     *)
(* with more topics than twice what a section holds.                        *)
EXTENDS ClassicPipeline, TLC

CONSTANTS m1, m2, m3, t1, t2, t3, t4, t5, s1, s2

ThreePlans   == {<<>>, <<m1, m2>>, <<m3>>}
TopicsOfEach == m1 :> <<t1>> @@ m2 :> <<t2>> @@ m3 :> <<t3, t4, t5>>
OneSource    == {s1}
NoneIdle     == {}
AllIdle      == {s1}
AllFaults    == {"model", "code", "db", "disk"}
=============================================================================
