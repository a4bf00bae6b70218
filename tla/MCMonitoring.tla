---------------------------- MODULE MCMonitoring ----------------------------
(***************************************************************************)
(* An instance of Monitoring for TLC: one seeded module; names and texts   *)
(* in two spellings; drafts with a twin, a topic too many, queries too     *)
(* many, a wrong domain, an address for a query, a taken key; and with     *)
(* what is shown but not taken again: a name of blanks, a query of one     *)
(* letter, www. twice, a key as long as a key may be.                      *)
(***************************************************************************)
EXTENDS Monitoring, TLC

CONSTANTS r1, r2

FoldCase(x) == CASE x = "ROS" -> "ros" [] x = "NPU" -> "npu" [] OTHER -> x
Trim(x) == CASE x = " " -> Blank [] x = "x " -> "x" [] x = "ros " -> "ros" [] OTHER -> x
HostOf(d) ==
    CASE d = "www.www.ros.org" -> "www.ros.org"
      [] d = "www.ros.org" -> "ros.org"
      [] d = "www.www.www.io" -> "www.www.io"
      [] d = "www.www.io" -> "www.io"
      [] d = "www.io" -> NotADomain
      [] OTHER -> d
SlugOf(name) == <<28>>
TwoWorkers == {r1, r2}
Symmetry == Permutations(TwoWorkers)

Rob == <<27, 24, 11>>
MyKeys == {Rob, <<28>>}
MyNames == {"ros", "ROS"}
MyTexts == {"npu", "NPU"}
NoName == {Blank}
TooShort == {"x"}
Urls == {"http://x"}

Q(text) == [text |-> text, priority |-> 7]
T(name, texts, domains) ==
    [name |-> name, queries |-> [i \in DOMAIN texts |-> Q(texts[i])],
     sources |-> domains, banned |-> <<>>]
C(name, key, list) == [name |-> name, key |-> key, topics |-> list]

MyPayloads ==
    {C("Robots", Rob,
       <<T("ros ", <<"npu", "NPU", "agent">>, <<NotADomain, "www.www.ros.org">>),
         T("ROS", <<"agent">>, <<>>), T("vla", <<"vla", "gpu">>, <<>>)>>),
     C("Robots", <<>>,
       <<T("vla", <<"npu", "gpu", "vla">>, <<>>), T("ros", <<Blank, "npu">>, <<>>),
         T("third", <<"agent">>, <<>>), T("fourth", <<"gpu">>, <<>>)>>),
     C("Robots", <<36>>, <<T("ros", <<"x ">>, <<>>), T("vla", <<"gpu">>, <<>>)>>),
     C(" ", <<38, 28>>, <<T("ros", <<"npu">>, <<"www.www.www.io">>)>>),
     C("Robots", <<>>, <<T("ros", <<"http://x">>, <<>>)>>),
     C("Robots", <<>>, <<Junk>>)}
MyTopicPayloads ==
    {T("ROS", <<"npu", "NPU">>, <<>>), T("vla", <<"gpu">>, <<"www.www.io">>),
     T(" ", <<"npu">>, <<>>), Junk}
MySeeds == <<[key |-> Rob, topics |-> <<T("ros", <<"npu">>, <<>>)>>]>>
=============================================================================
