------------------------------ MODULE MCAgents ------------------------------
(***************************************************************************)
(* An instance of Agents for TLC: a vendor whose search is checked, one    *)
(* whose search is not, and a chat-only one; answers with sources, numbered*)
(* or not, and events, with one more of each than AIOS keeps.              *)
(***************************************************************************)
EXTENDS Agents

CONSTANTS deepseek, openai, minimax, p1, p2

ThreeVendors == {deepseek, openai, minimax}
WithSearch == {deepseek, openai}
SearchChecked == {deepseek}
NoVendors == {}

At(id, url) == [id |-> id, url |-> url]
Sources == {<<>>, <<Junk, At(0, p1), At(NoId, p2), At(1, p2)>>, <<At(1, p1), At(NoId, p2)>>}
           \cup {<<At(0, p1), b>> : b \in {At(0, p2), At(1, p2), At(1, p1)}}
Cite(ids) == [ids |-> ids, date |-> NoDate]
Events == {<<>>, <<Cite(<<1, 0>>), Cite(<<0>>)>>}
          \cup {<<Cite(ids)>> : ids \in {<<>>, <<0>>, <<1>>}}
Words == {"ok", "unsure", "failed"}
RawAnswers ==
    [sources : Sources, events : Events, coverage : Words, text : {FALSE},
     sections : {<<>>}, notes : {<<>>}]
    \cup [sources : {<<>>}, events : {<<>>}, coverage : Words, text : {TRUE},
          sections : {<<>>, <<Junk, <<<<0>>, Junk>>>>}, notes : {<<>>, <<Junk, 1>>}]

Story(n, url) == [url |-> url, story |-> n, banned |-> FALSE]
Found == {<<>>, <<[Story(1, p1) EXCEPT !.banned = TRUE]>>,
          <<Story(1, p1), Story(1, p2)>>, <<Story(1, p2), Story(2, p1)>>}
=============================================================================
