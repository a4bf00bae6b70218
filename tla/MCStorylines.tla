---------------------------- MODULE MCStorylines ----------------------------
(* A robot is launched, the launch is told again in other words, copied by *)
(* a page that names nobody, and its maker is funded; and the classic      *)
(* engine counts the sales of a quarter.                                   *)
EXTENDS Storylines, TLC

Item(title, org, product, kind, date, entities, pages, slug) ==
  [engine |-> "agent", figure |-> NoFigure, correction |-> FALSE,
   title |-> title, summary |-> title, org |-> org, product |-> product, kind |-> kind,
   date |-> date, entities |-> entities, slug |-> slug,
   urls |-> [n \in DOMAIN pages |-> <<pages[n], slug>>]]

Figure == <<"figure">>
FigureInc == <<"figure", "ai", "inc">>
Helix == <<"helix", "2">>

Launch     == Item({"figure", "helix2", "launch"}, Figure, Helix, {"launch"}, 1, {}, <<"pa">>, "helix")
Retold     == Item({"figure", "humanoid", "system"}, FigureInc, Helix, {"product_launch"}, 1,
                    {"bmw"}, <<"pb">>, "humanoid")
Funded     == Item({"figure", "helix2", "money"}, Figure, Helix, {"deployment", "funding"}, 30, {"bmw"},
                    <<"pd">>, "helix")
Copied     == Item({"robots", "launch", "today"}, <<>>, <<>>, {}, NoDate, {}, <<"pa", "pe">>, "robots")

\* What the classic engine says of the sales of a quarter.
Count(figure, correction) ==
  [engine |-> "classic", figure |-> figure, correction |-> correction,
   title |-> {"sales", "quarter"}, summary |-> {"sales", ToString(figure[2])}, org |-> <<>>, product |-> <<>>,
   kind |-> {}, date |-> NoDate, entities |-> {}, slug |-> "sales", urls |-> <<>>]

SeveralStories == [launch |-> Launch, retold |-> Retold, funded |-> Funded, copied |-> Copied,
                   none |-> Count(<<"number", 0>>, FALSE), recount |-> Count(<<"number", 5>>, TRUE),
                   many |-> Count(<<"text", "many">>, FALSE)]
InOrder == <<"deployment", "funding", "product_launch", "personnel">>
InOtherOrder == <<"funding", "deployment", "product_launch", "personnel">>
TwoOrders == {InOrder, InOtherOrder}
NoSuffixButInc == {"inc"}
NoShortWords == {"2"}
=============================================================================
