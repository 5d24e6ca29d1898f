----------------------------- MODULE MCOperatorUi -----------------------------
(***************************************************************************)
(* Values of the constants of OperatorUi for TLC: three products of two    *)
(* categories on pages of one, one promotion, two jobs of which the list   *)
(* shows one.                                                              *)
(***************************************************************************)
EXTENDS OperatorUi

CONSTANTS none, anyCategory, mugs, hats, tea, tee

ThreeProducts == 1 .. 3
BothCategories == {mugs, hats}
Categorised == [p \in ThreeProducts |-> IF p = 3 THEN hats ELSE mugs]
TwoPrices == {1, 2}
AllTheSame == [p \in ThreeProducts |-> 1]
OnePromotion == {"sale"}
TwoTerms == {tea, tee}
TwoJobs == 1 .. 2

Use(views, waits, n, failing, changes) ==
  [views |-> views, patient |-> waits, events |-> n, faults |-> failing, repricings |-> changes]
SomeSessions ==
  {Use({"products"}, TRUE, 4, 0, 1), Use({"products"}, TRUE, 2, 1, 1), Use({"products"}, FALSE, 2, 0, 0),
   Use({"promotions"}, TRUE, 5, 1, 0), Use({"promotions"}, FALSE, 4, 1, 0), Use({"promotions"}, FALSE, 5, 0, 0),
   Use({"products", "promotions"}, TRUE, 3, 0, 1),
   Use({"ingest"}, TRUE, 3, 1, 0), Use({"ingest"}, FALSE, 2, 0, 0), Use({"products", "ingest"}, TRUE, 2, 0, 0)}
=============================================================================
