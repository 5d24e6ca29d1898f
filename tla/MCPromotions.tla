----------------------------- MODULE MCPromotions -----------------------------
(***************************************************************************)
(* Values of the constants of Promotions for TLC: a product that stays in  *)
(* its category and is re-priced, one that the ingest moves, one that the  *)
(* API creates.                                                            *)
(***************************************************************************)
EXTENDS Promotions, TLC

CONSTANTS c1, c2, lamp, mug, pen, books, toys, none

TwoClients == {c1, c2}
OneAssigner == {c1}
AllProducts == {lamp, mug, pen}
BothCategories == {books, toys}
AllTargets == {lamp, books, toys}

HalfOff(target) == [target |-> target, type |-> "PERCENTAGE", value |-> 5000]
FiveOff(target) == [target |-> target, type |-> "FIXED", value |-> 500]
ThreeOffers == {FiveOff(lamp), HalfOff(books), FiveOff(toys)}

Window(from, to) == [from |-> from, to |-> to]
TwoWindows == {Window(0, 1), Window(0, 2)}

\* One category with a margin of its own, as Accessories has.
Margins == (toys :> 45)

R(p, cost, cat, ok) == [product |-> p, cost |-> cost, category |-> cat, wellFormed |-> ok]

\* The lamp costs more than FiveOff at first and less later, a cost of 114 rounds to
\* 99 and is refused, the malformed row too; the mug moves, and costs what makes 23.49
\* with the margin of toys, a tie.
Rows == {R(lamp, 300, books, TRUE), R(lamp, 114, books, TRUE), R(lamp, 200, books, FALSE),
         R(mug, 1620, toys, TRUE)}
First2 == {R(lamp, 1000, books, TRUE), R(mug, 500, books, TRUE)}
Created == {[product |-> pen, cat |-> toys, base |-> 250]}

\* No promotion yet; one on a category; one on a product in it, for the first half.
Earlier == {<< >>, <<Promotion(HalfOff(books), Window(0, 2))>>,
            <<Promotion(HalfOff(books), Window(1, 2)), Promotion(FiveOff(lamp), Window(0, 1))>>}
=============================================================================
