------------------------------- MODULE Pricing -------------------------------
(***************************************************************************)
(* What a vendor row becomes before it is saved: validation, the margin of *)
(* its category, rounding to a price ending and the two rejections that    *)
(* follow (pricing-rules.ts, row-schema.ts, partition in processor.ts).    *)
(*                                                                         *)
(* Money is in cents and a margin in percent, so that cost times margin is *)
(* a whole number of hundredths of a cent, as exact as decimal.js.         *)
(***************************************************************************)
EXTENDS Integers

CONSTANTS
  CategoryMargins,   \* the categories with a margin of their own, and that margin
  DefaultMargin, FloorMargin,
  PriceEnding,       \* the cents every price ends with
  MaxPrice           \* the greatest price MONEY_STRING accepts

Dollar == 100
Unit == 100          \* hundredths of a cent in a cent
Rejected == -1

ASSUME MarginsAssumption ==
  /\ DefaultMargin \in Nat /\ FloorMargin \in Nat
  /\ \A c \in DOMAIN CategoryMargins : CategoryMargins[c] \in Nat
ASSUME EndingAssumption == PriceEnding \in 0 .. Dollar - 1
ASSUME MaxPriceAssumption == MaxPrice \in Nat

\* A category without an entry has the default margin, none is below the floor.
MarginFor(category) ==
  LET configured == IF category \in DOMAIN CategoryMargins
                      THEN CategoryMargins[category] ELSE DefaultMargin
  IN  IF configured < FloorMargin THEN FloorMargin ELSE configured

\* The cost with its margin, in hundredths of a cent.
RawPrice(cost, category) == cost * (100 + MarginFor(category))

\* Mutant of RoundToEnding: a tie goes down.
RoundTieDown(raw) ==
  LET step == Dollar * Unit
      ending == PriceEnding * Unit
      below == ((raw - ending) \div step) * step + ending
      low == IF below < 0 THEN below + step ELSE below
  IN  IF 2 * (raw - low) > step THEN below + step ELSE low

\* The two neighbours of raw with the ending; a negative one is replaced by the
\* next, and a tie goes up.
RoundToEnding(raw) ==
  LET step == Dollar * Unit
      ending == PriceEnding * Unit
      below == ((raw - ending) \div step) * step + ending
      high == below + step
      low == IF below < 0 THEN high ELSE below
  IN  IF 2 * (raw - low) >= step THEN high ELSE low

PriceRow(cost, category) ==
  LET priced == RoundToEnding(RawPrice(cost, category)) \div Unit
  IN  IF priced < cost THEN Rejected ELSE priced

\* partition: a row is well-formed, is priced, and its price fits the column.
RowPrice(row) ==
  LET priced == PriceRow(row.cost, row.category)
  IN  IF row.wellFormed /\ priced <= MaxPrice THEN priced ELSE Rejected

-----------------------------------------------------------------------------
(* The reference: what rule 3 and 4 of pricing-rules.ts say in words.        *)

\* At least the cost, with the ending, and no price with the ending is closer
\* to the raw price, or as close and higher.
IsPriceOf(price, row) ==
  LET raw == RawPrice(row.cost, row.category)
      Distance(q) == IF raw > q * Unit THEN raw - q * Unit ELSE q * Unit - raw
      near == {q \in 0 .. raw \div Unit + Dollar : q % Dollar = PriceEnding}
  IN  /\ price >= row.cost
      /\ price \in near
      /\ \A q \in near : Distance(price) < Distance(q) \/ (Distance(price) = Distance(q) /\ q <= price)
=============================================================================
