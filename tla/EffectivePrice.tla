---------------------------- MODULE EffectivePrice ----------------------------
(***************************************************************************)
(* The effective price of a product: effective-price.sql.ts as operators   *)
(* over the rows of promotions.  Prices and FIXED values are in cents,     *)
(* PERCENTAGE values in hundredths of a percent (numeric(12,2)).           *)
(*                                                                         *)
(* A promotion's target is the one of product_id and category_id that is   *)
(* set (promotions_one_scope); products and categories share no id.        *)
(***************************************************************************)
EXTENDS Integers, Sequences

CONSTANTS Products, Categories, NoProduct

ASSUME ScopeAssumption == Products \cap Categories = {}

\* Mutant of DiscountedPrice: FIXED is subtracted without the floor.
DiscountedBelowZero(base, promotion) ==
  IF promotion.type = "PERCENTAGE"
    THEN (2 * base * (10000 - promotion.value) + 10000) \div 20000
    ELSE base - promotion.value

\* ROUND(.., 2), half up, of a percentage; GREATEST(0, ..) of a FIXED discount.
DiscountedPrice(base, promotion) ==
  IF promotion.type = "PERCENTAGE"
    THEN (2 * base * (10000 - promotion.value) + 10000) \div 20000
    ELSE IF base > promotion.value THEN base - promotion.value ELSE 0

\* tstzrange(starts_at, ends_at) @> t: the end does not belong to the window.
Covers(promotion, t) == promotion.from <= t /\ t < promotion.to

\* The rows the lateral subquery of product p, in category cat, selects at t ...
Applicable(promotions, p, cat, t) ==
  {i \in DOMAIN promotions :
     /\ promotions[i].status = "ACTIVE"
     /\ Covers(promotions[i], t)
     /\ promotions[i].target \in {p, cat}}

\* ... and those that its ORDER BY (product_id IS NOT NULL) DESC may put first.
First(promotions, p, cat, t) ==
  LET found == Applicable(promotions, p, cat, t)
      own == {i \in found : promotions[i].target = p}
  IN  IF own # {} THEN own ELSE found

\* COALESCE(promo.discounted_price, p.base_price)
PriceAt(promotions, p, product, t) ==
  LET first == First(promotions, p, product.cat, t)
  IN  IF first = {} THEN product.base
      ELSE DiscountedPrice(product.base, promotions[CHOOSE i \in first : TRUE])

\* Mutant of EffectiveStatus: the end still belongs to the window.
StatusClosed(promotion, t) ==
  IF promotion.status = "CANCELLED" THEN "CANCELLED"
  ELSE IF t < promotion.from THEN "SCHEDULED"
  ELSE IF t > promotion.to THEN "ENDED"
  ELSE "ACTIVE"

\* effective_status of the promotion list, which compares with now() on its own.
EffectiveStatus(promotion, t) ==
  IF promotion.status = "CANCELLED" THEN "CANCELLED"
  ELSE IF t < promotion.from THEN "SCHEDULED"
  ELSE IF t >= promotion.to THEN "ENDED"
  ELSE "ACTIVE"

\* The listing of category c at t: every product of it with its price.
Listing(products, promotions, c, t) ==
  [p \in {q \in Products : products[q] # NoProduct /\ products[q].cat = c} |->
     PriceAt(promotions, p, products[p], t)]
=============================================================================
