--------------------------- MODULE PromotionsProofs ---------------------------
(***************************************************************************)
(* Proofs about Promotions, for every number of requests, products,        *)
(* categories, promotions and instants.                                    *)
(***************************************************************************)
EXTENDS Promotions, TLAPS

-----------------------------------------------------------------------------
(***************************************************************************)
(* Arithmetic of prices.                                                   *)
(***************************************************************************)
\* No margin is negative.
LEMMA MarginIsNat ==
  ASSUME NEW category
  PROVE  MarginFor(category) \in Nat
BY MarginsAssumption DEF MarginFor

\* The raw price of a row is a natural number.
LEMMA RawPriceIsNat ==
  ASSUME NEW cost \in Nat, NEW category
  PROVE  RawPrice(cost, category) \in Nat
<1>1. MarginFor(category) \in Nat
  BY MarginIsNat
<1> DEFINE factor == 100 + MarginFor(category)
<1>2. factor \in Nat
  BY <1>1
<1> HIDE DEF factor
<1>3. cost * factor \in Nat
  BY <1>2
<1> QED BY <1>3 DEF RawPrice, factor

\* Division by 10000 rounds down.
LEMMA Quotient ==
  ASSUME NEW a \in Int
  PROVE  /\ a \div 10000 \in Int
         /\ 10000 * (a \div 10000) <= a
         /\ a < 10000 * (a \div 10000) + 10000
OBVIOUS

\* Rounding yields a number of dollars and the ending: one of the two neighbours of the
\* raw price, and no neighbour is closer.
LEMMA RoundedPrice ==
  ASSUME NEW raw \in Nat
  PROVE  \E k \in Nat :
           /\ RoundToEnding(raw) = 10000 * k + 100 * PriceEnding
           /\ 2 * (RoundToEnding(raw) - raw) <= 10000 \/ k = 0
           /\ 2 * (raw - RoundToEnding(raw)) < 10000
<1> DEFINE ending == 100 * PriceEnding
           n == (raw - ending) \div 10000
           below == 10000 * n + ending
<1>1. ending \in Int /\ 0 <= ending /\ ending <= 9900
  BY EndingAssumption DEF Dollar
<1>2. RoundToEnding(raw) =
        LET low == IF below < 0 THEN below + 10000 ELSE below
        IN  IF 2 * (raw - low) >= 10000 THEN below + 10000 ELSE low
  <2>1. PriceEnding * 100 = ending /\ n * 10000 = 10000 * n
    BY EndingAssumption, <1>1, Quotient DEF Dollar
  <2> QED BY <2>1 DEF RoundToEnding, Dollar, Unit
<1>3. n \in Int /\ 10000 * n <= raw - ending /\ raw - ending < 10000 * n + 10000
  BY <1>1, Quotient
<1> SUFFICES \E k \in Nat :
               /\ RoundToEnding(raw) = 10000 * k + ending
               /\ 2 * (RoundToEnding(raw) - raw) <= 10000 \/ k = 0
               /\ 2 * (raw - RoundToEnding(raw)) < 10000
  OBVIOUS
<1> HIDE DEF ending, n
<1>4. CASE n < 0
  <2>1. n + 1 >= 0
    BY <1>1, <1>3
  <2>2. 10000 * n + 10000 = 0
    BY <1>3, <1>4, <2>1
  <2>3. RoundToEnding(raw) = ending
    BY <1>1, <1>2, <1>3, <2>2
  <2>4. RoundToEnding(raw) = 10000 * 0 + ending /\ 2 * (raw - RoundToEnding(raw)) < 10000
    BY <1>1, <1>3, <2>2, <2>3
  <2> QED BY <2>4
<1>5. CASE n >= 0 /\ 2 * (raw - below) >= 10000
  <2>1. RoundToEnding(raw) = 10000 * (n + 1) + ending
    BY <1>1, <1>2, <1>3, <1>5
  <2>2. n + 1 \in Nat
    BY <1>3, <1>5
  <2>3. 2 * (RoundToEnding(raw) - raw) <= 10000 /\ 2 * (raw - RoundToEnding(raw)) < 10000
    BY <1>1, <1>3, <1>5, <2>1
  <2> QED BY <2>1, <2>2, <2>3
<1>6. CASE n >= 0 /\ 2 * (raw - below) < 10000
  <2>1. RoundToEnding(raw) = 10000 * n + ending
    BY <1>1, <1>2, <1>3, <1>6
  <2>2. n \in Nat
    BY <1>3, <1>6
  <2>3. 2 * (RoundToEnding(raw) - raw) <= 10000 /\ 2 * (raw - RoundToEnding(raw)) < 10000
    BY <1>1, <1>3, <1>6, <2>1
  <2> QED BY <2>1, <2>2, <2>3
<1> QED BY <1>1, <1>3, <1>4, <1>5, <1>6

\* The price of a row, unless it is rejected.
LEMMA RowPriceIsNat ==
  ASSUME NEW row \in Row, RowPrice(row) # Rejected
  PROVE  RowPrice(row) \in Nat
<1> DEFINE raw == RawPrice(row.cost, row.category)
<1>1. raw \in Nat
  BY RawPriceIsNat DEF Row
<1>2. PICK k \in Nat : RoundToEnding(raw) = 10000 * k + 100 * PriceEnding
  BY <1>1, RoundedPrice
<1>3. RowPrice(row) = RoundToEnding(raw) \div 100
  BY DEF RowPrice, PriceRow, Rejected, Unit
<1> HIDE DEF raw
<1> QED BY <1>2, <1>3, EndingAssumption DEF Dollar

\* A percentage of at most 100 leaves between nothing and the whole.
LEMMA PercentageWithinBase ==
  ASSUME NEW base \in Nat, NEW value \in Nat, value <= 10000
  PROVE  (2 * base * (10000 - value) + 10000) \div 20000 \in 0 .. base
<1> DEFINE m == base * (10000 - value)
<1>1. m \in Nat /\ m <= base * 10000
  <2>1. base * value \in Nat
    OBVIOUS
  <2>2. m = base * 10000 - base * value
    OBVIOUS
  <2>3. (10000 - value) \in Nat
    OBVIOUS
  <2> QED BY <2>1, <2>2, <2>3
<1>2. 2 * base * (10000 - value) = 2 * m
  OBVIOUS
<1> HIDE DEF m
<1>3. (2 * m + 10000) \div 20000 \in 0 .. base
  BY <1>1
<1> QED BY <1>2, <1>3

\* A discount lowers a price, and not below zero.
LEMMA DiscountWithinBase ==
  ASSUME NEW base \in Nat, NEW row \in PromotionRow
  PROVE  DiscountedPrice(base, row) \in 0 .. base
<1>1. row.type \in {"PERCENTAGE", "FIXED"} /\ row.value \in Nat
        /\ (row.type = "PERCENTAGE" => row.value <= 10000)
  BY DEF PromotionRow
<1>2. CASE row.type = "PERCENTAGE"
  BY <1>1, <1>2, PercentageWithinBase DEF DiscountedPrice
<1>3. CASE row.type = "FIXED"
  BY <1>1, <1>3 DEF DiscountedPrice
<1> QED BY <1>1, <1>2, <1>3

-----------------------------------------------------------------------------
(***************************************************************************)
(* The inductive invariant.  Beside the types: what is referred to exists  *)
(* (the foreign keys, and what a request keeps of the rows it has read),   *)
(* the exclusion constraints hold for the table as a whole, and a price    *)
(* that came from a row of the feed is the price of that row.              *)
(***************************************************************************)
Product == [cat : Categories, base : Nat]

RefersTo(request, sold, ids) ==
  /\ request.at = "createCheck" => request.row.target \in Products
  /\ request.at = "insert" => (request.row.target \in Products => request.row.target \in sold)
  /\ request.at = "assignCheck" => request.target \in Products
  /\ request.at = "update" => (request.target \in Products => request.target \in sold)
  /\ request.at \in {"assignCheck", "update"} =>
       /\ request.id \in ids
       /\ request.existing.target \in Products => request.existing.target \in sold
  /\ request.at = "categoryOf" => request.product \in sold

References ==
  /\ \A i \in DOMAIN promotions : promotions[i].target \in Products => promotions[i].target \in Sold
  /\ \A c \in Clients : RefersTo(requests[c], Sold, DOMAIN promotions)

NoOverlap ==
  \A i, j \in DOMAIN promotions :
    /\ i # j /\ promotions[i].target = promotions[j].target
    /\ promotions[i].status = "ACTIVE" /\ promotions[j].status = "ACTIVE"
    => ~Overlap(promotions[i], promotions[j])

Priced ==
  \A p \in Products :
    /\ products[p] = NoProduct => source[p] = {}
    /\ \A row \in source[p] : RowPrice(row) # Rejected /\ products[p].base = RowPrice(row)

IInv == TypeOK /\ References /\ NoOverlap /\ Priced

\* A product in the table has a category and a price.
LEMMA SoldIsProduct ==
  ASSUME TypeOK, NEW p \in Sold
  PROVE  p \in Products /\ products[p] \in Product
BY NoProductAssumption DEF TypeOK, Sold, Product

\* What a request refers to is not lost when there are more products and promotions.
LEMMA RefersToMore ==
  ASSUME NEW request, NEW sold, NEW sold2, NEW ids, NEW ids2,
         RefersTo(request, sold, ids), sold \subseteq sold2, ids \subseteq ids2
  PROVE  RefersTo(request, sold2, ids2)
BY DEF RefersTo

-----------------------------------------------------------------------------
(***************************************************************************)
(* The initial states.                                                     *)
(***************************************************************************)
LEMMA InitIsSafe == Init => IInv
<1> SUFFICES ASSUME Init PROVE IInv
  OBVIOUS
<1>1. \A r \in InitialRows : r \in Row /\ RowPrice(r) \in Nat
  BY PromotionConstants, InitialRowsAssumption, RowPriceIsNat
<1>2. ASSUME NEW p \in Products, NEW r \in InitialRows, r.product = p
      PROVE  products[p] \in Product /\ products[p].base = RowPrice(r) /\ source[p] = {r}
  <2>1. (CHOOSE q \in InitialRows : q.product = p) = r
    BY <1>2, InitialRowsAssumption
  <2>2. source[p] = {r}
    BY <1>2, InitialRowsAssumption DEF Init
  <2>3. products[p] = [cat |-> r.category, base |-> RowPrice(r)]
    BY <1>2, <2>1 DEF Init
  <2>4. r.category \in Categories /\ RowPrice(r) \in Nat
    BY <1>1 DEF Row
  <2> QED BY <2>2, <2>3, <2>4 DEF Product
<1>3. ASSUME NEW p \in Products, ~ \E r \in InitialRows : r.product = p
      PROVE  products[p] = NoProduct /\ source[p] = {}
  BY <1>3 DEF Init
<1>4. ASSUME NEW p \in Products
      PROVE  products[p] \in Product \cup {NoProduct} /\ source[p] \in SUBSET Row
  <2>1. CASE \E r \in InitialRows : r.product = p
    BY <1>1, <1>2, <2>1
  <2>2. CASE ~ \E r \in InitialRows : r.product = p
    BY <1>3, <2>2
  <2> QED BY <2>1, <2>2
<1>5. TypeOK
  <2>1. products \in [Products -> Product \cup {NoProduct}] /\ source \in [Products -> SUBSET Row]
    BY <1>4 DEF Init
  <2>2. promotions \in Seq(PromotionRow)
    BY InitialPromotionsAssumption DEF Init
  <2> QED BY <2>1, <2>2, PromotionConstants DEF Init, TypeOK, Product, RequestState
<1>6. References
  <2>1. ASSUME NEW i \in DOMAIN promotions, promotions[i].target \in Products
        PROVE  promotions[i].target \in Sold
    <3>1. PICK r \in InitialRows : r.product = promotions[i].target
      BY <2>1, InitialPromotionsAssumption DEF Init
    <3> QED BY <1>2, <2>1, <3>1, NoProductAssumption DEF Sold, Product
  <2>2. \A c \in Clients : RefersTo(requests[c], Sold, DOMAIN promotions)
    BY DEF Init, Idle, RefersTo
  <2> QED BY <2>1, <2>2 DEF References
<1>7. NoOverlap
  BY InitialPromotionsAssumption DEF Init, NoOverlap, Excluded, Overlap
<1>8. Priced
  <2>1. ASSUME NEW p \in Products, NEW r \in InitialRows, r.product = p
        PROVE  products[p] # NoProduct
    BY <1>2, <2>1, NoProductAssumption DEF Product
  <2>2. ASSUME NEW p \in Products, products[p] = NoProduct
        PROVE  source[p] = {}
    BY <1>3, <2>1, <2>2
  <2>3. ASSUME NEW p \in Products, NEW row \in source[p]
        PROVE  RowPrice(row) # Rejected /\ products[p].base = RowPrice(row)
    <3>1. row \in InitialRows /\ row.product = p
      BY DEF Init
    <3>2. products[p].base = RowPrice(row)
      BY <1>2, <3>1
    <3> QED BY <3>1, <3>2, InitialRowsAssumption
  <2> QED BY <2>2, <2>3 DEF Priced
<1> QED BY <1>5, <1>6, <1>7, <1>8 DEF IInv

-----------------------------------------------------------------------------
(***************************************************************************)
(* Type correctness.                                                       *)
(***************************************************************************)
\* What a request in each place carries.
LEMMA RequestFields ==
  ASSUME NEW q \in RequestState
  PROVE  /\ q.at \in {"createCheck", "insert"} =>
              q.row \in PromotionRow /\ q.bump \in SUBSET Categories
         /\ q.at \in {"assignCheck", "update"} =>
              /\ q.id \in Nat /\ q.existing \in PromotionRow /\ q.target \in Scopes
              /\ q.bump \in SUBSET Categories
         /\ q.at = "categoryOf" => q.product \in Products /\ q.bump \in SUBSET Categories
         /\ q.at = "bump" => q.bump \in SUBSET Categories
BY DEF RequestState, Idle

\* What the check makes of a request to re-target.
LEMMA RequestAdvanced ==
  ASSUME NEW q \in RequestState, q.at = "assignCheck", NEW bump \in SUBSET Categories
  PROVE  LET r == [q EXCEPT !.at = "update", !.bump = bump]
         IN  /\ r \in RequestState
             /\ r.at = "update" /\ r.id = q.id /\ r.existing = q.existing /\ r.target = q.target
<1>1. q \in [at : {"assignCheck", "update"}, id : Nat, existing : PromotionRow, target : Scopes,
              bump : SUBSET Categories]
  BY DEF RequestState, Idle
<1> DEFINE r == [q EXCEPT !.at = "update", !.bump = bump]
<1>2. r \in [at : {"assignCheck", "update"}, id : Nat, existing : PromotionRow, target : Scopes,
              bump : SUBSET Categories]
  BY <1>1
<1>3. r.at = "update" /\ r.id = q.id /\ r.existing = q.existing /\ r.target = q.target
  BY <1>1
<1> QED BY <1>2, <1>3 DEF RequestState

\* The records that the actions build are requests.
LEMMA RequestBuilt ==
  ASSUME NEW bump \in SUBSET Categories
  PROVE  /\ Idle \in RequestState
         /\ [at |-> "bump", bump |-> bump] \in RequestState
         /\ \A p \in Products : [at |-> "categoryOf", product |-> p, bump |-> bump] \in RequestState
         /\ \A at \in {"createCheck", "insert"}, row \in PromotionRow :
              [at |-> at, row |-> row, bump |-> bump] \in RequestState
         /\ \A at \in {"assignCheck", "update"}, id \in Nat, row \in PromotionRow, target \in Scopes :
              [at |-> at, id |-> id, existing |-> row, target |-> target, bump |-> bump] \in RequestState
BY DEF RequestState

\* BumpFor is what a request awaits after its write.
LEMMA BumpForType ==
  ASSUME NEW target \in Scopes, NEW bump \in SUBSET Categories
  PROVE  BumpFor(target, bump) \in RequestState
<1>1. CASE target \in Categories
  <2>1. bump \cup {target} \in SUBSET Categories
    BY <1>1
  <2> QED BY <1>1, <2>1, RequestBuilt DEF BumpFor
<1>2. CASE target \notin Categories
  <2>1. target \in Products
    BY <1>2 DEF Scopes
  <2> QED BY <1>2, <2>1, RequestBuilt DEF BumpFor
<1> QED BY <1>1, <1>2

\* What a promotion is created with is a row that the constraints admit.
LEMMA PromotionType ==
  ASSUME NEW offer \in Offers, NEW w \in Windows
  PROVE  Promotion(offer, w) \in PromotionRow
BY PromotionConstants DEF Promotion, PromotionRow

\* A row that is re-targeted or cancelled is a row, and the table a table.
LEMMA RowReplaced ==
  ASSUME promotions \in Seq(PromotionRow), NEW i \in DOMAIN promotions,
         NEW row \in PromotionRow
  PROVE  /\ [promotions EXCEPT ![i] = row] \in Seq(PromotionRow)
         /\ DOMAIN [promotions EXCEPT ![i] = row] = DOMAIN promotions
  OBVIOUS

LEMMA RowRetargeted ==
  ASSUME NEW row \in PromotionRow, NEW target \in Scopes
  PROVE  [row EXCEPT !.target = target] \in PromotionRow
BY DEF PromotionRow

LEMMA RowCancelled ==
  ASSUME NEW row \in PromotionRow
  PROVE  [row EXCEPT !.status = "CANCELLED"] \in PromotionRow
BY DEF PromotionRow

LEMMA AwaitsType ==
  ASSUME TypeOK, NEW c \in Clients, NEW q \in RequestState, Awaits(c, q)
  PROVE  requests' \in [Clients -> RequestState]
BY DEF TypeOK, Awaits

LEMMA WriteType ==
  ASSUME TypeOK, NEW newProducts, NEW newPromotions, Write(newProducts, newPromotions)
  PROVE  unbumped' \in SUBSET Categories /\ products' = newProducts /\ promotions' = newPromotions
BY DEF TypeOK, Write, Changed

LEMMA BeginType ==
  ASSUME TypeOK, NEW c \in Clients, Begin(c)
  PROVE  begun' \in [requests : 0 .. MaxRequests, rows : 0 .. MaxRows]
BY PromotionConstants DEF TypeOK, Begin

LEMMA RowCounted ==
  ASSUME TypeOK, begun.rows < MaxRows, begun' = [begun EXCEPT !.rows = @ + 1]
  PROVE  begun' \in [requests : 0 .. MaxRequests, rows : 0 .. MaxRows]
BY PromotionConstants DEF TypeOK

\* A product that passed the check is in the table, with a category.
LEMMA AllowedIsSold ==
  ASSUME TypeOK, NEW p \in Products, NEW row, ScopeAllowed(p, row)
  PROVE  p \in Sold /\ products[p].cat \in Categories
BY NoProductAssumption DEF TypeOK, ScopeAllowed, Sold

\* Every step keeps the types.
LEMMA StepKeepsTypes ==
  ASSUME TypeOK, References, [Next]_vars
  PROVE  TypeOK'
<1>1. ASSUME NEW c \in Clients, NEW offer \in Offers, NEW w \in Windows, StartCreate(c, offer, w)
      PROVE  TypeOK'
  <2>1. Promotion(offer, w) \in PromotionRow /\ offer.target \in Scopes
    BY PromotionType, PromotionConstants
  <2>2. begun' \in [requests : 0 .. MaxRequests, rows : 0 .. MaxRows]
    BY <1>1, BeginType DEF StartCreate
  <2>3. CASE offer.target \in Products
    <3>1. Awaits(c, [at |-> "createCheck", row |-> Promotion(offer, w), bump |-> {}])
      BY <1>1, <2>3 DEF StartCreate
    <3>2. requests' \in [Clients -> RequestState]
      BY <2>1, <3>1, AwaitsType, RequestBuilt
    <3> QED BY <1>1, <2>2, <3>2 DEF TypeOK, StartCreate
  <2>4. CASE offer.target \notin Products
    <3>1. Awaits(c, [at |-> "insert", row |-> Promotion(offer, w), bump |-> {offer.target}])
      BY <1>1, <2>4 DEF StartCreate
    <3>2. {offer.target} \in SUBSET Categories
      BY <2>1, <2>4 DEF Scopes
    <3>3. requests' \in [Clients -> RequestState]
      BY <2>1, <3>1, <3>2, AwaitsType, RequestBuilt
    <3> QED BY <1>1, <2>2, <3>3 DEF TypeOK, StartCreate
  <2> QED BY <2>3, <2>4
<1>2. ASSUME NEW c \in Clients, CreateCheck(c) PROVE TypeOK'
  <2>1. requests[c] \in RequestState /\ requests[c].row \in PromotionRow
    BY <1>2, RequestFields DEF TypeOK, CreateCheck
  <2>2. requests[c].row.target \in Products
    BY <1>2 DEF References, RefersTo, CreateCheck
  <2>3. requests' \in [Clients -> RequestState]
    <3>1. CASE ScopeAllowed(requests[c].row.target, requests[c].row)
      <4>1. {products[requests[c].row.target].cat} \in SUBSET Categories
        BY <2>2, <3>1, AllowedIsSold
      <4>2. Awaits(c, [at |-> "insert", row |-> requests[c].row,
                       bump |-> {products[requests[c].row.target].cat}])
        BY <1>2, <3>1 DEF CreateCheck
      <4> QED BY <2>1, <4>1, <4>2, AwaitsType, RequestBuilt
    <3>2. CASE ~ScopeAllowed(requests[c].row.target, requests[c].row)
      <4>1. Awaits(c, Idle)
        BY <1>2, <3>2 DEF CreateCheck
      <4> QED BY <4>1, AwaitsType, RequestBuilt
    <3> QED BY <3>1, <3>2
  <2> QED BY <1>2, <2>3 DEF TypeOK, CreateCheck
<1>3. ASSUME NEW c \in Clients, Insert(c) PROVE TypeOK'
  <2>1. requests[c] \in RequestState /\ requests[c].row \in PromotionRow
          /\ requests[c].bump \in SUBSET Categories
    BY <1>3, RequestFields DEF TypeOK, Insert
  <2>2. CASE Excluded(promotions, 0, requests[c].row)
    <3>1. Reject(c)
      BY <1>3, <2>2 DEF Insert
    <3>2. requests' \in [Clients -> RequestState]
      BY <3>1, AwaitsType, RequestBuilt DEF Reject
    <3> QED BY <1>3, <3>1, <3>2 DEF TypeOK, Insert, Reject
  <2>3. CASE ~Excluded(promotions, 0, requests[c].row)
    <3>1. /\ Write(products, Append(promotions, requests[c].row))
          /\ Awaits(c, [at |-> "bump", bump |-> requests[c].bump])
      BY <1>3, <2>3 DEF Insert
    <3>2. requests' \in [Clients -> RequestState]
      BY <2>1, <3>1, AwaitsType, RequestBuilt
    <3>3. promotions' \in Seq(PromotionRow)
      <4>1. promotions \in Seq(PromotionRow)
        BY DEF TypeOK
      <4>2. Append(promotions, requests[c].row) \in Seq(PromotionRow)
        BY <2>1, <4>1
      <4> QED BY <3>1, <4>2, WriteType
    <3> QED BY <1>3, <3>1, <3>2, <3>3, WriteType DEF TypeOK, Insert
  <2> QED BY <2>2, <2>3
<1>4. ASSUME NEW c \in Clients, NEW i \in DOMAIN promotions, Cancel(c, i) PROVE TypeOK'
  <2> DEFINE row == [promotions[i] EXCEPT !.status = "CANCELLED"]
  <2>1. promotions[i] \in PromotionRow /\ promotions[i].target \in Scopes
    BY DEF TypeOK, PromotionRow
  <2>2. row \in PromotionRow
    BY <2>1, RowCancelled
  <2>3. promotions' = [promotions EXCEPT ![i] = row] /\ unbumped' \in SUBSET Categories
          /\ products' = products
    BY <1>4, WriteType DEF Cancel
  <2> HIDE DEF row
  <2>4. promotions' \in Seq(PromotionRow)
    BY <2>2, <2>3, RowReplaced DEF TypeOK
  <2>5. requests' \in [Clients -> RequestState]
    BY <1>4, <2>1, AwaitsType, BumpForType DEF Cancel
  <2>6. begun' \in [requests : 0 .. MaxRequests, rows : 0 .. MaxRows]
    BY <1>4, BeginType DEF Cancel
  <2> QED BY <1>4, <2>3, <2>4, <2>5, <2>6 DEF TypeOK, Cancel
<1>5. ASSUME NEW c \in Clients, NEW i \in DOMAIN promotions, NEW target \in Targets,
             AssignFind(c, i, target)
      PROVE  TypeOK'
  <2>1. promotions[i] \in PromotionRow /\ i \in Nat /\ target \in Scopes
    BY PromotionConstants DEF TypeOK
  <2>2. begun' \in [requests : 0 .. MaxRequests, rows : 0 .. MaxRows]
    BY <1>5, BeginType DEF AssignFind
  <2>3. requests' \in [Clients -> RequestState]
    <3>1. CASE target \in Products
      <4>1. Awaits(c, [at |-> "assignCheck", id |-> i, existing |-> promotions[i],
                       target |-> target, bump |-> {}])
        BY <1>5, <3>1 DEF AssignFind
      <4> QED BY <2>1, <4>1, AwaitsType, RequestBuilt
    <3>2. CASE target \notin Products
      <4>1. Awaits(c, [at |-> "update", id |-> i, existing |-> promotions[i],
                       target |-> target, bump |-> {target}])
        BY <1>5, <3>2 DEF AssignFind
      <4>2. {target} \in SUBSET Categories
        BY <2>1, <3>2 DEF Scopes
      <4> QED BY <2>1, <4>1, <4>2, AwaitsType, RequestBuilt
    <3> QED BY <3>1, <3>2
  <2> QED BY <1>5, <2>2, <2>3 DEF TypeOK, AssignFind
<1>6. ASSUME NEW c \in Clients, AssignCheck(c) PROVE TypeOK'
  <2> DEFINE r == requests[c]
  <2>1. r.id \in Nat /\ r.existing \in PromotionRow /\ r.target \in Scopes
    BY <1>6, RequestFields DEF TypeOK, AssignCheck
  <2>2. r.target \in Products
    BY <1>6 DEF References, RefersTo, AssignCheck
  <2>3. requests' \in [Clients -> RequestState]
    <3>1. CASE ScopeAllowed(r.target, r.existing)
      <4>1. {products[r.target].cat} \in SUBSET Categories
        BY <2>2, <3>1, AllowedIsSold
      <4>2. Awaits(c, [r EXCEPT !.at = "update", !.bump = {products[r.target].cat}])
        BY <1>6, <3>1 DEF AssignCheck
      <4>3. [r EXCEPT !.at = "update", !.bump = {products[r.target].cat}] \in RequestState
        BY <1>6, <4>1, RequestAdvanced DEF TypeOK, AssignCheck
      <4> QED BY <4>2, <4>3, AwaitsType
    <3>2. CASE ~ScopeAllowed(r.target, r.existing)
      <4>1. Awaits(c, Idle)
        BY <1>6, <3>2 DEF AssignCheck
      <4> QED BY <4>1, AwaitsType, RequestBuilt
    <3> QED BY <3>1, <3>2
  <2> QED BY <1>6, <2>3 DEF TypeOK, AssignCheck
<1>7. ASSUME NEW c \in Clients, AssignUpdate(c) PROVE TypeOK'
  <2> DEFINE r == requests[c]
             row == [promotions[r.id] EXCEPT !.target = r.target]
  <2>1. /\ r.existing.target \in Scopes /\ r.target \in Scopes /\ r.bump \in SUBSET Categories
        /\ r.id \in DOMAIN promotions
    <3>1. r.existing \in PromotionRow /\ r.target \in Scopes /\ r.bump \in SUBSET Categories
      BY <1>7, RequestFields DEF TypeOK, AssignUpdate
    <3>2. r.id \in DOMAIN promotions
      BY <1>7 DEF References, RefersTo, AssignUpdate
    <3> QED BY <3>1, <3>2 DEF PromotionRow
  <2>2. row \in PromotionRow
    BY <2>1, RowRetargeted DEF TypeOK
  <2>3. CASE Excluded(promotions, r.id, row)
    <3>1. Reject(c)
      BY <1>7, <2>3 DEF AssignUpdate
    <3>2. requests' \in [Clients -> RequestState]
      BY <3>1, AwaitsType, RequestBuilt DEF Reject
    <3> QED BY <1>7, <3>1, <3>2 DEF TypeOK, AssignUpdate, Reject
  <2>4. CASE ~Excluded(promotions, r.id, row)
    <3>1. /\ Write(products, [promotions EXCEPT ![r.id] = row])
          /\ Awaits(c, BumpFor(r.existing.target, r.bump))
      BY <1>7, <2>4 DEF AssignUpdate
    <3> HIDE DEF row
    <3>2. requests' \in [Clients -> RequestState]
      BY <2>1, <3>1, AwaitsType, BumpForType
    <3>3. promotions' \in Seq(PromotionRow)
      <4>1. promotions' = [promotions EXCEPT ![r.id] = row]
        BY <3>1, WriteType
      <4>2. [promotions EXCEPT ![r.id] = row] \in Seq(PromotionRow)
        BY <2>1, <2>2, RowReplaced DEF TypeOK
      <4> QED BY <4>1, <4>2
    <3>4. unbumped' \in SUBSET Categories /\ products' = products
      BY <3>1, WriteType
    <3>5. UNCHANGED <<touched, source, begun>>
      BY <1>7 DEF AssignUpdate
    <3> QED BY <3>2, <3>3, <3>4, <3>5 DEF TypeOK
  <2> QED BY <2>3, <2>4
<1>8. ASSUME NEW c \in Clients, CategoryOf(c) PROVE TypeOK'
  <2>1. requests[c].product \in Sold /\ requests[c].bump \in SUBSET Categories
    BY <1>8, RequestFields DEF TypeOK, CategoryOf, References, RefersTo
  <2>2. requests[c].bump \cup {products[requests[c].product].cat} \in SUBSET Categories
    BY <2>1, SoldIsProduct DEF Product
  <2>3. requests' \in [Clients -> RequestState]
    BY <1>8, <2>2, AwaitsType, RequestBuilt DEF CategoryOf
  <2> QED BY <1>8, <2>3 DEF TypeOK, CategoryOf
<1>9. ASSUME NEW c \in Clients, Bump(c) PROVE TypeOK'
  <2>1. requests' \in [Clients -> RequestState]
    BY <1>9, AwaitsType, RequestBuilt DEF Bump
  <2> QED BY <1>9, <2>1 DEF TypeOK, Bump
<1>10. ASSUME NEW c \in Clients, NEW new \in NewProducts, CreateProduct(c, new) PROVE TypeOK'
  <2>1. new.product \in Products /\ new.cat \in Categories /\ new.base \in Nat
    BY PromotionConstants
  <2>2. products' = [products EXCEPT ![new.product] = [cat |-> new.cat, base |-> new.base]]
          /\ promotions' = promotions /\ unbumped' \in SUBSET Categories
    BY <1>10, WriteType DEF CreateProduct
  <2>3. requests' \in [Clients -> RequestState]
    BY <1>10, <2>1, AwaitsType, RequestBuilt DEF CreateProduct
  <2>4. begun' \in [requests : 0 .. MaxRequests, rows : 0 .. MaxRows]
    BY <1>10, BeginType DEF CreateProduct
  <2> QED BY <1>10, <2>1, <2>2, <2>3, <2>4 DEF TypeOK, CreateProduct
<1>11. ASSUME NEW row \in Feed, IngestRow(row) PROVE TypeOK'
  <2> DEFINE new == [cat |-> row.category, base |-> RowPrice(row)]
  <2>1. row \in Row /\ row.product \in Products /\ new \in Product
    BY <1>11, PromotionConstants, RowPriceIsNat DEF IngestRow, Row, Product
  <2>2. products' = [products EXCEPT ![row.product] = new]
          /\ promotions' = promotions /\ unbumped' \in SUBSET Categories
    BY <1>11, WriteType DEF IngestRow
  <2>3. Reported(row.product, new) \in SUBSET Categories
    BY <2>1, NoProductAssumption DEF Reported, TypeOK, Product
  <2>4. begun' \in [requests : 0 .. MaxRequests, rows : 0 .. MaxRows]
    BY <1>11, RowCounted DEF IngestRow
  <2>5. touched' = touched \cup Reported(row.product, new)
          /\ source' = [source EXCEPT ![row.product] = {row}] /\ UNCHANGED requests
    BY <1>11 DEF IngestRow
  <2> HIDE DEF new
  <2> QED BY <2>1, <2>2, <2>3, <2>4, <2>5 DEF TypeOK, Product
<1>12. ASSUME IngestFinished PROVE TypeOK'
  BY <1>12 DEF TypeOK, IngestFinished
<1>13. ASSUME UNCHANGED vars PROVE TypeOK'
  BY <1>13 DEF TypeOK, vars
<1> QED BY <1>1, <1>2, <1>3, <1>4, <1>5, <1>6, <1>7, <1>8, <1>9, <1>10, <1>11, <1>12, <1>13
        DEF Next, Request

-----------------------------------------------------------------------------
(***************************************************************************)
(* References.                                                             *)
(***************************************************************************)
\* Products and promotions are never deleted.
LEMMA NothingIsDeleted ==
  ASSUME TypeOK, References, [Next]_vars
  PROVE  Sold \subseteq Sold' /\ DOMAIN promotions \subseteq DOMAIN promotions'
<1>1. ASSUME UNCHANGED <<products, promotions>>
      PROVE  Sold \subseteq Sold' /\ DOMAIN promotions \subseteq DOMAIN promotions'
  BY <1>1 DEF Sold
<1>2. ASSUME NEW c \in Clients, Insert(c)
      PROVE  Sold \subseteq Sold' /\ DOMAIN promotions \subseteq DOMAIN promotions'
  <2>1. CASE Reject(c)
    BY <1>1, <2>1 DEF Reject
  <2>2. CASE ~Reject(c)
    <3>1. products' = products /\ promotions' = Append(promotions, requests[c].row)
      BY <1>2, <2>2 DEF Insert, Write
    <3>2. promotions \in Seq(PromotionRow)
      BY DEF TypeOK
    <3> QED BY <3>1, <3>2 DEF Sold
  <2> QED BY <2>1, <2>2
<1>3. ASSUME NEW c \in Clients, NEW i \in DOMAIN promotions, Cancel(c, i)
      PROVE  Sold \subseteq Sold' /\ DOMAIN promotions \subseteq DOMAIN promotions'
  BY <1>3 DEF Cancel, Write, Sold
<1>4. ASSUME NEW c \in Clients, AssignUpdate(c)
      PROVE  Sold \subseteq Sold' /\ DOMAIN promotions \subseteq DOMAIN promotions'
  BY <1>4 DEF AssignUpdate, Reject, Write, Sold
<1>5. ASSUME NEW p \in Products, NEW product \in Product, promotions' = promotions,
             products' = [products EXCEPT ![p] = product]
      PROVE  Sold \subseteq Sold' /\ DOMAIN promotions \subseteq DOMAIN promotions'
  BY <1>5, NoProductAssumption DEF TypeOK, Sold, Product
<1>6. ASSUME NEW c \in Clients, NEW new \in NewProducts, CreateProduct(c, new)
      PROVE  Sold \subseteq Sold' /\ DOMAIN promotions \subseteq DOMAIN promotions'
  <2> DEFINE product == [cat |-> new.cat, base |-> new.base]
  <2>1. new.product \in Products /\ product \in Product
    BY PromotionConstants DEF Product
  <2>2. promotions' = promotions /\ products' = [products EXCEPT ![new.product] = product]
    BY <1>6 DEF CreateProduct, Write
  <2> HIDE DEF product
  <2> QED BY <1>5, <2>1, <2>2
<1>7. ASSUME NEW row \in Feed, IngestRow(row)
      PROVE  Sold \subseteq Sold' /\ DOMAIN promotions \subseteq DOMAIN promotions'
  <2> DEFINE new == [cat |-> row.category, base |-> RowPrice(row)]
  <2>1. row.product \in Products /\ new \in Product
    BY <1>7, PromotionConstants, RowPriceIsNat DEF IngestRow, Row, Product
  <2>2. promotions' = promotions /\ products' = [products EXCEPT ![row.product] = new]
    BY <1>7 DEF IngestRow, Write
  <2> HIDE DEF new
  <2> QED BY <1>5, <2>1, <2>2
<1> QED BY <1>1, <1>2, <1>3, <1>4, <1>6, <1>7
        DEF Next, Request, StartCreate, CreateCheck, AssignFind, AssignCheck, CategoryOf, Bump,
            IngestFinished, vars

\* One request goes on, the others refer to what they referred to.
LEMMA RequestsRefer ==
  ASSUME TypeOK, References, [Next]_vars, NEW c \in Clients, NEW q, Awaits(c, q),
         RefersTo(q, Sold', DOMAIN promotions')
  PROVE  \A d \in Clients : RefersTo(requests[d], Sold, DOMAIN promotions)'
<1> SUFFICES ASSUME NEW d \in Clients
             PROVE  RefersTo(requests'[d], Sold', DOMAIN promotions')
  OBVIOUS
<1>1. CASE d = c
  BY <1>1 DEF TypeOK, Awaits
<1>2. CASE d # c
  <2>1. requests'[d] = requests[d]
    BY <1>2 DEF TypeOK, Awaits
  <2> QED BY <2>1, NothingIsDeleted, RefersToMore DEF References
<1> QED BY <1>1, <1>2

\* The same when no request goes on.
LEMMA RequestsStillRefer ==
  ASSUME TypeOK, References, [Next]_vars, UNCHANGED requests
  PROVE  \A d \in Clients : RefersTo(requests[d], Sold, DOMAIN promotions)'
BY NothingIsDeleted, RefersToMore DEF References

\* The promotions are those that there were.
LEMMA PromotionsRefer ==
  ASSUME TypeOK, References, [Next]_vars, DOMAIN promotions' = DOMAIN promotions,
         \A i \in DOMAIN promotions : promotions'[i].target = promotions[i].target
  PROVE  \A i \in DOMAIN promotions' : promotions'[i].target \in Products => promotions'[i].target \in Sold'
BY NothingIsDeleted DEF References

\* After its write a request refers to the product that is left.
LEMMA BumpForRefers ==
  ASSUME NEW target \in Scopes, NEW bump, NEW sold, NEW ids, target \in Products => target \in sold
  PROVE  RefersTo(BumpFor(target, bump), sold, ids)
<1>1. CASE target \in Categories
  BY <1>1 DEF BumpFor, RefersTo
<1>2. CASE target \notin Categories
  <2>1. BumpFor(target, bump) = [at |-> "categoryOf", product |-> target, bump |-> bump]
    BY <1>2 DEF BumpFor
  <2>2. target \in sold
    BY <1>2 DEF Scopes
  <2> QED BY <2>1, <2>2 DEF RefersTo
<1> QED BY <1>1, <1>2

\* Every step keeps the references.
LEMMA StepKeepsReferences ==
  ASSUME TypeOK, References, [Next]_vars
  PROVE  References'
<1>1. \A b, ids : RefersTo([at |-> "bump", bump |-> b], Sold', ids) /\ RefersTo(Idle, Sold', ids)
  BY DEF RefersTo, Idle
<1>2. ASSUME UNCHANGED promotions
      PROVE  \A i \in DOMAIN promotions' : promotions'[i].target \in Products => promotions'[i].target \in Sold'
  BY <1>2, PromotionsRefer
<1>3. ASSUME NEW c \in Clients, Reject(c) PROVE References'
  BY <1>1, <1>2, <1>3, RequestsRefer DEF Reject, References
<1>4. ASSUME NEW c \in Clients, NEW offer \in Offers, NEW w \in Windows, StartCreate(c, offer, w)
      PROVE  References'
  <2> DEFINE q == IF offer.target \in Products
                    THEN [at |-> "createCheck", row |-> Promotion(offer, w), bump |-> {}]
                    ELSE [at |-> "insert", row |-> Promotion(offer, w), bump |-> {offer.target}]
  <2>1. Awaits(c, q) /\ UNCHANGED promotions
    BY <1>4 DEF StartCreate
  <2>2. RefersTo(q, Sold', DOMAIN promotions')
    BY DEF RefersTo, Promotion
  <2> HIDE DEF q
  <2> QED BY <1>2, <2>1, <2>2, RequestsRefer DEF References
<1>5. ASSUME NEW c \in Clients, CreateCheck(c) PROVE References'
  <2> DEFINE row == requests[c].row
  <2>1. CASE ScopeAllowed(row.target, row)
    <3> DEFINE q == [at |-> "insert", row |-> row, bump |-> {products[row.target].cat}]
    <3>1. Awaits(c, q) /\ UNCHANGED <<products, promotions>>
      BY <1>5, <2>1 DEF CreateCheck
    <3>2. row.target \in Sold
      BY <1>5, <2>1, AllowedIsSold DEF CreateCheck, References, RefersTo
    <3>3. RefersTo(q, Sold', DOMAIN promotions')
      BY <3>2, NothingIsDeleted DEF RefersTo
    <3> HIDE DEF q
    <3> QED BY <1>2, <3>1, <3>3, RequestsRefer DEF References
  <2>2. CASE ~ScopeAllowed(row.target, row)
    <3>1. Awaits(c, Idle) /\ UNCHANGED promotions
      BY <1>5, <2>2 DEF CreateCheck
    <3> QED BY <1>1, <1>2, <3>1, RequestsRefer DEF References
  <2> QED BY <2>1, <2>2
<1>6. ASSUME NEW c \in Clients, Insert(c) PROVE References'
  <2> DEFINE row == requests[c].row
  <2>1. CASE Excluded(promotions, 0, row)
    BY <1>3, <1>6, <2>1 DEF Insert
  <2>2. CASE ~Excluded(promotions, 0, row)
    <3>1. promotions' = Append(promotions, row) /\ Awaits(c, [at |-> "bump", bump |-> requests[c].bump])
      BY <1>6, <2>2 DEF Insert, Write
    <3>2. row.target \in Products => row.target \in Sold
      BY <1>6 DEF Insert, References, RefersTo
    <3>3. ASSUME NEW i \in DOMAIN promotions', promotions'[i].target \in Products
          PROVE  promotions'[i].target \in Sold'
      <4>1. promotions \in Seq(PromotionRow)
        BY DEF TypeOK
      <4>2. CASE i \in DOMAIN promotions
        BY <3>1, <3>3, <4>1, <4>2, NothingIsDeleted DEF References
      <4>3. CASE i \notin DOMAIN promotions
        <5>1. promotions'[i] = row
          BY <3>1, <4>1, <4>3
        <5> QED BY <3>2, <3>3, <5>1, NothingIsDeleted
      <4> QED BY <4>2, <4>3
    <3> QED BY <1>1, <3>1, <3>3, RequestsRefer DEF References
  <2> QED BY <2>1, <2>2
<1>7. ASSUME NEW c \in Clients, NEW i \in DOMAIN promotions, Cancel(c, i) PROVE References'
  <2>1. promotions' = [promotions EXCEPT ![i].status = "CANCELLED"]
          /\ Awaits(c, BumpFor(promotions[i].target, {}))
    BY <1>7 DEF Cancel, Write
  <2>2. promotions \in Seq(PromotionRow) /\ promotions[i] \in PromotionRow
    BY DEF TypeOK
  <2>3. promotions[i].target \in Scopes
          /\ (promotions[i].target \in Products => promotions[i].target \in Sold')
    BY <2>2, NothingIsDeleted DEF PromotionRow, References
  <2>4. RefersTo(BumpFor(promotions[i].target, {}), Sold', DOMAIN promotions')
    BY <2>3, BumpForRefers
  <2>5. DOMAIN promotions' = DOMAIN promotions
          /\ \A j \in DOMAIN promotions : promotions'[j].target = promotions[j].target
    BY <2>1, <2>2 DEF PromotionRow
  <2> QED BY <2>1, <2>4, <2>5, PromotionsRefer, RequestsRefer DEF References
<1>8. ASSUME NEW c \in Clients, NEW i \in DOMAIN promotions, NEW target \in Targets,
             AssignFind(c, i, target)
      PROVE  References'
  <2> DEFINE q == [at |-> IF target \in Products THEN "assignCheck" ELSE "update",
                   id |-> i, existing |-> promotions[i], target |-> target,
                   bump |-> IF target \in Products THEN {} ELSE {target}]
  <2>1. Awaits(c, q) /\ UNCHANGED promotions
    BY <1>8 DEF AssignFind
  <2>2. RefersTo(q, Sold', DOMAIN promotions')
    BY <2>1, NothingIsDeleted DEF RefersTo, References
  <2> HIDE DEF q
  <2> QED BY <1>2, <2>1, <2>2, RequestsRefer DEF References
<1>9. ASSUME NEW c \in Clients, AssignCheck(c) PROVE References'
  <2> DEFINE r == requests[c]
  <2>1. CASE ScopeAllowed(r.target, r.existing)
    <3> DEFINE q == [r EXCEPT !.at = "update", !.bump = {products[r.target].cat}]
    <3>1. Awaits(c, q) /\ UNCHANGED promotions
      BY <1>9, <2>1 DEF AssignCheck
    <3>2. RefersTo(r, Sold', DOMAIN promotions')
      BY NothingIsDeleted, RefersToMore DEF References
    <3>3. r.target \in Sold' /\ products[r.target].cat \in Categories
      BY <1>9, <2>1, AllowedIsSold, NothingIsDeleted DEF AssignCheck, References, RefersTo
    <3>4. q.at = "update" /\ q.id = r.id /\ q.existing = r.existing /\ q.target = r.target
      <4>1. r \in RequestState /\ r.at = "assignCheck" /\ {products[r.target].cat} \in SUBSET Categories
        BY <1>9, <3>3 DEF TypeOK, AssignCheck
      <4> HIDE DEF r
      <4> QED BY <4>1, RequestAdvanced
    <3>5. RefersTo(q, Sold', DOMAIN promotions')
      BY <1>9, <3>2, <3>3, <3>4 DEF RefersTo, AssignCheck
    <3> HIDE DEF q
    <3> QED BY <1>2, <3>1, <3>5, RequestsRefer DEF References
  <2>2. CASE ~ScopeAllowed(r.target, r.existing)
    <3>1. Awaits(c, Idle) /\ UNCHANGED promotions
      BY <1>9, <2>2 DEF AssignCheck
    <3> QED BY <1>1, <1>2, <3>1, RequestsRefer DEF References
  <2> QED BY <2>1, <2>2
<1>10. ASSUME NEW c \in Clients, AssignUpdate(c) PROVE References'
  <2> DEFINE r == requests[c]
             row == [promotions[r.id] EXCEPT !.target = r.target]
  <2>1. CASE Excluded(promotions, r.id, row)
    BY <1>3, <1>10, <2>1 DEF AssignUpdate
  <2>2. CASE ~Excluded(promotions, r.id, row)
    <3>1. promotions' = [promotions EXCEPT ![r.id] = row] /\ Awaits(c, BumpFor(r.existing.target, r.bump))
      BY <1>10, <2>2 DEF AssignUpdate, Write
    <3>2. /\ r.id \in DOMAIN promotions
          /\ r.target \in Products => r.target \in Sold
          /\ r.existing.target \in Products => r.existing.target \in Sold
      BY <1>10 DEF AssignUpdate, References, RefersTo
    <3>3. r.existing.target \in Scopes
      BY <1>10, RequestFields DEF TypeOK, AssignUpdate, PromotionRow
    <3>4. RefersTo(BumpFor(r.existing.target, r.bump), Sold', DOMAIN promotions')
      BY <3>2, <3>3, BumpForRefers, NothingIsDeleted
    <3>5. row.target = r.target
      BY <3>2 DEF TypeOK, PromotionRow
    <3> HIDE DEF row
    <3>6. ASSUME NEW i \in DOMAIN promotions', promotions'[i].target \in Products
          PROVE  promotions'[i].target \in Sold'
      BY <3>1, <3>2, <3>5, <3>6, NothingIsDeleted DEF References
    <3> QED BY <3>1, <3>4, <3>6, RequestsRefer DEF References
  <2> QED BY <2>1, <2>2
<1>11. ASSUME NEW c \in Clients, CategoryOf(c) PROVE References'
  BY <1>1, <1>2, <1>11, RequestsRefer DEF CategoryOf, References
<1>12. ASSUME NEW c \in Clients, Bump(c) PROVE References'
  BY <1>1, <1>2, <1>12, RequestsRefer DEF Bump, References
<1>13. ASSUME NEW c \in Clients, NEW new \in NewProducts, CreateProduct(c, new) PROVE References'
  BY <1>1, <1>2, <1>13, RequestsRefer DEF CreateProduct, Write, References
<1>14. ASSUME NEW row \in Feed, IngestRow(row) PROVE References'
  BY <1>2, <1>14, RequestsStillRefer DEF IngestRow, Write, References
<1>15. ASSUME IngestFinished PROVE References'
  BY <1>2, <1>15, RequestsStillRefer DEF IngestFinished, References
<1>16. ASSUME UNCHANGED vars PROVE References'
  BY <1>2, <1>16, RequestsStillRefer DEF vars, References
<1> QED BY <1>4, <1>5, <1>6, <1>7, <1>8, <1>9, <1>10, <1>11, <1>12, <1>13, <1>14, <1>15, <1>16
        DEF Next, Request

-----------------------------------------------------------------------------
(***************************************************************************)
(* The exclusion constraints, and the prices of the feed.                  *)
(***************************************************************************)
\* A row that excludes nothing may be written at i.
LEMMA AdmittedRow ==
  ASSUME TypeOK, NoOverlap, NEW i \in Nat, NEW row, ~Excluded(promotions, i, row),
         NEW newPromotions,
         \A j \in DOMAIN newPromotions : j = i \/ j \in DOMAIN promotions,
         \A j \in DOMAIN newPromotions : newPromotions[j] = IF j = i THEN row ELSE promotions[j],
         promotions' = newPromotions
  PROVE  NoOverlap'
BY DEF NoOverlap, Excluded, Overlap

LEMMA StepKeepsNoOverlap ==
  ASSUME TypeOK, References, NoOverlap, [Next]_vars
  PROVE  NoOverlap'
<1>1. ASSUME UNCHANGED promotions PROVE NoOverlap'
  BY <1>1 DEF NoOverlap
<1>2. ASSUME NEW c \in Clients, Insert(c) PROVE NoOverlap'
  <2> DEFINE row == requests[c].row
  <2>1. CASE Excluded(promotions, 0, row)
    BY <1>1, <1>2, <2>1 DEF Insert, Reject
  <2>2. CASE ~Excluded(promotions, 0, row)
    <3>1. promotions' = Append(promotions, row)
      BY <1>2, <2>2 DEF Insert, Write
    <3>2. promotions \in Seq(PromotionRow)
      BY DEF TypeOK
    <3> DEFINE n == Len(promotions) + 1
    <3>3. n \in Nat /\ n \notin DOMAIN promotions /\ 0 \notin DOMAIN promotions
      BY <3>2
    <3>4. ~Excluded(promotions, n, row)
      BY <2>2, <3>3 DEF Excluded
    <3>5. /\ \A j \in DOMAIN promotions' : j = n \/ j \in DOMAIN promotions
          /\ \A j \in DOMAIN promotions' : promotions'[j] = IF j = n THEN row ELSE promotions[j]
      BY <3>1, <3>2
    <3> HIDE DEF n, row
    <3> QED BY <3>3, <3>4, <3>5, AdmittedRow
  <2> QED BY <2>1, <2>2
<1>3. ASSUME NEW c \in Clients, NEW i \in DOMAIN promotions, Cancel(c, i) PROVE NoOverlap'
  <2>1. promotions' = [promotions EXCEPT ![i].status = "CANCELLED"]
    BY <1>3 DEF Cancel, Write
  <2>2. promotions \in Seq(PromotionRow) /\ promotions[i] \in PromotionRow
    BY DEF TypeOK
  <2>3. DOMAIN promotions' = DOMAIN promotions /\ promotions'[i].status = "CANCELLED"
          /\ \A j \in DOMAIN promotions \ {i} : promotions'[j] = promotions[j]
    BY <2>1, <2>2 DEF PromotionRow
  <2> QED BY <2>3 DEF NoOverlap
<1>4. ASSUME NEW c \in Clients, AssignUpdate(c) PROVE NoOverlap'
  <2> DEFINE r == requests[c]
             row == [promotions[r.id] EXCEPT !.target = r.target]
  <2>1. CASE Excluded(promotions, r.id, row)
    BY <1>1, <1>4, <2>1 DEF AssignUpdate, Reject
  <2>2. CASE ~Excluded(promotions, r.id, row)
    <3>1. promotions' = [promotions EXCEPT ![r.id] = row]
      BY <1>4, <2>2 DEF AssignUpdate, Write
    <3>2. r.id \in DOMAIN promotions /\ r.id \in Nat
      BY <1>4, RequestFields DEF AssignUpdate, References, RefersTo, TypeOK
    <3> HIDE DEF row, r
    <3>3. /\ \A j \in DOMAIN promotions' : j = r.id \/ j \in DOMAIN promotions
          /\ \A j \in DOMAIN promotions' : promotions'[j] = IF j = r.id THEN row ELSE promotions[j]
      BY <3>1, <3>2
    <3> QED BY <2>2, <3>2, <3>3, AdmittedRow
  <2> QED BY <2>1, <2>2
<1> QED BY <1>1, <1>2, <1>3, <1>4
        DEF Next, Request, StartCreate, CreateCheck, AssignFind, AssignCheck, CategoryOf, Bump,
            CreateProduct, Write, IngestRow, IngestFinished, vars

LEMMA StepKeepsPriced ==
  ASSUME TypeOK, Priced, [Next]_vars
  PROVE  Priced'
<1>1. ASSUME UNCHANGED <<products, source>> PROVE Priced'
  BY <1>1 DEF Priced
<1>2. ASSUME NEW c \in Clients, NEW new \in NewProducts, CreateProduct(c, new) PROVE Priced'
  <2>1. /\ products' = [products EXCEPT ![new.product] = [cat |-> new.cat, base |-> new.base]]
        /\ source' = source /\ products[new.product] = NoProduct
    BY <1>2 DEF CreateProduct, Write
  <2>2. new.product \in Products /\ [cat |-> new.cat, base |-> new.base] \in Product
    BY PromotionConstants DEF Product
  <2>3. source[new.product] = {}
    BY <2>1, <2>2 DEF Priced
  <2>4. ASSUME NEW p \in Products, p # new.product
        PROVE  products'[p] = products[p]
    BY <2>1, <2>4 DEF TypeOK
  <2> QED BY <2>1, <2>2, <2>3, <2>4, NoProductAssumption DEF Priced
<1>3. ASSUME NEW row \in Feed, IngestRow(row) PROVE Priced'
  <2> DEFINE new == [cat |-> row.category, base |-> RowPrice(row)]
  <2>1. row.product \in Products /\ new \in Product /\ RowPrice(row) # Rejected
    BY <1>3, PromotionConstants, RowPriceIsNat DEF IngestRow, Row, Product
  <2>2. products' = [products EXCEPT ![row.product] = new]
          /\ source' = [source EXCEPT ![row.product] = {row}]
    BY <1>3 DEF IngestRow, Write
  <2>3. new.base = RowPrice(row) /\ new # NoProduct
    BY <2>1, NoProductAssumption DEF Product
  <2> HIDE DEF new
  <2>4. products'[row.product] = new /\ source'[row.product] = {row}
    BY <2>1, <2>2 DEF TypeOK
  <2>5. ASSUME NEW p \in Products, p # row.product
        PROVE  products'[p] = products[p] /\ source'[p] = source[p]
    BY <2>2, <2>5 DEF TypeOK
  <2> QED BY <2>1, <2>3, <2>4, <2>5 DEF Priced
<1> QED BY <1>1, <1>2, <1>3
        DEF Next, Request, StartCreate, CreateCheck, Insert, Reject, Cancel, AssignFind, AssignCheck,
            AssignUpdate, Write, CategoryOf, Bump, IngestFinished, vars

LEMMA StepIsSafe == IInv /\ [Next]_vars => IInv'
BY StepKeepsTypes, StepKeepsReferences, StepKeepsNoOverlap, StepKeepsPriced DEF IInv

LEMMA AlwaysSafe == Spec => []IInv
<1>1. Init => IInv
  BY InitIsSafe
<1>2. IInv /\ [Next]_vars => IInv'
  BY StepIsSafe
<1> QED BY <1>1, <1>2, PTL DEF Spec

-----------------------------------------------------------------------------
(***************************************************************************)
(* What follows.                                                           *)
(***************************************************************************)
\* The variables always have the values that the code and the CHECK constraints allow.
THEOREM PromotionTypes == Spec => []TypeOK
<1>1. IInv => TypeOK
  BY DEF IInv
<1> QED BY <1>1, AlwaysSafe, PTL

\* At no instant has the lateral join of the pricing query two rows to choose from:
\* two that are on the same target do not overlap, and no target is a product and a
\* category.
THEOREM PricesAreDetermined == Spec => []PriceIsDetermined
<1>1. ASSUME IInv PROVE PriceIsDetermined
  <2> SUFFICES ASSUME NEW p \in Sold, NEW t \in Times,
                      NEW i \in First(promotions, p, products[p].cat, t),
                      NEW j \in First(promotions, p, products[p].cat, t)
               PROVE  i = j
    BY DEF PriceIsDetermined
  <2> DEFINE cat == products[p].cat
             found == Applicable(promotions, p, cat, t)
             own == {k \in found : promotions[k].target = p}
  <2>1. p \in Products /\ cat \in Categories
    BY <1>1, SoldIsProduct DEF IInv, Product
  <2>2. i \in found /\ j \in found /\ (own # {} => i \in own /\ j \in own)
    BY DEF First
  <2>3. promotions[i].target = promotions[j].target
    <3>1. CASE own # {}
      BY <2>2, <3>1
    <3>2. CASE own = {}
      BY <2>2, <3>2 DEF Applicable
    <3> QED BY <3>1, <3>2
  <2>4. /\ i \in DOMAIN promotions /\ promotions[i].status = "ACTIVE" /\ Covers(promotions[i], t)
        /\ j \in DOMAIN promotions /\ promotions[j].status = "ACTIVE" /\ Covers(promotions[j], t)
    BY <2>2 DEF Applicable
  <2>5. promotions[i] \in PromotionRow /\ promotions[j] \in PromotionRow /\ t \in Int
    BY <1>1, <2>4, PromotionConstants DEF IInv, TypeOK, Times
  <2>6. Overlap(promotions[i], promotions[j])
    BY <2>4, <2>5 DEF Covers, Overlap, PromotionRow
  <2> QED BY <1>1, <2>3, <2>4, <2>6 DEF IInv, NoOverlap
<1> QED BY <1>1, AlwaysSafe, PTL

\* An effective price is between zero and the base price, whatever the base price has
\* become since the promotion was created.
THEOREM PricesAreWithinBounds == Spec => []PriceWithinBounds
<1>1. ASSUME IInv PROVE PriceWithinBounds
  <2> SUFFICES ASSUME NEW p \in Sold, NEW t \in Times
               PROVE  PriceAt(promotions, p, products[p], t) \in 0 .. products[p].base
    BY DEF PriceWithinBounds
  <2> DEFINE first == First(promotions, p, products[p].cat, t)
             i == CHOOSE k \in first : TRUE
  <2>1. products[p].base \in Nat
    BY <1>1, SoldIsProduct DEF IInv, Product
  <2>2. CASE first = {}
    BY <2>1, <2>2 DEF PriceAt
  <2>3. CASE first # {}
    <3>1. i \in first
      BY <2>3
    <3>2. promotions[i] \in PromotionRow
      <4>1. i \in DOMAIN promotions
        BY <3>1 DEF First, Applicable
      <4> QED BY <1>1, <4>1 DEF IInv, TypeOK
    <3>3. PriceAt(promotions, p, products[p], t) = DiscountedPrice(products[p].base, promotions[i])
      BY <2>3 DEF PriceAt
    <3> HIDE DEF i
    <3> QED BY <2>1, <3>2, <3>3, DiscountWithinBase
  <2> QED BY <2>2, <2>3
<1> QED BY <1>1, AlwaysSafe, PTL

\* The two renderings of the window, in the price and in the list, agree.
THEOREM ListAgrees == Spec => []ListAgreesWithPricing
<1>1. ASSUME IInv PROVE ListAgreesWithPricing
  <2> SUFFICES ASSUME NEW p \in Sold, NEW t \in Times, NEW i \in DOMAIN promotions
               PROVE  i \in Applicable(promotions, p, products[p].cat, t) <=>
                        /\ EffectiveStatus(promotions[i], t) = "ACTIVE"
                        /\ promotions[i].target \in {p, products[p].cat}
    BY DEF ListAgreesWithPricing
  <2>1. promotions[i] \in PromotionRow /\ t \in Int
    BY <1>1, PromotionConstants DEF IInv, TypeOK, Times
  <2> QED BY <2>1 DEF PromotionRow, Applicable, Covers, EffectiveStatus
<1> QED BY <1>1, AlwaysSafe, PTL

\* The price of a row, where it is not rejected, is the one the rules describe: with the
\* ending, at least the cost, and no other price with the ending is closer.
LEMMA RowPriceIsPriceOf ==
  ASSUME NEW row \in Row, RowPrice(row) # Rejected
  PROVE  IsPriceOf(RowPrice(row), row)
<1> DEFINE raw == RawPrice(row.cost, row.category)
           price == RowPrice(row)
           Distance(q) == IF raw > q * 100 THEN raw - q * 100 ELSE q * 100 - raw
           near == {q \in 0 .. raw \div 100 + 100 : q % 100 = PriceEnding}
<1>1. raw \in Nat /\ row.cost \in Nat /\ PriceEnding \in Int /\ 0 <= PriceEnding /\ PriceEnding <= 99
  BY RawPriceIsNat, EndingAssumption DEF Row, Dollar
<1>2. PICK k \in Nat :
        /\ RoundToEnding(raw) = 10000 * k + 100 * PriceEnding
        /\ 2 * (RoundToEnding(raw) - raw) <= 10000 \/ k = 0
        /\ 2 * (raw - RoundToEnding(raw)) < 10000
  BY <1>1, RoundedPrice
<1>3. price = RoundToEnding(raw) \div 100 /\ ~(price < row.cost)
  BY DEF RowPrice, PriceRow, Rejected, Unit
<1> HIDE DEF raw, price
<1>4. price = 100 * k + PriceEnding
  BY <1>1, <1>2, <1>3
<1>5. price \in Nat /\ price >= row.cost
  BY <1>1, <1>3, <1>4
<1>6. \/ 2 * (100 * price - raw) <= 10000
      \/ price = PriceEnding
  BY <1>1, <1>2, <1>4
<1>7. 2 * (raw - 100 * price) < 10000
  BY <1>1, <1>2, <1>4
<1>8. price \in near
  <2>1. price % 100 = PriceEnding
    BY <1>1, <1>4
  <2>2. price <= raw \div 100 + 100
    BY <1>1, <1>5, <1>6
  <2> QED BY <1>5, <2>1, <2>2
<1>9. ASSUME NEW q \in near
      PROVE  Distance(price) < Distance(q) \/ (Distance(price) = Distance(q) /\ q <= price)
  <2>1. q \in Nat /\ q % 100 = PriceEnding
    OBVIOUS
  <2>2. PICK m \in Nat : q = 100 * m + PriceEnding
    BY <2>1
  <2>3. q = price \/ q >= price + 100 \/ q + 100 <= price
    BY <1>1, <1>4, <2>2
  <2>4. q >= PriceEnding
    BY <1>1, <2>2
  <2> QED BY <1>1, <1>5, <1>6, <1>7, <2>1, <2>3, <2>4
<1> QED BY <1>5, <1>8, <1>9 DEF IsPriceOf, Unit, Dollar, raw, price

\* A base price that came from the feed is the one the pricing rules describe.
THEOREM PricesFollowTheRules == Spec => []PricedByTheRules
<1>1. ASSUME IInv PROVE PricedByTheRules
  <2> SUFFICES ASSUME NEW p \in Sold, NEW row \in source[p]
               PROVE  IsPriceOf(products[p].base, row)
    BY DEF PricedByTheRules
  <2>1. p \in Products /\ row \in Row
    BY <1>1 DEF IInv, TypeOK, Sold
  <2> QED BY <1>1, <2>1, RowPriceIsPriceOf DEF IInv, Priced
<1> QED BY <1>1, AlwaysSafe, PTL

\* No step brings a cancelled promotion back.
THEOREM CancelledStaysCancelled == Spec => CancelIsFinal
<1>1. ASSUME IInv, [Next]_vars, NEW i \in DOMAIN promotions, promotions[i].status = "CANCELLED"
      PROVE  promotions'[i].status = "CANCELLED"
  <2>1. promotions \in Seq(PromotionRow) /\ promotions[i] \in PromotionRow
    BY <1>1 DEF IInv, TypeOK
  <2>2. CASE UNCHANGED promotions
    BY <1>1, <2>2
  <2>3. ASSUME NEW c \in Clients, Insert(c) PROVE promotions'[i].status = "CANCELLED"
    <3>1. promotions' = Append(promotions, requests[c].row) \/ promotions' = promotions
      BY <2>3 DEF Insert, Write, Reject
    <3> QED BY <1>1, <2>1, <3>1
  <2>4. ASSUME NEW c \in Clients, NEW j \in DOMAIN promotions, Cancel(c, j)
        PROVE  promotions'[i].status = "CANCELLED"
    BY <1>1, <2>1, <2>4 DEF Cancel, Write, PromotionRow
  <2>5. ASSUME NEW c \in Clients, AssignUpdate(c) PROVE promotions'[i].status = "CANCELLED"
    <3> DEFINE id == requests[c].id
               row == [promotions[id] EXCEPT !.target = requests[c].target]
    <3>1. promotions' = [promotions EXCEPT ![id] = row] \/ promotions' = promotions
      BY <2>5 DEF AssignUpdate, Write, Reject
    <3>2. i = id => row.status = "CANCELLED"
      BY <1>1, <2>1 DEF PromotionRow
    <3> HIDE DEF id, row
    <3> QED BY <1>1, <2>1, <3>1, <3>2
  <2> QED BY <1>1, <2>2, <2>3, <2>4, <2>5
          DEF Next, Request, StartCreate, CreateCheck, AssignFind, AssignCheck, CategoryOf, Bump,
              CreateProduct, Write, IngestRow, IngestFinished, vars
<1>2. IInv /\ [Next]_vars =>
        [\A i \in DOMAIN promotions :
           promotions[i].status = "CANCELLED" => promotions'[i].status = "CANCELLED"]_vars
  BY <1>1
<1>3. Spec => [][\A i \in DOMAIN promotions :
                   promotions[i].status = "CANCELLED" => promotions'[i].status = "CANCELLED"]_vars
  BY <1>2, AlwaysSafe, PTL DEF Spec
<1> QED BY <1>3 DEF CancelIsFinal
-----------------------------------------------------------------------------
(***************************************************************************)
(* Announcements.  A request reads the categories it will bump in other    *)
(* steps than it writes in, so what it has read must still be so.  That    *)
(* holds if one client re-targets at a time and if no product that can be  *)
(* promoted is moved; without either it does not (the run lost_reassign).  *)
(*                                                                         *)
(* Each unannounced category is then among those the ingest or a request   *)
(* is about to bump (Announced).  This needs what a request carries to be  *)
(* up to date (KeptTargets, KeptBumps), for which nobody else may move the *)
(* product or the promotion (Settled).                                     *)
(***************************************************************************)
\* What a promotion is ever on.
Promotable ==
  Targets \cup {o.target : o \in Offers}
  \cup {s \in Scopes : \E rows \in InitialPromotions : \E i \in DOMAIN rows : rows[i].target = s}

\* Where a product is ever put.
PutInto(p) ==
  {k \in Categories : \/ \E row \in Feed \cup InitialRows : row.product = p /\ row.category = k
                      \/ \E new \in NewProducts : new.product = p /\ new.cat = k}

AssignOneAtATime == \A a, b \in Assigners : a = b
PromotedStayPut == \A p \in Products \cap Promotable : \A k, l \in PutInto(p) : k = l

\* The category whose listing a promotion on target is in.
ScopeIn(target, sold) == IF target \in Categories THEN target ELSE sold[target].cat

PutRight == \A p \in Sold : products[p].cat \in PutInto(p)

RefersPromotable(request) ==
  /\ request.at \in {"createCheck", "insert"} => request.row.target \in Promotable
  /\ request.at \in {"assignCheck", "update"} =>
       request.target \in Promotable /\ request.existing.target \in Promotable
  /\ request.at = "categoryOf" => request.product \in Products \cap Promotable

Settled ==
  /\ PutRight
  /\ \A i \in DOMAIN promotions : promotions[i].target \in Promotable
  /\ \A c \in Clients : RefersPromotable(requests[c])

KeepsTarget(c, request, rows) ==
  request.at \in {"assignCheck", "update"} =>
    c \in Assigners /\ request.existing.target = rows[request.id].target

KeptTargets == \A c \in Clients : KeepsTarget(c, requests[c], promotions)

KeepsBump(request, sold) ==
  /\ request.at = "insert" => ScopeIn(request.row.target, sold) \in request.bump
  /\ request.at = "update" => ScopeIn(request.target, sold) \in request.bump

KeptBumps == \A c \in Clients : KeepsBump(requests[c], products)

\* Request is going to bump category k.
WillBump(request, k, sold) ==
  \/ request.at \in {"bump", "categoryOf"} /\ k \in request.bump
  \/ request.at = "categoryOf" /\ k = ScopeIn(request.product, sold)

Announced ==
  \A k \in unbumped : k \in touched \/ \E c \in Clients : WillBump(requests[c], k, products)

BumpInv == Settled /\ KeptTargets /\ KeptBumps /\ Announced

(* What a write changes.                                                     *)

\* A product has the price it had when the same rows apply to it.
LEMMA PriceOfSameRows ==
  ASSUME NEW rows, NEW rows2, NEW p, NEW product, NEW t,
         Applicable(rows, p, product.cat, t) = Applicable(rows2, p, product.cat, t),
         \A i \in Applicable(rows, p, product.cat, t) : rows2[i] = rows[i]
  PROVE  PriceAt(rows, p, product, t) = PriceAt(rows2, p, product, t)
<1> DEFINE first == First(rows, p, product.cat, t)
           i == CHOOSE k \in first : TRUE
<1>1. First(rows2, p, product.cat, t) = first
  BY DEF First
<1>2. CASE first = {}
  BY <1>1, <1>2 DEF PriceAt
<1>3. CASE first # {}
  <2>1. i \in first
    BY <1>3
  <2>2. rows2[i] = rows[i]
    BY <2>1 DEF First
  <2> HIDE DEF first
  <2>3. PriceAt(rows, p, product, t) = DiscountedPrice(product.base, rows[i])
    BY <1>3 DEF PriceAt, first
  <2>4. PriceAt(rows2, p, product, t) = DiscountedPrice(product.base, rows2[i])
    BY <1>1, <1>3 DEF PriceAt
  <2> QED BY <2>2, <2>3, <2>4
<1> QED BY <1>2, <1>3

\* A listing is what it was when the same products are in it at the same prices.
LEMMA SameListing ==
  ASSUME NEW sold, NEW sold2, NEW rows, NEW rows2, NEW k, NEW t,
         \A p \in Products :
           (sold[p] # NoProduct /\ sold[p].cat = k) <=> (sold2[p] # NoProduct /\ sold2[p].cat = k),
         \A p \in Products : sold[p] # NoProduct /\ sold[p].cat = k =>
           PriceAt(rows, p, sold[p], t) = PriceAt(rows2, p, sold2[p], t)
  PROVE  Listing(sold, rows, k, t) = Listing(sold2, rows2, k, t)
<1> DEFINE in == {p \in Products : sold[p] # NoProduct /\ sold[p].cat = k}
<1>1. in = {p \in Products : sold2[p] # NoProduct /\ sold2[p].cat = k}
  OBVIOUS
<1>2. \A p \in in : PriceAt(rows, p, sold[p], t) = PriceAt(rows2, p, sold2[p], t)
  OBVIOUS
<1>3. Listing(sold, rows, k, t) = [p \in in |-> PriceAt(rows, p, sold[p], t)]
  BY DEF Listing
<1>4. Listing(sold2, rows2, k, t) = [p \in in |-> PriceAt(rows2, p, sold2[p], t)]
  BY <1>1 DEF Listing
<1> HIDE DEF in
<1> QED BY <1>2, <1>3, <1>4

\* A row of promotions changes the listing of what it is on, before and after.
LEMMA ChangedByRow ==
  ASSUME TypeOK, NEW i, NEW rows, NEW S,
         \A j : j # i => (j \in DOMAIN rows <=> j \in DOMAIN promotions),
         \A j \in DOMAIN promotions : j # i => rows[j] = promotions[j],
         i \in DOMAIN promotions /\ promotions[i].status = "ACTIVE" =>
           ScopeIn(promotions[i].target, products) \in S,
         i \in DOMAIN rows /\ rows[i].status = "ACTIVE" => ScopeIn(rows[i].target, products) \in S
  PROVE  Changed(products, rows) \subseteq S
<1> SUFFICES ASSUME NEW k \in Categories, NEW t \in Times, k \notin S
             PROVE  Listing(products, promotions, k, t) = Listing(products, rows, k, t)
  BY DEF Changed
<1>1. ASSUME NEW p \in Products, products[p] # NoProduct, products[p].cat = k
      PROVE  PriceAt(promotions, p, products[p], t) = PriceAt(rows, p, products[p], t)
  <2>1. p \notin Categories
    BY ScopeAssumption
  <2>2. i \notin Applicable(promotions, p, k, t) /\ i \notin Applicable(rows, p, k, t)
    BY <1>1, <2>1 DEF Applicable, ScopeIn
  <2>3. Applicable(promotions, p, k, t) = Applicable(rows, p, k, t)
    BY <2>2 DEF Applicable
  <2>4. \A j \in Applicable(promotions, p, k, t) : rows[j] = promotions[j]
    BY <2>2 DEF Applicable
  <2> QED BY <1>1, <2>3, <2>4, PriceOfSameRows
<1> QED BY <1>1, SameListing

\* A product that is written changes the listings that the ingest reports.
LEMMA ChangedByProduct ==
  ASSUME TypeOK, NEW p \in Products, NEW product \in Product
  PROVE  Changed([products EXCEPT ![p] = product], promotions) \subseteq Reported(p, product)
<1> DEFINE sold == [products EXCEPT ![p] = product]
<1> SUFFICES ASSUME NEW k \in Categories, NEW t \in Times, k \notin Reported(p, product)
             PROVE  Listing(products, promotions, k, t) = Listing(sold, promotions, k, t)
  BY DEF Changed
<1>1. sold[p] = product /\ \A q \in Products : q # p => sold[q] = products[q]
  BY DEF TypeOK
<1>2. product # NoProduct /\ product.cat \in Categories
  BY NoProductAssumption DEF Product
<1>3. products[p] = NoProduct \/ products[p] \in Product
  BY DEF TypeOK, Product
<1> HIDE DEF sold
<1>4. CASE products[p] = NoProduct
  <2>1. product.cat # k
    BY <1>4 DEF Reported
  <2> QED BY <1>1, <1>4, <2>1, SameListing
<1>5. CASE products[p] \in Product
  <2>1. products[p] # NoProduct
    BY <1>5, NoProductAssumption DEF Product
  <2>2. CASE products[p].cat # product.cat
    <3>1. product.cat # k /\ products[p].cat # k
      BY <2>1, <2>2 DEF Reported
    <3> QED BY <1>1, <3>1, SameListing
  <2>3. CASE products[p].cat = product.cat /\ products[p].base # product.base
    <3>1. product.cat # k
      BY <2>1, <2>3 DEF Reported
    <3> QED BY <1>1, <2>3, <3>1, SameListing
  <2>4. CASE products[p].cat = product.cat /\ products[p].base = product.base
    <3>1. products[p] = product
      BY <1>5, <2>4 DEF Product
    <3> QED BY <1>1, <3>1, SameListing
  <2> QED BY <2>2, <2>3, <2>4
<1> QED BY <1>3, <1>4, <1>5
(* The parts of the invariant, step by step.                                 *)

\* A request that goes on is another one, the others are what they were.
LEMMA OneGoesOn ==
  ASSUME TypeOK, NEW c \in Clients, NEW q, Awaits(c, q)
  PROVE  requests'[c] = q /\ \A d \in Clients : d # c => requests'[d] = requests[d]
BY DEF TypeOK, Awaits

\* How a step writes a product: as one of the places it may be put.
LEMMA ProductWrites ==
  ASSUME TypeOK, [Next]_vars
  PROVE  \/ products' = products
         \/ \E p \in Products : \E product \in Product :
              products' = [products EXCEPT ![p] = product] /\ product.cat \in PutInto(p)
<1>1. ASSUME NEW c \in Clients, NEW new \in NewProducts, CreateProduct(c, new)
      PROVE  \E p \in Products : \E product \in Product :
               products' = [products EXCEPT ![p] = product] /\ product.cat \in PutInto(p)
  <2> DEFINE product == [cat |-> new.cat, base |-> new.base]
  <2>1. new.product \in Products /\ product \in Product /\ product.cat \in PutInto(new.product)
    BY PromotionConstants DEF Product, PutInto
  <2>2. products' = [products EXCEPT ![new.product] = product]
    BY <1>1 DEF CreateProduct, Write
  <2> HIDE DEF product
  <2> QED BY <2>1, <2>2
<1>2. ASSUME NEW row \in Feed, IngestRow(row)
      PROVE  \E p \in Products : \E product \in Product :
               products' = [products EXCEPT ![p] = product] /\ product.cat \in PutInto(p)
  <2> DEFINE product == [cat |-> row.category, base |-> RowPrice(row)]
  <2>1. row.product \in Products /\ product \in Product /\ product.cat \in PutInto(row.product)
    BY <1>2, PromotionConstants, RowPriceIsNat DEF IngestRow, Row, Product, PutInto
  <2>2. products' = [products EXCEPT ![row.product] = product]
    BY <1>2 DEF IngestRow, Write
  <2> HIDE DEF product
  <2> QED BY <2>1, <2>2
<1> QED BY <1>1, <1>2
        DEF Next, Request, StartCreate, CreateCheck, Insert, Reject, Cancel, AssignFind, AssignCheck,
            AssignUpdate, Write, CategoryOf, Bump, IngestFinished, vars

\* Products stay where some row or request may put them.
LEMMA StepKeepsPutRight ==
  ASSUME TypeOK, PutRight, [Next]_vars
  PROVE  PutRight'
<1>1. ASSUME NEW p \in Products, NEW product \in Product, product.cat \in PutInto(p),
             products' = [products EXCEPT ![p] = product]
      PROVE  PutRight'
  <2>1. products'[p] = product /\ \A q \in Products : q # p => products'[q] = products[q]
    BY <1>1 DEF TypeOK
  <2> QED BY <1>1, <2>1 DEF PutRight, Sold
<1>2. CASE products' = products
  BY <1>2 DEF PutRight, Sold
<1> QED BY <1>1, <1>2, ProductWrites

\* What can be promoted stays in the listing it is in.
LEMMA ScopesStay ==
  ASSUME TypeOK, References, PutRight, PromotedStayPut, [Next]_vars,
         NEW s \in Scopes, s \in Promotable, s \in Products => s \in Sold
  PROVE  ScopeIn(s, products') = ScopeIn(s, products)
<1>1. CASE s \in Categories
  BY <1>1 DEF ScopeIn
<1>2. CASE s \notin Categories
  <2>1. s \in Products \cap Promotable /\ s \in Sold
    BY <1>2 DEF Scopes
  <2>2. s \in Sold'
    BY <2>1, NothingIsDeleted
  <2>3. products[s].cat \in PutInto(s) /\ products'[s].cat \in PutInto(s)
    BY <2>1, <2>2, StepKeepsPutRight DEF PutRight
  <2> QED BY <1>2, <2>1, <2>3 DEF PromotedStayPut, ScopeIn
<1> QED BY <1>1, <1>2

\* What BumpFor asks for.
LEMMA BumpForWill ==
  ASSUME NEW target \in Scopes, NEW bump, NEW sold
  PROVE  /\ \A k : (k \in bump \/ k = ScopeIn(target, sold)) => WillBump(BumpFor(target, bump), k, sold)
         /\ BumpFor(target, bump).at \in {"bump", "categoryOf"}
         /\ target \in Promotable => RefersPromotable(BumpFor(target, bump))
<1>1. CASE target \in Categories
  <2>1. BumpFor(target, bump) = [at |-> "bump", bump |-> bump \cup {target}]
    BY <1>1 DEF BumpFor
  <2> QED BY <1>1, <2>1 DEF WillBump, ScopeIn, RefersPromotable
<1>2. CASE target \notin Categories
  <2>1. BumpFor(target, bump) = [at |-> "categoryOf", product |-> target, bump |-> bump]
    BY <1>2 DEF BumpFor
  <2>2. target \in Products
    BY <1>2 DEF Scopes
  <2> QED BY <1>2, <2>1, <2>2 DEF WillBump, ScopeIn, RefersPromotable
<1> QED BY <1>1, <1>2

\* What promotions are on, before and after, can be promoted; so can what requests are
\* about.
LEMMA StepKeepsSettled ==
  ASSUME TypeOK, References, Settled, [Next]_vars
  PROVE  Settled'
<1> DEFINE RowsSettled == \A i \in DOMAIN promotions : promotions[i].target \in Promotable
           RequestsSettled == \A c \in Clients : RefersPromotable(requests[c])
<1>0. PutRight'
  BY StepKeepsPutRight DEF Settled
<1>1. ASSUME NEW c \in Clients, NEW q, Awaits(c, q), RefersPromotable(q) PROVE RequestsSettled'
  BY <1>1, OneGoesOn DEF Settled
<1>2. UNCHANGED promotions => RowsSettled'
  BY DEF Settled
<1>3. UNCHANGED requests => RequestsSettled'
  BY DEF Settled
<1>4. RefersPromotable(Idle) /\ \A bump : RefersPromotable([at |-> "bump", bump |-> bump])
  BY DEF Idle, RefersPromotable
<1>5. promotions \in Seq(PromotionRow)
  BY DEF TypeOK
<1> SUFFICES RowsSettled' /\ RequestsSettled'
  BY <1>0 DEF Settled
<1>6. ASSUME NEW c \in Clients, Reject(c) PROVE RowsSettled' /\ RequestsSettled'
  BY <1>1, <1>2, <1>4, <1>6 DEF Reject
<1>7. ASSUME NEW c \in Clients, NEW offer \in Offers, NEW w \in Windows, StartCreate(c, offer, w)
      PROVE  RowsSettled' /\ RequestsSettled'
  <2>1. Promotion(offer, w).target \in Promotable
    BY DEF Promotion, Promotable
  <2>2. \A bump : /\ RefersPromotable([at |-> "createCheck", row |-> Promotion(offer, w), bump |-> bump])
                  /\ RefersPromotable([at |-> "insert", row |-> Promotion(offer, w), bump |-> bump])
    BY <2>1 DEF RefersPromotable
  <2> QED BY <1>1, <1>2, <1>7, <2>2 DEF StartCreate
<1>8. ASSUME NEW c \in Clients, CreateCheck(c) PROVE RowsSettled' /\ RequestsSettled'
  <2>1. requests[c].row.target \in Promotable
    BY <1>8 DEF CreateCheck, Settled, RefersPromotable
  <2>2. \A bump : RefersPromotable([at |-> "insert", row |-> requests[c].row, bump |-> bump])
    BY <2>1 DEF RefersPromotable
  <2> QED BY <1>1, <1>2, <1>4, <1>8, <2>2 DEF CreateCheck
<1>9. ASSUME NEW c \in Clients, Insert(c) PROVE RowsSettled' /\ RequestsSettled'
  <2>1. CASE Reject(c)
    BY <1>6, <2>1
  <2>2. CASE ~Reject(c)
    <3>1. /\ promotions' = Append(promotions, requests[c].row)
          /\ Awaits(c, [at |-> "bump", bump |-> requests[c].bump])
      BY <1>9, <2>2 DEF Insert, Write
    <3>2. requests[c].row.target \in Promotable
      BY <1>9 DEF Insert, Settled, RefersPromotable
    <3>3. \A i \in DOMAIN promotions' :
            promotions'[i] = requests[c].row \/ (i \in DOMAIN promotions /\ promotions'[i] = promotions[i])
      BY <1>5, <3>1
    <3> QED BY <1>1, <1>4, <3>1, <3>2, <3>3 DEF Settled
  <2> QED BY <2>1, <2>2
<1>10. ASSUME NEW c \in Clients, NEW i \in DOMAIN promotions, Cancel(c, i)
       PROVE  RowsSettled' /\ RequestsSettled'
  <2>1. promotions' = [promotions EXCEPT ![i].status = "CANCELLED"]
          /\ Awaits(c, BumpFor(promotions[i].target, {}))
    BY <1>10 DEF Cancel, Write
  <2>2. promotions[i].target \in Scopes /\ promotions[i].target \in Promotable
    BY <1>5 DEF PromotionRow, Settled
  <2>3. \A j \in DOMAIN promotions' : j \in DOMAIN promotions /\ promotions'[j].target = promotions[j].target
    BY <1>5, <2>1 DEF PromotionRow
  <2> QED BY <1>1, <2>1, <2>2, <2>3, BumpForWill DEF Settled
<1>11. ASSUME NEW c \in Clients, NEW i \in DOMAIN promotions, NEW target \in Targets,
              AssignFind(c, i, target)
       PROVE  RowsSettled' /\ RequestsSettled'
  <2> DEFINE q == [at |-> IF target \in Products THEN "assignCheck" ELSE "update",
                   id |-> i, existing |-> promotions[i], target |-> target,
                   bump |-> IF target \in Products THEN {} ELSE {target}]
  <2>1. Awaits(c, q) /\ UNCHANGED promotions
    BY <1>11 DEF AssignFind
  <2>2. RefersPromotable(q)
    BY DEF RefersPromotable, Settled, Promotable
  <2> HIDE DEF q
  <2> QED BY <1>1, <1>2, <2>1, <2>2
<1>12. ASSUME NEW c \in Clients, AssignCheck(c) PROVE RowsSettled' /\ RequestsSettled'
  <2> DEFINE r == requests[c]
  <2>1. CASE ScopeAllowed(r.target, r.existing)
    <3> DEFINE q == [r EXCEPT !.at = "update", !.bump = {products[r.target].cat}]
    <3>1. Awaits(c, q) /\ UNCHANGED promotions
      BY <1>12, <2>1 DEF AssignCheck
    <3>2. q.at = "update" /\ q.existing = r.existing /\ q.target = r.target
      <4>1. r \in RequestState /\ r.at = "assignCheck" /\ {products[r.target].cat} \in SUBSET Categories
        BY <1>12, <2>1, AllowedIsSold DEF TypeOK, AssignCheck, References, RefersTo
      <4> HIDE DEF r
      <4> QED BY <4>1, RequestAdvanced
    <3>3. RefersPromotable(q)
      BY <1>12, <3>2 DEF RefersPromotable, Settled, AssignCheck
    <3> HIDE DEF q
    <3> QED BY <1>1, <1>2, <3>1, <3>3
  <2>2. CASE ~ScopeAllowed(r.target, r.existing)
    BY <1>1, <1>2, <1>4, <1>12, <2>2 DEF AssignCheck
  <2> QED BY <2>1, <2>2
<1>13. ASSUME NEW c \in Clients, AssignUpdate(c) PROVE RowsSettled' /\ RequestsSettled'
  <2> DEFINE r == requests[c]
             row == [promotions[r.id] EXCEPT !.target = r.target]
  <2>1. CASE Reject(c)
    BY <1>6, <2>1
  <2>2. CASE ~Reject(c)
    <3>1. promotions' = [promotions EXCEPT ![r.id] = row] /\ Awaits(c, BumpFor(r.existing.target, r.bump))
      BY <1>13, <2>2 DEF AssignUpdate, Write
    <3>2. r.id \in DOMAIN promotions /\ r.target \in Promotable /\ r.existing.target \in Promotable
      BY <1>13 DEF AssignUpdate, References, RefersTo, Settled, RefersPromotable
    <3>3. r.existing.target \in Scopes
      BY <1>13, RequestFields DEF TypeOK, AssignUpdate, PromotionRow
    <3>4. row.target = r.target
      BY <1>5, <3>2 DEF PromotionRow
    <3> HIDE DEF row
    <3>5. RowsSettled'
      BY <1>5, <3>1, <3>2, <3>4 DEF Settled
    <3> QED BY <1>1, <3>1, <3>2, <3>3, <3>5, BumpForWill
  <2> QED BY <2>1, <2>2
<1>14. ASSUME NEW c \in Clients, CategoryOf(c) \/ Bump(c) PROVE RowsSettled' /\ RequestsSettled'
  BY <1>1, <1>2, <1>4, <1>14 DEF CategoryOf, Bump
<1>15. ASSUME NEW c \in Clients, NEW new \in NewProducts, CreateProduct(c, new)
       PROVE  RowsSettled' /\ RequestsSettled'
  BY <1>1, <1>2, <1>4, <1>15 DEF CreateProduct, Write
<1>16. ASSUME (\E row \in Feed : IngestRow(row)) \/ IngestFinished \/ UNCHANGED vars
       PROVE  RowsSettled' /\ RequestsSettled'
  BY <1>2, <1>3, <1>16 DEF IngestRow, Write, IngestFinished, vars
<1> QED BY <1>7, <1>8, <1>9, <1>10, <1>11, <1>12, <1>13, <1>14, <1>15, <1>16 DEF Next, Request

\* A request that re-targets a promotion has its target right: nobody else re-targets it.
LEMMA StepKeepsTargets ==
  ASSUME TypeOK, References, KeptTargets, AssignOneAtATime, [Next]_vars
  PROVE  KeptTargets'
<1> DEFINE SameTargets == \A i \in DOMAIN promotions : promotions'[i].target = promotions[i].target
           Reassigns(q) == q.at \in {"assignCheck", "update"}
<1>1. UNCHANGED promotions => SameTargets
  OBVIOUS
<1>2. ASSUME SameTargets, NEW d \in Clients, requests'[d] = requests[d]
      PROVE  KeepsTarget(d, requests'[d], promotions')
  BY <1>2 DEF KeptTargets, KeepsTarget, References, RefersTo
<1>3. ASSUME NEW c \in Clients, NEW q, Awaits(c, q), SameTargets, KeepsTarget(c, q, promotions')
      PROVE  KeptTargets'
  BY <1>2, <1>3, OneGoesOn DEF KeptTargets
<1>4. \A c, rows, q : ~Reassigns(q) => KeepsTarget(c, q, rows)
  BY DEF KeepsTarget
<1>5. promotions \in Seq(PromotionRow)
  BY DEF TypeOK
<1>6. ASSUME NEW c \in Clients, NEW q, Awaits(c, q), ~Reassigns(q), SameTargets PROVE KeptTargets'
  BY <1>3, <1>4, <1>6
<1>7. /\ ~Reassigns(Idle)
      /\ \A bump : ~Reassigns([at |-> "bump", bump |-> bump])
      /\ \A row, bump : ~Reassigns([at |-> "createCheck", row |-> row, bump |-> bump])
      /\ \A row, bump : ~Reassigns([at |-> "insert", row |-> row, bump |-> bump])
      /\ \A s \in Scopes : \A bump : ~Reassigns(BumpFor(s, bump))
  BY DEF Idle, BumpFor
<1>8. ASSUME NEW c \in Clients, Reject(c) PROVE KeptTargets'
  BY <1>1, <1>6, <1>7, <1>8 DEF Reject
<1>9. ASSUME NEW c \in Clients, NEW offer \in Offers, NEW w \in Windows, StartCreate(c, offer, w)
      PROVE  KeptTargets'
  BY <1>1, <1>6, <1>7, <1>9 DEF StartCreate
<1>10. ASSUME NEW c \in Clients, CreateCheck(c) \/ CategoryOf(c) \/ Bump(c) PROVE KeptTargets'
  BY <1>1, <1>6, <1>7, <1>10 DEF CreateCheck, CategoryOf, Bump
<1>11. ASSUME NEW c \in Clients, Insert(c) PROVE KeptTargets'
  <2>1. CASE Reject(c)
    BY <1>8, <2>1
  <2>2. CASE ~Reject(c)
    <3>1. /\ promotions' = Append(promotions, requests[c].row)
          /\ Awaits(c, [at |-> "bump", bump |-> requests[c].bump])
      BY <1>11, <2>2 DEF Insert, Write
    <3>2. SameTargets
      BY <1>5, <3>1
    <3> QED BY <1>6, <1>7, <3>1, <3>2
  <2> QED BY <2>1, <2>2
<1>12. ASSUME NEW c \in Clients, NEW i \in DOMAIN promotions, Cancel(c, i) PROVE KeptTargets'
  <2>1. promotions' = [promotions EXCEPT ![i].status = "CANCELLED"]
          /\ Awaits(c, BumpFor(promotions[i].target, {}))
    BY <1>12 DEF Cancel, Write
  <2>2. promotions[i].target \in Scopes
    BY <1>5 DEF PromotionRow
  <2>3. SameTargets
    BY <1>5, <2>1 DEF PromotionRow
  <2> QED BY <1>6, <1>7, <2>1, <2>2, <2>3
<1>13. ASSUME NEW c \in Assigners, NEW i \in DOMAIN promotions, NEW target \in Targets,
              AssignFind(c, i, target)
       PROVE  KeptTargets'
  <2> DEFINE q == [at |-> IF target \in Products THEN "assignCheck" ELSE "update",
                   id |-> i, existing |-> promotions[i], target |-> target,
                   bump |-> IF target \in Products THEN {} ELSE {target}]
  <2>1. Awaits(c, q) /\ UNCHANGED promotions /\ c \in Clients
    BY <1>13, PromotionConstants DEF AssignFind
  <2>2. KeepsTarget(c, q, promotions)
    BY DEF KeepsTarget
  <2> HIDE DEF q
  <2> QED BY <1>1, <1>3, <2>1, <2>2
<1>14. ASSUME NEW c \in Clients, AssignCheck(c) PROVE KeptTargets'
  <2> DEFINE r == requests[c]
  <2>1. CASE ScopeAllowed(r.target, r.existing)
    <3> DEFINE q == [r EXCEPT !.at = "update", !.bump = {products[r.target].cat}]
    <3>1. Awaits(c, q) /\ UNCHANGED promotions /\ r.at = "assignCheck"
      BY <1>14, <2>1 DEF AssignCheck
    <3>2. q.at = "update" /\ q.existing = r.existing /\ q.id = r.id
      <4>1. r \in RequestState /\ r.at = "assignCheck" /\ {products[r.target].cat} \in SUBSET Categories
        BY <2>1, <3>1, AllowedIsSold DEF TypeOK, References, RefersTo
      <4> HIDE DEF r
      <4> QED BY <4>1, RequestAdvanced
    <3>3. KeepsTarget(c, q, promotions)
      BY <3>1, <3>2 DEF KeepsTarget, KeptTargets
    <3> HIDE DEF q
    <3> QED BY <1>1, <1>3, <3>1, <3>3
  <2>2. CASE ~ScopeAllowed(r.target, r.existing)
    BY <1>1, <1>6, <1>7, <1>14, <2>2 DEF AssignCheck
  <2> QED BY <2>1, <2>2
<1>15. ASSUME NEW c \in Clients, AssignUpdate(c) PROVE KeptTargets'
  <2> DEFINE q == BumpFor(requests[c].existing.target, requests[c].bump)
  <2>1. CASE Reject(c)
    BY <1>8, <2>1
  <2>2. CASE ~Reject(c)
    <3>1. Awaits(c, q) /\ c \in Assigners
      BY <1>15, <2>2 DEF AssignUpdate, KeptTargets, KeepsTarget
    <3>2. requests[c].existing.target \in Scopes
      BY <1>15, RequestFields DEF TypeOK, AssignUpdate, PromotionRow
    <3>3. ~Reassigns(q)
      BY <1>7, <3>2
    <3> HIDE DEF q
    <3>4. ASSUME NEW d \in Clients PROVE KeepsTarget(d, requests'[d], promotions')
      <4>1. CASE d = c
        BY <1>4, <3>1, <3>3, <4>1, OneGoesOn
      <4>2. CASE d # c
        <5>1. d \notin Assigners
          BY <3>1, <4>2 DEF AssignOneAtATime
        <5>2. ~Reassigns(requests[d]) /\ requests'[d] = requests[d]
          BY <3>1, <4>2, <5>1, OneGoesOn DEF KeptTargets, KeepsTarget
        <5> QED BY <1>4, <5>2
      <4> QED BY <4>1, <4>2
    <3> QED BY <3>4 DEF KeptTargets
  <2> QED BY <2>1, <2>2
<1>16. ASSUME NEW c \in Clients, NEW new \in NewProducts, CreateProduct(c, new) PROVE KeptTargets'
  BY <1>1, <1>6, <1>7, <1>16 DEF CreateProduct, Write
<1>17. ASSUME (\E row \in Feed : IngestRow(row)) \/ IngestFinished \/ UNCHANGED vars
       PROVE  KeptTargets'
  <2>1. UNCHANGED <<requests, promotions>>
    BY <1>17 DEF IngestRow, Write, IngestFinished, vars
  <2> QED BY <2>1 DEF KeptTargets
<1> QED BY <1>9, <1>10, <1>11, <1>12, <1>13, <1>14, <1>15, <1>16, <1>17 DEF Next, Request

\* The categories a request has read are still right: nobody moves the product.
LEMMA StepKeepsBumps ==
  ASSUME TypeOK, References, Settled, KeptBumps, PromotedStayPut, [Next]_vars
  PROVE  KeptBumps'
<1> DEFINE Writes(q) == q.at \in {"insert", "update"}
<1>1. ASSUME NEW d \in Clients, requests'[d] = requests[d]
      PROVE  KeepsBump(requests'[d], products')
  <2>1. CASE requests[d].at = "insert"
    <3>1. requests[d].row.target \in Scopes /\ requests[d].row.target \in Promotable
            /\ (requests[d].row.target \in Products => requests[d].row.target \in Sold)
      BY <2>1, RequestFields DEF TypeOK, PromotionRow, Settled, RefersPromotable, References, RefersTo
    <3>2. ScopeIn(requests[d].row.target, products') = ScopeIn(requests[d].row.target, products)
      BY <3>1, ScopesStay DEF Settled
    <3> QED BY <1>1, <2>1, <3>2 DEF KeptBumps, KeepsBump
  <2>2. CASE requests[d].at = "update"
    <3>1. requests[d].target \in Scopes /\ requests[d].target \in Promotable
            /\ (requests[d].target \in Products => requests[d].target \in Sold)
      BY <2>2, RequestFields DEF TypeOK, Settled, RefersPromotable, References, RefersTo
    <3>2. ScopeIn(requests[d].target, products') = ScopeIn(requests[d].target, products)
      BY <3>1, ScopesStay DEF Settled
    <3> QED BY <1>1, <2>2, <3>2 DEF KeptBumps, KeepsBump
  <2> QED BY <1>1, <2>1, <2>2 DEF KeepsBump
<1>2. ASSUME NEW c \in Clients, NEW q, Awaits(c, q), KeepsBump(q, products') PROVE KeptBumps'
  BY <1>1, <1>2, OneGoesOn DEF KeptBumps
<1>3. ASSUME NEW c \in Clients, NEW q, Awaits(c, q), ~Writes(q) PROVE KeptBumps'
  <2>1. KeepsBump(q, products')
    BY <1>3 DEF KeepsBump
  <2> QED BY <1>2, <1>3, <2>1
<1>4. /\ ~Writes(Idle)
      /\ \A bump : ~Writes([at |-> "bump", bump |-> bump])
      /\ \A row, bump : ~Writes([at |-> "createCheck", row |-> row, bump |-> bump])
      /\ \A s \in Scopes : \A bump : ~Writes(BumpFor(s, bump))
  BY DEF Idle, BumpFor
<1>5. ASSUME NEW c \in Clients, Reject(c) PROVE KeptBumps'
  BY <1>3, <1>4, <1>5 DEF Reject
<1>6. ASSUME NEW c \in Clients, NEW offer \in Offers, NEW w \in Windows, StartCreate(c, offer, w)
      PROVE  KeptBumps'
  <2>1. CASE offer.target \in Products
    BY <1>3, <1>4, <1>6, <2>1 DEF StartCreate
  <2>2. CASE offer.target \notin Products
    <3> DEFINE q == [at |-> "insert", row |-> Promotion(offer, w), bump |-> {offer.target}]
    <3>1. Awaits(c, q)
      BY <1>6, <2>2 DEF StartCreate
    <3>2. offer.target \in Categories
      BY <2>2, PromotionConstants DEF Scopes
    <3>3. KeepsBump(q, products')
      BY <3>2 DEF KeepsBump, Promotion, ScopeIn
    <3> HIDE DEF q
    <3> QED BY <1>2, <3>1, <3>3
  <2> QED BY <2>1, <2>2
<1>7. ASSUME NEW c \in Clients, CreateCheck(c) PROVE KeptBumps'
  <2> DEFINE row == requests[c].row
  <2>1. CASE ScopeAllowed(row.target, row)
    <3> DEFINE q == [at |-> "insert", row |-> row, bump |-> {products[row.target].cat}]
    <3>1. Awaits(c, q) /\ UNCHANGED products
      BY <1>7, <2>1 DEF CreateCheck
    <3>2. row.target \in Products
      BY <1>7 DEF CreateCheck, References, RefersTo
    <3>3. KeepsBump(q, products')
      BY <3>1, <3>2, ScopeAssumption DEF KeepsBump, ScopeIn
    <3> HIDE DEF q
    <3> QED BY <1>2, <3>1, <3>3
  <2>2. CASE ~ScopeAllowed(row.target, row)
    BY <1>3, <1>4, <1>7, <2>2 DEF CreateCheck
  <2> QED BY <2>1, <2>2
<1>8. ASSUME NEW c \in Clients, Insert(c) PROVE KeptBumps'
  BY <1>3, <1>4, <1>5, <1>8 DEF Insert
<1>9. ASSUME NEW c \in Clients, NEW i \in DOMAIN promotions, Cancel(c, i) PROVE KeptBumps'
  <2>1. promotions[i].target \in Scopes
    BY DEF TypeOK, PromotionRow
  <2> QED BY <1>3, <1>4, <1>9, <2>1 DEF Cancel
<1>10. ASSUME NEW c \in Clients, NEW i \in DOMAIN promotions, NEW target \in Targets,
              AssignFind(c, i, target)
       PROVE  KeptBumps'
  <2> DEFINE q == [at |-> IF target \in Products THEN "assignCheck" ELSE "update",
                   id |-> i, existing |-> promotions[i], target |-> target,
                   bump |-> IF target \in Products THEN {} ELSE {target}]
  <2>1. Awaits(c, q)
    BY <1>10 DEF AssignFind
  <2>2. target \in Products \/ target \in Categories
    BY PromotionConstants DEF Scopes
  <2>3. KeepsBump(q, products')
    BY <2>2 DEF KeepsBump, ScopeIn
  <2> HIDE DEF q
  <2> QED BY <1>2, <2>1, <2>3
<1>11. ASSUME NEW c \in Clients, AssignCheck(c) PROVE KeptBumps'
  <2> DEFINE r == requests[c]
  <2>1. CASE ScopeAllowed(r.target, r.existing)
    <3> DEFINE cat == products[r.target].cat
               q == [r EXCEPT !.at = "update", !.bump = {cat}]
    <3>1. Awaits(c, q) /\ UNCHANGED products /\ r.at = "assignCheck" /\ r \in RequestState
      BY <1>11, <2>1 DEF AssignCheck, TypeOK
    <3>2. r.target \in Products
      BY <3>1 DEF References, RefersTo
    <3>3. q.at = "update" /\ q.bump = {cat} /\ q.target = r.target
      <4>1. r \in [at : {"assignCheck", "update"}, id : Nat, existing : PromotionRow, target : Scopes,
                   bump : SUBSET Categories]
        BY <3>1 DEF RequestState, Idle
      <4> HIDE DEF r, cat
      <4> QED BY <4>1
    <3>4. KeepsBump(q, products')
      BY <3>1, <3>2, <3>3, ScopeAssumption DEF KeepsBump, ScopeIn
    <3> HIDE DEF q
    <3> QED BY <1>2, <3>1, <3>4
  <2>2. CASE ~ScopeAllowed(r.target, r.existing)
    BY <1>3, <1>4, <1>11, <2>2 DEF AssignCheck
  <2> QED BY <2>1, <2>2
<1>12. ASSUME NEW c \in Clients, AssignUpdate(c) PROVE KeptBumps'
  <2>1. CASE Reject(c)
    BY <1>5, <2>1
  <2>2. CASE ~Reject(c)
    <3>1. Awaits(c, BumpFor(requests[c].existing.target, requests[c].bump))
      BY <1>12, <2>2 DEF AssignUpdate
    <3>2. requests[c].existing.target \in Scopes
      BY <1>12, RequestFields DEF TypeOK, AssignUpdate, PromotionRow
    <3> QED BY <1>3, <1>4, <3>1, <3>2
  <2> QED BY <2>1, <2>2
<1>13. ASSUME NEW c \in Clients, CategoryOf(c) \/ Bump(c) PROVE KeptBumps'
  BY <1>3, <1>4, <1>13 DEF CategoryOf, Bump
<1>14. ASSUME NEW c \in Clients, NEW new \in NewProducts, CreateProduct(c, new) PROVE KeptBumps'
  BY <1>3, <1>4, <1>14 DEF CreateProduct
<1>15. ASSUME UNCHANGED requests PROVE KeptBumps'
  BY <1>1, <1>15 DEF KeptBumps
<1> QED BY <1>6, <1>7, <1>8, <1>9, <1>10, <1>11, <1>12, <1>13, <1>14, <1>15
        DEF Next, Request, IngestRow, IngestFinished, vars

\* Every step that writes leaves what it changed to somebody who will bump it, and
\* nobody gives up what is left to him.
LEMMA StepKeepsAnnounced ==
  ASSUME TypeOK, References, BumpInv, PromotedStayPut, [Next]_vars
  PROVE  Announced'
<1> DEFINE Bumping(q) == q.at \in {"bump", "categoryOf"}
<1>1. ASSUME NEW d \in Clients, requests'[d] = requests[d], NEW k, WillBump(requests[d], k, products)
      PROVE  WillBump(requests'[d], k, products')
  <2>1. CASE requests[d].at = "categoryOf" /\ k = ScopeIn(requests[d].product, products)
    <3>1. requests[d].product \in Scopes /\ requests[d].product \in Promotable /\ requests[d].product \in Sold
      BY <2>1 DEF BumpInv, Settled, RefersPromotable, References, RefersTo, Scopes
    <3>2. ScopeIn(requests[d].product, products') = ScopeIn(requests[d].product, products)
      BY <3>1, ScopesStay DEF BumpInv, Settled
    <3> QED BY <1>1, <2>1, <3>2 DEF WillBump
  <2>2. CASE requests[d].at \in {"bump", "categoryOf"} /\ k \in requests[d].bump
    BY <1>1, <2>2 DEF WillBump
  <2> QED BY <1>1, <2>1, <2>2 DEF WillBump
<1>2. ASSUME NEW c \in Clients, NEW q, Awaits(c, q), touched \subseteq touched',
             \A k \in unbumped' : k \in unbumped \/ WillBump(q, k, products'),
             \A k \in unbumped' : WillBump(requests[c], k, products) => WillBump(q, k, products')
      PROVE  Announced'
  <2> SUFFICES ASSUME NEW k \in unbumped', k \notin touched'
               PROVE  \E d \in Clients : WillBump(requests'[d], k, products')
    BY DEF Announced
  <2>1. CASE WillBump(q, k, products')
    BY <1>2, <2>1, OneGoesOn
  <2>2. CASE ~WillBump(q, k, products')
    <3>1. k \in unbumped
      BY <1>2, <2>2
    <3>2. PICK d \in Clients : WillBump(requests[d], k, products)
      BY <1>2, <3>1 DEF BumpInv, Announced
    <3>3. d # c
      BY <1>2, <2>2, <3>2
    <3> QED BY <1>1, <1>2, <3>2, <3>3, OneGoesOn
  <2> QED BY <2>1, <2>2
<1>3. ASSUME NEW c \in Clients, NEW q, Awaits(c, q), touched' = touched,
             \A k \in unbumped' : k \in unbumped \/ WillBump(q, k, products'), ~Bumping(requests[c])
      PROVE  Announced'
  <2>1. \A k : ~WillBump(requests[c], k, products)
    BY <1>3 DEF WillBump
  <2> QED BY <1>2, <1>3, <2>1
<1>4. ASSUME NEW c \in Clients, NEW q, Awaits(c, q), UNCHANGED <<touched, unbumped>>, ~Bumping(requests[c])
      PROVE  Announced'
  BY <1>3, <1>4
<1>5. ASSUME NEW c \in Clients, Reject(c), UNCHANGED touched, ~Bumping(requests[c]) PROVE Announced'
  BY <1>4, <1>5 DEF Reject
<1>6. ASSUME NEW c \in Clients, NEW offer \in Offers, NEW w \in Windows, StartCreate(c, offer, w)
      PROVE  Announced'
  BY <1>4, <1>6 DEF StartCreate, Begin, Idle
<1>7. ASSUME NEW c \in Clients, CreateCheck(c) PROVE Announced'
  BY <1>4, <1>7 DEF CreateCheck
<1>8. ASSUME NEW c \in Clients, Insert(c) PROVE Announced'
  <2> DEFINE row == requests[c].row
             q == [at |-> "bump", bump |-> requests[c].bump]
             n == Len(promotions) + 1
  <2>1. CASE Reject(c)
    BY <1>5, <1>8, <2>1 DEF Insert
  <2>2. CASE ~Reject(c)
    <3>1. Write(products, Append(promotions, row)) /\ Awaits(c, q) /\ requests[c].at = "insert"
            /\ touched' = touched
      BY <1>8, <2>2 DEF Insert
    <3>2. ScopeIn(row.target, products) \in requests[c].bump
      BY <3>1 DEF BumpInv, KeptBumps, KeepsBump
    <3>3. promotions \in Seq(PromotionRow)
      BY DEF TypeOK
    <3>4. /\ n \notin DOMAIN promotions /\ Append(promotions, row)[n] = row
          /\ \A j : j # n => (j \in DOMAIN Append(promotions, row) <=> j \in DOMAIN promotions)
          /\ \A j \in DOMAIN promotions : j # n => Append(promotions, row)[j] = promotions[j]
      BY <3>3
    <3> HIDE DEF n, row
    <3>5. Changed(products, Append(promotions, row)) \subseteq requests[c].bump
      BY <3>2, <3>4, ChangedByRow
    <3>6. \A k \in unbumped' : k \in unbumped \/ WillBump(q, k, products')
      BY <3>1, <3>5 DEF Write, WillBump
    <3> HIDE DEF q
    <3> QED BY <1>3, <3>1, <3>6
  <2> QED BY <2>1, <2>2
<1>9. ASSUME NEW c \in Clients, NEW i \in DOMAIN promotions, Cancel(c, i) PROVE Announced'
  <2> DEFINE new == [promotions EXCEPT ![i].status = "CANCELLED"]
             target == promotions[i].target
  <2>1. Write(products, new) /\ Awaits(c, BumpFor(target, {})) /\ touched' = touched
          /\ requests[c] = Idle
    BY <1>9 DEF Cancel, Begin
  <2>2. promotions \in Seq(PromotionRow) /\ promotions[i] \in PromotionRow /\ target \in Scopes
    BY DEF TypeOK, PromotionRow
  <2>3. new[i].status = "CANCELLED" /\ DOMAIN new = DOMAIN promotions
          /\ \A j \in DOMAIN promotions : j # i => new[j] = promotions[j]
    BY <2>2 DEF PromotionRow
  <2> HIDE DEF new
  <2>4. Changed(products, new) \subseteq {ScopeIn(target, products)}
    BY <2>3, ChangedByRow
  <2>5. \A k \in unbumped' : k \in unbumped \/ WillBump(BumpFor(target, {}), k, products')
    BY <2>1, <2>2, <2>4, BumpForWill DEF Write
  <2> QED BY <1>3, <2>1, <2>5 DEF Idle
<1>10. ASSUME NEW c \in Clients, NEW i \in DOMAIN promotions, NEW target \in Targets,
              AssignFind(c, i, target)
       PROVE  Announced'
  BY <1>4, <1>10 DEF AssignFind, Begin, Idle
<1>11. ASSUME NEW c \in Clients, AssignCheck(c) PROVE Announced'
  BY <1>4, <1>11 DEF AssignCheck
<1>12. ASSUME NEW c \in Clients, AssignUpdate(c) PROVE Announced'
  <2> DEFINE r == requests[c]
             row == [promotions[r.id] EXCEPT !.target = r.target]
             new == [promotions EXCEPT ![r.id] = row]
             q == BumpFor(r.existing.target, r.bump)
             S == r.bump \cup {ScopeIn(r.existing.target, products)}
  <2>1. CASE Reject(c)
    BY <1>5, <1>12, <2>1 DEF AssignUpdate
  <2>2. CASE ~Reject(c)
    <3>1. Write(products, new) /\ Awaits(c, q) /\ r.at = "update" /\ touched' = touched
      BY <1>12, <2>2 DEF AssignUpdate
    <3>2. ScopeIn(r.target, products) \in r.bump
      BY <3>1 DEF BumpInv, KeptBumps, KeepsBump
    <3>3. r.existing.target = promotions[r.id].target
      BY <3>1 DEF BumpInv, KeptTargets, KeepsTarget
    <3>4. r.id \in DOMAIN promotions /\ r.existing.target \in Scopes /\ promotions \in Seq(PromotionRow)
      BY <3>1, RequestFields DEF TypeOK, PromotionRow, References, RefersTo
    <3>5. row.target = r.target
      BY <3>4 DEF PromotionRow
    <3> HIDE DEF r, row
    <3>6. new[r.id] = row /\ DOMAIN new = DOMAIN promotions
            /\ \A j \in DOMAIN promotions : j # r.id => new[j] = promotions[j]
      BY <3>4
    <3> HIDE DEF new
    <3>7. ScopeIn(promotions[r.id].target, products) \in S /\ ScopeIn(new[r.id].target, products) \in S
      BY <3>2, <3>3, <3>5, <3>6
    <3> HIDE DEF S
    <3>8. Changed(products, new) \subseteq S
      BY <3>6, <3>7, ChangedByRow
    <3>9. \A k \in unbumped' : k \in unbumped \/ WillBump(q, k, products')
      BY <3>1, <3>4, <3>8, BumpForWill DEF Write, S
    <3> HIDE DEF q
    <3> QED BY <1>3, <3>1, <3>9 DEF r
  <2> QED BY <2>1, <2>2
<1>13. ASSUME NEW c \in Clients, CategoryOf(c) PROVE Announced'
  <2> DEFINE p == requests[c].product
             q == [at |-> "bump", bump |-> requests[c].bump \cup {products[p].cat}]
  <2>1. Awaits(c, q) /\ UNCHANGED <<touched, unbumped>> /\ requests[c].at = "categoryOf"
    BY <1>13 DEF CategoryOf
  <2>2. p \in Products
    BY <2>1 DEF References, RefersTo, Sold
  <2>3. \A k : WillBump(requests[c], k, products) => WillBump(q, k, products')
    BY <2>1, <2>2, ScopeAssumption DEF WillBump, ScopeIn
  <2> HIDE DEF q
  <2> QED BY <1>2, <2>1, <2>3
<1>14. ASSUME NEW c \in Clients, Bump(c) PROVE Announced'
  <2>1. Awaits(c, Idle) /\ touched' = touched /\ unbumped' = unbumped \ requests[c].bump
          /\ requests[c].at = "bump"
    BY <1>14 DEF Bump
  <2>2. \A k \in unbumped' : ~WillBump(requests[c], k, products)
    BY <2>1 DEF WillBump
  <2> QED BY <1>2, <2>1, <2>2
<1>15. ASSUME NEW c \in Clients, NEW new \in NewProducts, CreateProduct(c, new) PROVE Announced'
  <2> DEFINE product == [cat |-> new.cat, base |-> new.base]
             q == [at |-> "bump", bump |-> {new.cat}]
  <2>1. /\ Write([products EXCEPT ![new.product] = product], promotions)
        /\ Awaits(c, q) /\ touched' = touched /\ requests[c] = Idle
        /\ products[new.product] = NoProduct
    BY <1>15 DEF CreateProduct, Begin
  <2>2. new.product \in Products /\ product \in Product
    BY PromotionConstants DEF Product
  <2>3. Reported(new.product, product) = {new.cat}
    BY <2>1 DEF Reported
  <2>4. Changed([products EXCEPT ![new.product] = product], promotions) \subseteq {new.cat}
    BY <2>2, <2>3, ChangedByProduct
  <2>5. \A k \in unbumped' : k \in unbumped \/ WillBump(q, k, products')
    BY <2>1, <2>4 DEF Write, WillBump
  <2> HIDE DEF q
  <2> QED BY <1>3, <2>1, <2>5 DEF Idle
<1>16. ASSUME UNCHANGED requests, \A k \in unbumped' : k \in touched' \/ (k \in unbumped /\ k \notin touched)
       PROVE  Announced'
  BY <1>1, <1>16 DEF BumpInv, Announced
<1>17. ASSUME NEW row \in Feed, IngestRow(row) PROVE Announced'
  <2> DEFINE new == [cat |-> row.category, base |-> RowPrice(row)]
  <2>1. /\ Write([products EXCEPT ![row.product] = new], promotions)
        /\ touched' = touched \cup Reported(row.product, new)
        /\ UNCHANGED requests
    BY <1>17 DEF IngestRow
  <2>2. row.product \in Products /\ new \in Product
    BY <1>17, PromotionConstants, RowPriceIsNat DEF IngestRow, Row, Product
  <2> HIDE DEF new
  <2>3. Changed([products EXCEPT ![row.product] = new], promotions) \subseteq Reported(row.product, new)
    BY <2>2, ChangedByProduct
  <2> QED BY <1>16, <2>1, <2>3 DEF Write
<1>18. ASSUME IngestFinished PROVE Announced'
  BY <1>16, <1>18 DEF IngestFinished
<1>19. ASSUME UNCHANGED vars PROVE Announced'
  BY <1>16, <1>19 DEF vars
<1> QED BY <1>6, <1>7, <1>8, <1>9, <1>10, <1>11, <1>12, <1>13, <1>14, <1>15, <1>17, <1>18, <1>19
        DEF Next, Request

\* Nothing is to be announced at first.
LEMMA InitIsAnnounced == Init => BumpInv
<1> SUFFICES ASSUME Init PROVE BumpInv
  OBVIOUS
<1>1. IInv
  BY InitIsSafe
<1>2. PutRight
  <2> SUFFICES ASSUME NEW p \in Sold PROVE products[p].cat \in PutInto(p)
    BY DEF PutRight
  <2>1. p \in Products /\ products[p] # NoProduct
    BY DEF Sold
  <2>2. \E r \in InitialRows : r.product = p
    BY <2>1 DEF Init
  <2> DEFINE q == CHOOSE r \in InitialRows : r.product = p
  <2>3. q \in InitialRows /\ q.product = p
    BY <2>2
  <2>4. products[p].cat = q.category
    BY <2>1, <2>2 DEF Init
  <2> HIDE DEF q
  <2>5. q.category \in Categories
    BY <2>3, PromotionConstants DEF Row
  <2> QED BY <2>3, <2>4, <2>5 DEF PutInto
<1>3. \A i \in DOMAIN promotions : promotions[i].target \in Promotable
  BY <1>1 DEF Init, Promotable, IInv, TypeOK, PromotionRow
<1>4. \A c \in Clients : requests[c] = Idle
  BY DEF Init
<1> QED BY <1>2, <1>3, <1>4
        DEF Init, BumpInv, Settled, RefersPromotable, KeptTargets, KeepsTarget, KeptBumps, KeepsBump,
            Announced, Idle

\* If promotions are re-targeted one at a time and products that can be promoted stay
\* in their categories, then whenever no request is under way and no job unfinished,
\* every listing whose prices a write has changed has had its version bumped since.
THEOREM PriceChangesAreAnnounced ==
  ASSUME AssignOneAtATime, PromotedStayPut
  PROVE  Spec => []PriceChangesAreBumped
<1>1. IInv /\ BumpInv /\ [Next]_vars => BumpInv'
  <2> SUFFICES ASSUME IInv, BumpInv, [Next]_vars PROVE BumpInv'
    OBVIOUS
  <2>1. TypeOK /\ References /\ Settled /\ KeptTargets /\ KeptBumps
    BY DEF IInv, BumpInv
  <2> QED BY <2>1, StepKeepsSettled, StepKeepsTargets, StepKeepsBumps, StepKeepsAnnounced DEF BumpInv
<1>2. BumpInv => PriceChangesAreBumped
  BY DEF BumpInv, Announced, WillBump, PriceChangesAreBumped, Idle
<1> QED BY <1>1, <1>2, InitIsAnnounced, AlwaysSafe, PTL DEF Spec
=============================================================================
