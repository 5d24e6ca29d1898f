------------------------------ MODULE Promotions ------------------------------
(***************************************************************************)
(* Everything that writes a price: the promotion requests of               *)
(* promotions/service.ts, createProduct, and the rows and the completion   *)
(* of an ingest, over the tables products and promotions.                  *)
(*                                                                         *)
(* A request takes one step per statement it awaits; between two of them   *)
(* the other requests and the ingest go on.  No write reads the clock, so  *)
(* there is none here: what is said of prices is said of every instant.    *)
(* unbumped holds the categories whose listing is not any more, at some    *)
(* instant, what it was when their version was last bumped.                *)
(***************************************************************************)
EXTENDS EffectivePrice, Pricing

CONSTANTS
  Clients,       \* requests that may run at the same time
  Assigners,     \* those of them that may re-target a promotion
  Targets,       \* what promotions are re-targeted to
  Offers,        \* what promotions are created with: target, type and value
  Windows,       \* from and to
  Feed,          \* rows the ingest may apply: product, cost, category, wellFormed
  InitialRows,   \* the rows that the first products came from
  InitialPromotions,  \* the promotions there may be at first
  NewProducts,   \* products that may be created through the API: product, cat, base
  MaxTime,       \* bound on the instants
  MaxRequests, MaxRows   \* bounds on what is begun

VARIABLES
  products,      \* category and base price, or NoProduct
  promotions,    \* the rows, in the order of their ids
  requests,      \* what each client awaits
  touched,       \* changed_category_ids of the chunks of a job not finished yet
  unbumped,      \* categories with a price change that no bump followed
  source,        \* the row of the feed a product was last written by
  begun          \* requests and rows so far

vars == <<products, promotions, requests, touched, unbumped, source, begun>>

Times == 0 .. MaxTime
Scopes == Products \cup Categories
Row == [product : Products, cost : Nat, category : Categories, wellFormed : BOOLEAN]

\* What the CHECK constraints of promotions admit.
PromotionRow ==
  {r \in [target : Scopes, type : {"PERCENTAGE", "FIXED"}, value : Nat \ {0},
          from : Nat, to : Nat, status : {"ACTIVE", "CANCELLED"}] :
     (r.type = "PERCENTAGE" => r.value <= 10000) /\ r.from < r.to}

ASSUME PromotionConstants ==
  /\ Assigners \subseteq Clients /\ Targets \subseteq Scopes
  /\ Offers \subseteq [target : Scopes, type : {"PERCENTAGE", "FIXED"}, value : Nat \ {0}]
  /\ \A o \in Offers : o.type = "PERCENTAGE" => o.value <= 10000
  /\ Windows \subseteq {w \in [from : Nat, to : Nat] : w.from < w.to}
  /\ Feed \subseteq Row /\ InitialRows \subseteq Row
  /\ NewProducts \subseteq [product : Products, cat : Categories, base : Nat]
  /\ MaxTime \in Nat /\ MaxRequests \in Nat /\ MaxRows \in Nat
ASSUME NoProductAssumption == NoProduct \notin [cat : Categories, base : Nat]

Promotion(offer, w) ==
  [target |-> offer.target, type |-> offer.type, value |-> offer.value,
   from |-> w.from, to |-> w.to, status |-> "ACTIVE"]

Idle == [at |-> "idle"]

-----------------------------------------------------------------------------
(* The constraints of 0001_init.sql.                                         *)

Overlap(a, b) == a.from < b.to /\ b.from < a.to

\* Mutant of Excluded: only an INSERT is checked.
ExcludedInsert(rows, i, row) ==
  /\ i = 0 /\ row.status = "ACTIVE"
  /\ \E j \in DOMAIN rows :
       rows[j].status = "ACTIVE" /\ rows[j].target = row.target /\ Overlap(rows[j], row)

\* no_overlapping_product_promos and no_overlapping_category_promos, for the
\* row that an INSERT or UPDATE leaves at position i.
Excluded(rows, i, row) ==
  /\ row.status = "ACTIVE"
  /\ \E j \in DOMAIN rows \ {i} :
       rows[j].status = "ACTIVE" /\ rows[j].target = row.target /\ Overlap(rows[j], row)

\* The first rows are ones an ingest and earlier requests could have written.
ASSUME InitialRowsAssumption ==
  /\ \A r \in InitialRows : RowPrice(r) # Rejected
  /\ \A q, r \in InitialRows : q.product = r.product => q = r
ASSUME InitialPromotionsAssumption ==
  /\ InitialPromotions \subseteq Seq(PromotionRow)
  /\ \A rows \in InitialPromotions : \A i \in DOMAIN rows :
       /\ ~Excluded(rows, i, rows[i])
       /\ rows[i].target \in Products => \E r \in InitialRows : r.product = rows[i].target

-----------------------------------------------------------------------------
(* Bookkeeping of what is not bumped yet.                                    *)

Changed(newProducts, newPromotions) ==
  {c \in Categories : \E t \in Times :
     Listing(products, promotions, c, t) # Listing(newProducts, newPromotions, c, t)}

Write(newProducts, newPromotions) ==
  /\ products' = newProducts
  /\ promotions' = newPromotions
  /\ unbumped' = unbumped \cup Changed(newProducts, newPromotions)

Awaits(c, request) == requests' = [requests EXCEPT ![c] = request]

Begin(c) ==
  /\ requests[c] = Idle
  /\ begun.requests < MaxRequests
  /\ begun' = [begun EXCEPT !.requests = @ + 1]

\* A rejected request (400, 404, 409) ends without a write.
Reject(c) == Awaits(c, Idle) /\ UNCHANGED <<products, promotions, unbumped>>

-----------------------------------------------------------------------------
(* assertProductScopeAllowed: the product exists and a FIXED value is below  *)
(* its base price, both at the time of this read.                            *)

ScopeAllowed(p, promotion) ==
  /\ products[p] # NoProduct
  /\ promotion.type = "FIXED" => promotion.value < products[p].base

(* create *)
StartCreate(c, offer, w) ==
  /\ Begin(c)
  /\ Awaits(c, IF offer.target \in Products
                 THEN [at |-> "createCheck", row |-> Promotion(offer, w), bump |-> {}]
                 ELSE [at |-> "insert", row |-> Promotion(offer, w), bump |-> {offer.target}])
  /\ UNCHANGED <<products, promotions, touched, unbumped, source>>

CreateCheck(c) ==
  /\ requests[c].at = "createCheck"
  /\ LET row == requests[c].row
     IN  IF ScopeAllowed(row.target, row)
           THEN Awaits(c, [at |-> "insert", row |-> row, bump |-> {products[row.target].cat}])
           ELSE Awaits(c, Idle)
  /\ UNCHANGED <<products, promotions, touched, unbumped, source, begun>>

Insert(c) ==
  /\ requests[c].at = "insert"
  /\ IF Excluded(promotions, 0, requests[c].row)
       THEN Reject(c)
       ELSE /\ Write(products, Append(promotions, requests[c].row))
            /\ Awaits(c, [at |-> "bump", bump |-> requests[c].bump])
  /\ UNCHANGED <<touched, source, begun>>

-----------------------------------------------------------------------------
\* What is left after the write: the category of a product is still to be read.
BumpFor(target, bump) ==
  IF target \in Categories THEN [at |-> "bump", bump |-> bump \cup {target}]
  ELSE [at |-> "categoryOf", product |-> target, bump |-> bump]

(* cancel: a cancelled row is returned as it is, and nothing is bumped. *)
Cancel(c, i) ==
  /\ Begin(c)
  /\ promotions[i].status # "CANCELLED"
  /\ Write(products, [promotions EXCEPT ![i].status = "CANCELLED"])
  /\ Awaits(c, BumpFor(promotions[i].target, {}))
  /\ UNCHANGED <<touched, source>>

(* assign *)
AssignFind(c, i, target) ==
  /\ Begin(c)
  /\ promotions[i].status # "CANCELLED"
  /\ Awaits(c, [at |-> IF target \in Products THEN "assignCheck" ELSE "update",
                id |-> i, existing |-> promotions[i], target |-> target,
                bump |-> IF target \in Products THEN {} ELSE {target}])
  /\ UNCHANGED <<products, promotions, touched, unbumped, source>>

AssignCheck(c) ==
  /\ requests[c].at = "assignCheck"
  /\ LET r == requests[c]
     IN  IF ScopeAllowed(r.target, r.existing)
           THEN Awaits(c, [r EXCEPT !.at = "update", !.bump = {products[r.target].cat}])
           ELSE Awaits(c, Idle)
  /\ UNCHANGED <<products, promotions, touched, unbumped, source, begun>>

\* Mutant of AssignUpdate: the whole row that was read is written back.
AssignSave(c) ==
  /\ requests[c].at = "update"
  /\ LET r == requests[c]
         row == [r.existing EXCEPT !.target = r.target]
     IN  IF Excluded(promotions, r.id, row)
           THEN Reject(c)
           ELSE /\ Write(products, [promotions EXCEPT ![r.id] = row])
                /\ Awaits(c, BumpFor(r.existing.target, r.bump))
  /\ UNCHANGED <<touched, source, begun>>

\* Mutant of AssignUpdate: only the category the promotion lands in is bumped.
AssignBumpNew(c) ==
  /\ requests[c].at = "update"
  /\ LET r == requests[c]
         row == [promotions[r.id] EXCEPT !.target = r.target]
     IN  IF Excluded(promotions, r.id, row)
           THEN Reject(c)
           ELSE /\ Write(products, [promotions EXCEPT ![r.id] = row])
                /\ Awaits(c, [at |-> "bump", bump |-> r.bump])
  /\ UNCHANGED <<touched, source, begun>>

\* The UPDATE names the id only: it writes whatever the row has become meanwhile.
AssignUpdate(c) ==
  /\ requests[c].at = "update"
  /\ LET r == requests[c]
         row == [promotions[r.id] EXCEPT !.target = r.target]
     IN  IF Excluded(promotions, r.id, row)
           THEN Reject(c)
           ELSE /\ Write(products, [promotions EXCEPT ![r.id] = row])
                /\ Awaits(c, BumpFor(r.existing.target, r.bump))
  /\ UNCHANGED <<touched, source, begun>>

CategoryOf(c) ==
  /\ requests[c].at = "categoryOf"
  /\ Awaits(c, [at |-> "bump", bump |-> requests[c].bump \cup {products[requests[c].product].cat}])
  /\ UNCHANGED <<products, promotions, touched, unbumped, source, begun>>

Bump(c) ==
  /\ requests[c].at = "bump"
  /\ unbumped' = unbumped \ requests[c].bump
  /\ Awaits(c, Idle)
  /\ UNCHANGED <<products, promotions, touched, source, begun>>

-----------------------------------------------------------------------------
(* createProduct; an existing sku or a missing category is refused. *)
CreateProduct(c, new) ==
  /\ Begin(c)
  /\ products[new.product] = NoProduct
  /\ Write([products EXCEPT ![new.product] = [cat |-> new.cat, base |-> new.base]], promotions)
  /\ Awaits(c, [at |-> "bump", bump |-> {new.cat}])
  /\ UNCHANGED <<touched, source>>

\* The categories an applied row reports: its own when the price is another or
\* new, its own and the previous one when the product moves.
Reported(p, new) ==
  LET old == products[p]
  IN  IF old = NoProduct THEN {new.cat}
      ELSE (IF old.base # new.base THEN {new.cat} ELSE {})
           \cup (IF old.cat # new.cat THEN {new.cat, old.cat} ELSE {})

\* Mutant of IngestRow: a row that has no price is saved all the same.
IngestUnpriced(row) ==
  LET new == [cat |-> row.category, base |-> RowPrice(row)]
  IN  /\ begun.rows < MaxRows
      /\ Write([products EXCEPT ![row.product] = new], promotions)
      /\ touched' = touched \cup Reported(row.product, new)
      /\ source' = [source EXCEPT ![row.product] = {row}]
      /\ begun' = [begun EXCEPT !.rows = @ + 1]
      /\ UNCHANGED requests

(* A row of a chunk is applied; that the newest wins is CatalogUpsert's. *)
IngestRow(row) ==
  LET new == [cat |-> row.category, base |-> RowPrice(row)]
  IN  /\ begun.rows < MaxRows
      /\ RowPrice(row) # Rejected
      /\ Write([products EXCEPT ![row.product] = new], promotions)
      /\ touched' = touched \cup Reported(row.product, new)
      /\ source' = [source EXCEPT ![row.product] = {row}]
      /\ begun' = [begun EXCEPT !.rows = @ + 1]
      /\ UNCHANGED requests

(* The job of those rows is finished: afterJobFinished bumps what they touched. *)
IngestFinished ==
  /\ touched # {}
  /\ unbumped' = unbumped \ touched
  /\ touched' = {}
  /\ UNCHANGED <<products, promotions, requests, source, begun>>

-----------------------------------------------------------------------------
Init ==
  /\ products = [p \in Products |->
       IF \E r \in InitialRows : r.product = p
         THEN LET r == CHOOSE q \in InitialRows : q.product = p
              IN  [cat |-> r.category, base |-> RowPrice(r)]
         ELSE NoProduct]
  /\ source = [p \in Products |-> {r \in InitialRows : r.product = p}]
  /\ promotions \in InitialPromotions
  /\ requests = [c \in Clients |-> Idle]
  /\ touched = {} /\ unbumped = {}
  /\ begun = [requests |-> 0, rows |-> 0]

Request(c) ==
  \/ \E offer \in Offers, w \in Windows : StartCreate(c, offer, w)
  \/ CreateCheck(c) \/ Insert(c)
  \/ \E i \in DOMAIN promotions : Cancel(c, i)
  \/ /\ c \in Assigners
     /\ \E i \in DOMAIN promotions, target \in Targets : AssignFind(c, i, target)
  \/ AssignCheck(c) \/ AssignUpdate(c)
  \/ CategoryOf(c) \/ Bump(c)
  \/ \E new \in NewProducts : CreateProduct(c, new)

Next ==
  \/ \E c \in Clients : Request(c)
  \/ \E row \in Feed : IngestRow(row)
  \/ IngestFinished

Spec == Init /\ [][Next]_vars

-----------------------------------------------------------------------------
(* Properties.                                                               *)

RequestState ==
  {Idle}
  \cup [at : {"createCheck", "insert"}, row : PromotionRow, bump : SUBSET Categories]
  \cup [at : {"assignCheck", "update"}, id : Nat, existing : PromotionRow, target : Scopes,
        bump : SUBSET Categories]
  \cup [at : {"categoryOf"}, product : Products, bump : SUBSET Categories]
  \cup [at : {"bump"}, bump : SUBSET Categories]

TypeOK ==
  /\ products \in [Products -> [cat : Categories, base : Nat] \cup {NoProduct}]
  /\ promotions \in Seq(PromotionRow)
  /\ requests \in [Clients -> RequestState]
  /\ touched \in SUBSET Categories /\ unbumped \in SUBSET Categories
  /\ source \in [Products -> SUBSET Row]
  /\ begun \in [requests : 0 .. MaxRequests, rows : 0 .. MaxRows]

Sold == {p \in Products : products[p] # NoProduct}

\* The lateral join takes the first row with LIMIT 1: whatever requests created,
\* re-targeted and cancelled, at no instant may it find two to choose from.
PriceIsDetermined ==
  \A p \in Sold, t \in Times :
    \A i, j \in First(promotions, p, products[p].cat, t) : i = j

\* An effective price is never negative and never above the base price, also when
\* the ingest lowers the price after the FIXED rule was checked, and for the
\* products of a category, which the rule does not look at.
PriceWithinBounds ==
  \A p \in Sold, t \in Times : PriceAt(promotions, p, products[p], t) \in 0 .. products[p].base

\* The promotion list says ACTIVE of exactly the promotions that pricing applies,
\* also at the first and at the last instant of a window.
ListAgreesWithPricing ==
  \A p \in Sold, t \in Times : \A i \in DOMAIN promotions :
    i \in Applicable(promotions, p, products[p].cat, t) <=>
      EffectiveStatus(promotions[i], t) = "ACTIVE" /\ promotions[i].target \in {p, products[p].cat}

\* When no request is under way and no job unfinished, every listing whose prices
\* a write has changed has had its version bumped after that write.
PriceChangesAreBumped ==
  touched = {} /\ (\A c \in Clients : requests[c] = Idle) => unbumped = {}

\* The price a product has from the ingest is the price pricing-rules.ts describes
\* for the row it came from; a row that would be sold below its cost is not saved.
PricedByTheRules ==
  \A p \in Sold : \A row \in source[p] : IsPriceOf(products[p].base, row)

\* A cancelled promotion never comes back, not even by an assign that read the
\* row while it was active.
CancelIsFinal ==
  [][\A i \in DOMAIN promotions :
       promotions[i].status = "CANCELLED" => promotions'[i].status = "CANCELLED"]_vars
=============================================================================
