----------------------------- MODULE ProductsView -----------------------------
(***************************************************************************)
(* The product table and the product drawer of ui/app.js, over the keyset  *)
(* pages of products/service.ts (listProducts, readPage) and their cursors *)
(* (products/cursor.ts), while prices change.                              *)
(*                                                                         *)
(* Pages come from the versioned cache.  What that means is FreshRead of   *)
(* VersionedCache: a page is never older than the last bump of its scope   *)
(* before it was asked for, nor than the TTL, and may be as old as that.   *)
(***************************************************************************)
EXTENDS UiRequests

CONSTANTS
  Products,      \* naturals, in the order of the ids
  CategoryOf,    \* [Products -> a category]
  Categories, AllCategories,    \* AllCategories: no filter
  Prices,        \* effective prices, naturals
  FirstPrice,    \* [Products -> Prices] to begin with
  PageSize

VARIABLES
  priced,        \* what the prices have been; the last are those of now
  oldest,        \* of each scope of the cache, the number of the oldest prices it may have
  unannounced,   \* the products repriced and not bumped since, within the TTL; history
  moved,         \* those that were unannounced when the table was last reset or have been
                 \* repriced since; history
  filter,        \* order and category
  cursor, rows,  \* rows: <<effective price, id>> as shown
  more,          \* the "Load more" button
  drawer

ASSUME ProductsAssumption ==
  /\ Products \subseteq Nat /\ IsFiniteSet(Products)
  /\ Prices \subseteq Nat /\ FirstPrice \in [Products -> Prices]
ASSUME PageSizeAssumption == PageSize \in Nat \ {0}
ASSUME CategoriesAssumption == CategoryOf \in [Products -> Categories]

catalogVars == <<priced, oldest, unannounced>>
listVars == <<moved, filter, cursor, rows, more>>
productVars == <<catalogVars, listVars, drawer>>

\* Of cached listings: one for each category, and ALL_SCOPE.
Scopes == Categories \cup {AllCategories}

Filters == [order : {"asc", "desc"}, category : Scopes]

\* The sort key and the listing it belongs to (encodeCursor).
Cursors == [key : Nat \X Nat, listing : Filters]

ASSUME NothingAssumption == Nothing \notin Cursors

-----------------------------------------------------------------------------
(* The server.                                                               *)

Now == Len(priced)

Key(prices, p) == <<prices[p], p>>

\* (effective_price, id) < (effective_price, id), row values.
Less(k, l) == k[1] < l[1] \/ (k[1] = l[1] /\ k[2] < l[2])

\* Mutant of Follows: only the price is compared with the cursor.
FollowsByPrice(order, l, k) == IF order = "asc" THEN k[1] < l[1] ELSE l[1] < k[1]

\* What a page continues with: row-value comparison over the full sort key.
Follows(order, l, k) == IF order = "asc" THEN Less(k, l) ELSE Less(l, k)

After(order, k, from) == from = Nothing \/ Follows(order, k, from.key)

Matching(f) == {p \in Products : f.category \in {AllCategories, CategoryOf[p]}}

\* ORDER BY: the keys in S, from the first to the last.
Sorted(S, order) ==
  CHOOSE s \in Bijection(1 .. Cardinality(S), S) :
    \A i, j \in DOMAIN s : i < j => IF order = "asc" THEN Less(s[i], s[j]) ELSE Less(s[j], s[i])

Found(prices, f, from) == {k \in {Key(prices, p) : p \in Matching(f)} : After(f.order, k, from)}

\* readPage: limit + 1 rows tell whether there is a next page.
Page(prices, f, from) ==
  LET sorted == Sorted(Found(prices, f, from), f.order)
  IN  IF Len(sorted) > PageSize
        THEN [items |-> SubSeq(sorted, 1, PageSize), next |-> [key |-> sorted[PageSize], listing |-> f]]
        ELSE [items |-> sorted, next |-> Nothing]

\* decodeCursor: a cursor of another listing is refused with 400.
Refused(f, from) == from # Nothing /\ from.listing # f

\* listProducts: the page, of any age that the cache allows; or the refusal, Nothing.
ServePage(i) ==
  /\ Unserved(i, {"page"})
  /\ LET f == inflight[i].arg.filter
         from == inflight[i].arg.from
     IN  IF Refused(f, from) THEN Reply(i, Nothing)
         ELSE \E n \in oldest[f.category] .. Now : Reply(i, Page(priced[n], f, from))
  /\ NoFault
  /\ UNCHANGED <<view, stale, productVars>>

\* A promotion, an ingest or the clock changes a product's effective price.
Reprice(p, v) ==
  /\ Now <= session.repricings
  /\ v # priced[Now][p]
  /\ priced' = Append(priced, [priced[Now] EXCEPT ![p] = v])
  /\ unannounced' = unannounced \cup {p}
  /\ moved' = moved \cup {p}
  /\ UNCHANGED <<shell, oldest, filter, cursor, rows, more, drawer>>

\* Mutant of Bump: without ALL_SCOPE.
BumpCategory(c) ==
  /\ oldest' = [oldest EXCEPT ![c] = Now]
  /\ unannounced' = {p \in unannounced : CategoryOf[p] # c}
  /\ UNCHANGED <<shell, priced, listVars, drawer>>

\* versions.bump, by whoever changes a price and notices.
Bump(c) ==
  /\ oldest' = [oldest EXCEPT ![c] = Now, ![AllCategories] = Now]
  /\ unannounced' = {p \in unannounced : CategoryOf[p] # c}
  /\ UNCHANGED <<shell, priced, listVars, drawer>>

\* LIST_TTL_S after the n-th prices came: whatever was cached before them has expired.
Expire(n) ==
  /\ oldest' = [s \in Scopes |-> IF oldest[s] < n THEN n ELSE oldest[s]]
  /\ unannounced' = {p \in unannounced : \E m \in n .. Now : priced[m][p] # priced[Now][p]}
  /\ UNCHANGED <<shell, priced, listVars, drawer>>

-----------------------------------------------------------------------------
(* The table.                                                                *)

\* loadProducts({reset: true}) with filter f, after the requests in base.
ResetTable(base, f) ==
  /\ inflight' = Append(Superseded({"page"}, base), Request("page", [reset |-> TRUE, filter |-> f, from |-> Nothing]))
  /\ cursor' = Nothing /\ rows' = <<>>
  /\ more' = [hidden |-> TRUE, disabled |-> TRUE]
  /\ moved' = unannounced

SetFilter(f) ==
  /\ User
  /\ view = "products" /\ ~drawer.open /\ f # filter
  /\ filter' = f
  /\ ResetTable(inflight, f)
  /\ UNCHANGED <<view, stale, catalogVars, drawer>>

\* loadProducts({reset: false}); only the order and the filter supersede it.
LoadMore ==
  /\ User
  /\ view = "products" /\ ~drawer.open /\ ~more.hidden /\ ~more.disabled
  /\ more' = [more EXCEPT !.disabled = TRUE]
  /\ inflight' = Append(inflight, Request("page", [reset |-> FALSE, filter |-> filter, from |-> cursor]))
  /\ UNCHANGED <<view, stale, catalogVars, moved, filter, cursor, rows, drawer>>

\* Mutant of AnswerPage: the answer to any request is shown.
AnswerAnyPage(i) ==
  /\ Served(i, {"page"}) /\ inflight[i].reply # Nothing
  /\ inflight' = Others(i)
  /\ rows' = IF inflight[i].arg.reset THEN inflight[i].reply.items ELSE rows \o inflight[i].reply.items
  /\ cursor' = inflight[i].reply.next
  /\ stale' = FALSE
  /\ more' = [hidden |-> cursor' = Nothing, disabled |-> FALSE]
  /\ NoFault
  /\ UNCHANGED <<view, catalogVars, moved, filter, drawer>>

\* A page is shown if it is current; a refusal, which can only be that of a cursor, is
\* reported.  finally enables the button in any case.
AnswerPage(i) ==
  /\ Served(i, {"page"})
  /\ inflight' = Others(i)
  /\ LET page == inflight[i].reply
     IN  IF inflight[i].current /\ page # Nothing
           THEN /\ rows' = IF inflight[i].arg.reset THEN page.items ELSE rows \o page.items
                /\ cursor' = page.next
                /\ stale' = FALSE
                /\ more' = [hidden |-> page.next = Nothing, disabled |-> FALSE]
           ELSE /\ more' = [more EXCEPT !.disabled = FALSE]
                /\ UNCHANGED <<rows, cursor, stale>>
  /\ NoFault
  /\ UNCHANGED <<view, catalogVars, moved, filter, drawer>>

FailPage(i) ==
  /\ i \in InFlight({"page"}) /\ Fails(i)
  /\ inflight' = Others(i)
  /\ rows' = IF inflight[i].current /\ inflight[i].arg.reset THEN <<>> ELSE rows
  /\ more' = [more EXCEPT !.disabled = FALSE]
  /\ UNCHANGED <<view, stale, catalogVars, moved, filter, cursor, drawer>>

-----------------------------------------------------------------------------
(* The drawer.                                                               *)

ClosedDrawer == [open |-> FALSE, asked |-> Nothing, shown |-> Nothing]

\* openProduct: a click on a row.
OpenProduct(p) ==
  /\ User
  /\ view = "products" /\ ~drawer.open /\ \E i \in DOMAIN rows : rows[i][2] = p
  /\ drawer' = [open |-> TRUE, asked |-> p, shown |-> Nothing]
  /\ inflight' = Append(inflight, Request("detail", p))
  /\ UNCHANGED <<view, stale, catalogVars, listVars>>

CloseDrawer ==
  /\ User
  /\ drawer.open
  /\ drawer' = [drawer EXCEPT !.open = FALSE]
  /\ UNCHANGED <<view, stale, inflight, catalogVars, listVars>>

\* Whatever product the drawer was opened for meanwhile.
AnswerProduct(i) ==
  /\ i \in InFlight({"detail"})
  /\ inflight' = Others(i)
  /\ drawer' = [drawer EXCEPT !.shown = inflight[i].arg]
  /\ NoFault
  /\ UNCHANGED <<view, stale, catalogVars, listVars>>

FailProduct(i) ==
  /\ i \in InFlight({"detail"}) /\ Fails(i)
  /\ inflight' = Others(i)
  /\ drawer' = [drawer EXCEPT !.open = FALSE]
  /\ UNCHANGED <<view, stale, catalogVars, listVars>>

-----------------------------------------------------------------------------
InitProducts ==
  /\ priced = <<FirstPrice>> /\ oldest = [s \in Scopes |-> 1]
  /\ unannounced = {} /\ moved = {}
  /\ filter = [order |-> "asc", category |-> AllCategories]
  /\ cursor = Nothing /\ rows = <<>>
  /\ more = [hidden |-> TRUE, disabled |-> FALSE]
  /\ drawer = ClosedDrawer

UserOfProducts ==
  \/ \E f \in Filters : SetFilter(f)
  \/ LoadMore \/ CloseDrawer
  \/ \E p \in Products : OpenProduct(p)

AnswersOfProducts ==
  \E i \in DOMAIN inflight : ServePage(i) \/ AnswerPage(i) \/ AnswerProduct(i)

ServerOfProducts ==
  \/ \E p \in Products, v \in Prices : Reprice(p, v)
  \/ \E c \in Categories : Bump(c)
  \/ \E n \in 1 .. Now : Expire(n)

FaultsOfProducts == \E i \in DOMAIN inflight : FailPage(i) \/ FailProduct(i)

-----------------------------------------------------------------------------
Keys == Prices \X Products

\* Whatever answers come late, the table never shows a row of another filter than the
\* one that is set, nor out of its order to a user who waits; and every page in flight
\* was asked for with a cursor of its own listing, so that the server refuses none.
RowsAreOfTheFilter ==
  /\ \A i \in DOMAIN rows : rows[i][2] \in Matching(filter)
  /\ \A i, j \in DOMAIN rows : session.patient /\ i < j => Follows(filter.order, rows[j], rows[i])
  /\ \A i \in CurrentInFlight({"page"}) : inflight[i].arg.filter = filter
  /\ \A i \in InFlight({"page"}) : ~Refused(inflight[i].arg.filter, inflight[i].arg.from)

\* "Rows that move elsewhere in the ordering cannot shift the page; only a product
\* whose own effective price crosses the boundary mid-walk can be missed or repeated"
\* (ADR 5).  Of cached pages this is true of a product that has not been repriced since
\* the walk began, and whose last change before it had been announced, or was older than
\* the TTL: when the last page has come it is shown exactly once.  (A user who does not
\* wait can have one page twice: an answer that is superseded enables the button while
\* a page is in flight.)
UnmovedShownOnce ==
  session.patient /\ rows # <<>> /\ cursor = Nothing /\ CurrentInFlight({"page"}) = {} =>
    \A p \in Matching(filter) \ moved : Cardinality({i \in DOMAIN rows : rows[i][2] = p}) = 1
=============================================================================
