--------------------------- MODULE MCCatalogUpsert ---------------------------
(***************************************************************************)
(* Values of the constants of CatalogUpsert for TLC: two chunks of an old  *)
(* job and one of a newer job, every content over a few skus, categories   *)
(* and prices.                                                             *)
(***************************************************************************)
EXTENDS CatalogUpsert, TLC

CONSTANTS t1, t2, books, toys

TwoTxns == {t1, t2}
BothCategories == {books, toys}
OnlyToys == {toys}
Price3 == {3}
Limit == 4

ThreeChunks == {"a0", "a1", "b0"}
Seqs == [c \in ThreeChunks |-> IF c = "b0" THEN 2 ELSE 1]

R(no, sku, cat, price, ok) ==
  [no |-> no, sku |-> sku, cat |-> cat, price |-> price, ok |-> ok]

\* The first chunk may repeat a sku, every chunk meets another in a product, and
\* the newer job may move a product to another category or price.
AllContents ==
  {[c \in ThreeChunks |-> CASE c = "a0" -> {R(1, 1, books, 1, TRUE), R(2, s, k, 2, ok)}
                            [] c = "a1" -> {R(3, s, m, 1, TRUE)}
                            [] c = "b0" -> {R(1, 1, n, p, TRUE), R(2, 2, books, 1, TRUE)}] :
     s \in Skus, k, m, n \in BothCategories, p \in {1, 2}, ok \in BOOLEAN}
=============================================================================
