------------------------- MODULE CatalogUpsertProofs -------------------------
(***************************************************************************)
(* Proofs about CatalogUpsert, for every number of transactions, chunks,   *)
(* jobs, skus and categories, and every content of the chunks.             *)
(***************************************************************************)
EXTENDS CatalogUpsert, WellFoundedInduction, TLAPS

\* The natural numbers are well founded: a set of them has a least element.
LEMMA LeastElement ==
  ASSUME NEW T, T \subseteq Nat, T # {}
  PROVE  \E x \in T : \A y \in T : x <= y
<1>1. PICK x \in T : \A y \in T : ~(<<y, x>> \in OpToRel(<, Nat))
  BY NatLessThanWellFounded, WFMin
<1>2. ASSUME NEW y \in T PROVE x <= y
  <2>1. <<y, x>> \notin OpToRel(<, Nat)
    BY <1>1
  <2>2. ~(y < x)
    BY <2>1 DEF OpToRel
  <2> QED BY <2>2
<1> QED BY <1>2

\* A set of numbers up to n has a greatest element.
LEMMA GreatestElement ==
  ASSUME NEW n \in Nat, NEW T, T \subseteq 0 .. n, T # {}
  PROVE  \E x \in T : \A y \in T : y <= x
<1> DEFINE U == {n - y : y \in T}
<1>1. U \subseteq Nat /\ U # {}
  <2>1. ASSUME NEW y \in T PROVE n - y \in Nat
    OBVIOUS
  <2>2. U \subseteq Nat
    BY <2>1 DEF U
  <2>3. U # {}
    BY DEF U
  <2> QED BY <2>2, <2>3
<1>2. PICK u \in U : \A v \in U : u <= v
  BY <1>1, LeastElement
<1>3. PICK x \in T : u = n - x
  BY <1>2 DEF U
<1>4. ASSUME NEW y \in T PROVE y <= x
  <2>1. n - x <= n - y
    BY <1>2, <1>3 DEF U
  <2> QED BY <2>1
<1> QED BY <1>4

-----------------------------------------------------------------------------
(***************************************************************************)
(* The ordering key and the batch.                                         *)
(***************************************************************************)
\* The key of a file row is positive, and within a chunk it grows with the row.
LEMMA SourceSeqOrder ==
  ASSUME NEW c \in Chunks, NEW m \in RowNo, NEW n \in RowNo
  PROVE  /\ SourceSeq(c, m) \in Nat \ {0}
         /\ m <= n => SourceSeq(c, m) <= SourceSeq(c, n)
<1>1. JobSeq[c] \in Nat /\ RowLimit \in Nat
  BY JobSeqAssumption, RowLimitAssumption
<1>2. JobSeq[c] * RowLimit \in Nat
  BY <1>1
<1>3. m \in Nat \ {0} /\ n \in Nat
  BY <1>1 DEF RowNo
<1> QED BY <1>2, <1>3 DEF SourceSeq

\* Deduplication drops no sku and keeps the highest row of each.
LEMMA BatchCovers ==
  ASSUME content \in [Chunks -> SUBSET Row], NEW c \in Chunks, NEW r \in Valid(c)
  PROVE  \E b \in Batch(c) : b.sku = r.sku /\ r.no <= b.no
<1> DEFINE T == {q.no : q \in {v \in Valid(c) : v.sku = r.sku}}
<1>1. Valid(c) \subseteq Row
  BY DEF Valid
<1>2. T \subseteq 0 .. RowLimit /\ T # {}
  <2>1. ASSUME NEW q \in Valid(c) PROVE q.no \in 0 .. RowLimit
    BY <1>1, RowLimitAssumption DEF Row, RowNo
  <2> QED BY <2>1 DEF T
<1>3. PICK x \in T : \A y \in T : y <= x
  BY <1>2, GreatestElement, RowLimitAssumption
<1>4. PICK b \in Valid(c) : b.sku = r.sku /\ b.no = x
  BY <1>3 DEF T
<1>5. \A q \in Valid(c) : q.sku = r.sku => q.no <= b.no
  BY <1>3, <1>4 DEF T
<1> QED BY <1>4, <1>5 DEF Batch

-----------------------------------------------------------------------------
(***************************************************************************)
(* Types.                                                                  *)
(***************************************************************************)
\* The upsert leaves a product row.
LEMMA UpsertedType ==
  ASSUME TypeOK, NEW c \in Chunks, NEW s \in Skus
  PROVE  Upserted(c, s) \in Product
<1> DEFINE newer == {r \in Batch(c) : r.sku = s /\ SourceSeq(c, r.no) > products[s].seq}
<1>1. newer \subseteq Row
  BY DEF TypeOK, newer, Batch, Valid
<1>2. products[s] \in Product
  BY DEF TypeOK
<1>3. ASSUME NEW r \in newer PROVE Stored(c, r) \in Product
  BY <1>1, SourceSeqOrder DEF Stored, Product, Row
<1>4. CASE newer = {}
  BY <1>2, <1>4 DEF Upserted, newer
<1>5. CASE newer # {}
  <2>1. (CHOOSE r \in newer : TRUE) \in newer
    BY <1>5
  <2>2. Upserted(c, s) = Stored(c, CHOOSE r \in newer : TRUE)
    BY <1>5 DEF Upserted, newer
  <2> QED BY <1>3, <2>1, <2>2
<1> QED BY <1>4, <1>5

\* What a write reports are categories.
LEMMA TouchedType ==
  ASSUME NEW old \in Product, NEW new \in Product, new.cat # NoCategory
  PROVE  Touched(old, new) \subseteq Categories
<1>1. new.cat \in Categories
  BY DEF Product
<1>2. old.cat \in Categories \cup {NoCategory}
  BY DEF Product
<1> QED BY <1>1, <1>2 DEF Touched

\* Types hold at the start.
LEMMA InitType == Init => TypeOK
<1> SUFFICES ASSUME Init PROVE TypeOK
  OBVIOUS
<1>1. content \in [Chunks -> SUBSET Row] /\ FileRows(content)
  BY ContentsAssumption DEF Init
<1>2. categories \subseteq Categories
  BY CategoryAssumption DEF Init
<1>3. products \in [Skus -> Product]
  BY DEF Init, NoProduct, Product
<1>4. txns \in [Txns -> TxnState]
  BY ChunksAssumption DEF Init, IdleTxn, TxnState
<1> QED BY <1>1, <1>2, <1>3, <1>4 DEF Init, TypeOK

\* One lemma per action: each keeps the types.
LEMMA BeginType ==
  ASSUME TypeOK, NEW t \in Txns, NEW c \in Chunks, Begin(t, c)
  PROVE  TypeOK'
<1>1. [IdleTxn(c) EXCEPT !.phase = "categories", !.todo = Batch(c)] \in TxnState
  BY DEF IdleTxn, TxnState, Batch, Valid, TypeOK
<1>2. txns' \in [Txns -> TxnState] /\ runs' \in Nat
  BY <1>1 DEF TypeOK, Begin
<1> QED BY <1>2 DEF TypeOK, Begin

LEMMA InsertCategoryType ==
  ASSUME TypeOK, NEW t \in Txns, InsertCategory(t)
  PROVE  TypeOK'
<1>1. PICK r \in FirstBySku(txns[t].todo) :
        txns' = [txns EXCEPT ![t] =
          [txns[t] EXCEPT !.todo = @ \ {r}, !.cats = @ \cup ({r.cat} \ categories)]]
  BY DEF InsertCategory
<1>2. txns[t] \in TxnState /\ r \in Row
  BY <1>1 DEF TypeOK, TxnState, FirstBySku
<1>3. r.cat \in Categories
  BY <1>2 DEF Row
<1>4. [txns[t] EXCEPT !.todo = @ \ {r}, !.cats = @ \cup ({r.cat} \ categories)] \in TxnState
  BY <1>2, <1>3 DEF TxnState
<1>5. txns' \in [Txns -> TxnState]
  BY <1>1, <1>4 DEF TypeOK
<1> QED BY <1>5 DEF TypeOK, InsertCategory

LEMMA StartUpsertType ==
  ASSUME TypeOK, NEW t \in Txns, StartUpsert(t)
  PROVE  TypeOK'
<1>1. txns[t] \in TxnState /\ Batch(txns[t].chunk) \in SUBSET Row
  BY DEF TypeOK, TxnState, Batch, Valid
<1>2. [txns[t] EXCEPT !.phase = "products", !.todo = Batch(txns[t].chunk)] \in TxnState
  BY <1>1 DEF TxnState
<1>3. txns' \in [Txns -> TxnState]
  BY <1>2 DEF TypeOK, StartUpsert
<1> QED BY <1>3 DEF TypeOK, StartUpsert

LEMMA LockProductType ==
  ASSUME TypeOK, NEW t \in Txns, LockProduct(t)
  PROVE  TypeOK'
<1>1. PICK r \in FirstBySku(txns[t].todo) :
        txns' = [txns EXCEPT ![t] =
          [txns[t] EXCEPT !.todo = @ \ {r}, !.skus = @ \cup {r.sku}]]
  BY DEF LockProduct
<1>2. txns[t] \in TxnState /\ r \in Row
  BY <1>1 DEF TypeOK, TxnState, FirstBySku
<1>3. r.sku \in Skus
  BY <1>2 DEF Row
<1>4. [txns[t] EXCEPT !.todo = @ \ {r}, !.skus = @ \cup {r.sku}] \in TxnState
  BY <1>2, <1>3 DEF TxnState
<1>5. txns' \in [Txns -> TxnState]
  BY <1>1, <1>4 DEF TypeOK
<1> QED BY <1>5 DEF TypeOK, LockProduct

\* A write applies a row of the batch, so it leaves a product with a category.
LEMMA AppliedHasCategory ==
  ASSUME TypeOK, NEW c \in Chunks, NEW s \in Skus, Upserted(c, s) # products[s]
  PROVE  Upserted(c, s).cat # NoCategory
<1> DEFINE newer == {r \in Batch(c) : r.sku = s /\ SourceSeq(c, r.no) > products[s].seq}
<1>1. newer # {}
  BY DEF Upserted, newer
<1>2. (CHOOSE r \in newer : TRUE) \in newer
  BY <1>1
<1>3. Upserted(c, s) = Stored(c, CHOOSE r \in newer : TRUE)
  BY <1>1 DEF Upserted, newer
<1>4. \A r \in newer : r.cat \in Categories
  BY DEF TypeOK, newer, Batch, Valid, Row
<1> QED BY <1>2, <1>3, <1>4, CategoryAssumption DEF Stored

LEMMA CommitType ==
  ASSUME TypeOK, NEW t \in Txns, Commit(t)
  PROVE  TypeOK'
<1> DEFINE c == txns[t].chunk
           new == [s \in Skus |-> Upserted(c, s)]
           applied == {s \in Skus : new[s] # products[s]}
<1>1. txns[t] \in TxnState /\ c \in Chunks
  BY DEF TypeOK, TxnState
<1>2. products' = new
  BY DEF Commit
<1>3. products' \in [Skus -> Product]
  BY <1>1, <1>2, UpsertedType
<1>4. \A s \in applied : Touched(products[s], new[s]) \subseteq Categories
  <2> SUFFICES ASSUME NEW s \in applied
               PROVE  Touched(products[s], new[s]) \subseteq Categories
    OBVIOUS
  <2>1. new[s] = Upserted(c, s) /\ products[s] \in Product
    BY DEF TypeOK
  <2>2. new[s] \in Product /\ new[s].cat # NoCategory
    BY <1>1, <2>1, UpsertedType, AppliedHasCategory
  <2> QED BY <2>1, <2>2, TouchedType
<1>5. UNION {Touched(products[s], new[s]) : s \in applied} \subseteq Categories
  BY <1>4
<1>6. changed' = [changed EXCEPT ![c] = UNION {Touched(products[s], new[s]) : s \in applied}]
  BY DEF Commit
<1>7. changed' \in [Chunks -> SUBSET Categories]
  BY <1>5, <1>6 DEF TypeOK
<1>8. BadRows(c) \subseteq (Nat \ {0}) \X RowNo
  BY <1>1, JobSeqAssumption DEF BadRows, TypeOK, Row
<1>9. txns' \in [Txns -> TxnState]
  BY <1>1 DEF Commit, TypeOK, TxnState, IdleTxn
<1>10. categories' \subseteq Categories
  BY <1>1 DEF Commit, TypeOK, TxnState
<1>11. rowErrors' \subseteq (Nat \ {0}) \X RowNo /\ done' \subseteq Chunks
  BY <1>1, <1>8 DEF Commit, TypeOK
<1> QED BY <1>3, <1>7, <1>9, <1>10, <1>11 DEF TypeOK, Commit

LEMMA RollbackType ==
  ASSUME TypeOK, NEW t \in Txns, Rollback(t)
  PROVE  TypeOK'
<1>1. txns' \in [Txns -> TxnState]
  BY DEF TypeOK, Rollback, TxnState, IdleTxn
<1> QED BY <1>1 DEF TypeOK, Rollback

LEMMA CreateProductType ==
  ASSUME TypeOK, NEW s \in Skus, NEW k \in Categories, NEW price \in NewPrices,
         CreateProduct(s, k, price)
  PROVE  TypeOK'
<1>1. price \in Nat
  BY NewPricesAssumption
<1>2. products' \in [Skus -> Product]
  BY <1>1 DEF TypeOK, CreateProduct, Product
<1>3. created' \subseteq [sku : Skus, cat : Categories, price : Nat, seq : {0}]
  BY <1>1 DEF TypeOK, CreateProduct
<1> QED BY <1>2, <1>3 DEF TypeOK, CreateProduct

\* Types are kept by every step.
LEMMA NextType == TypeOK /\ [Next]_vars => TypeOK'
<1> SUFFICES ASSUME TypeOK, [Next]_vars PROVE TypeOK'
  OBVIOUS
<1>1. ASSUME NEW t \in Txns, NEW c \in Chunks, Begin(t, c) PROVE TypeOK'
  BY <1>1, BeginType
<1>2. ASSUME NEW t \in Txns, InsertCategory(t) PROVE TypeOK'
  BY <1>2, InsertCategoryType
<1>3. ASSUME NEW t \in Txns, StartUpsert(t) PROVE TypeOK'
  BY <1>3, StartUpsertType
<1>4. ASSUME NEW t \in Txns, LockProduct(t) PROVE TypeOK'
  BY <1>4, LockProductType
<1>5. ASSUME NEW t \in Txns, Commit(t) PROVE TypeOK'
  BY <1>5, CommitType
<1>6. ASSUME NEW t \in Txns, Rollback(t) PROVE TypeOK'
  BY <1>6, RollbackType
<1>7. ASSUME NEW s \in Skus, NEW k \in Categories, NEW price \in NewPrices,
             CreateProduct(s, k, price)
      PROVE  TypeOK'
  BY <1>7, CreateProductType
<1>8. CASE UNCHANGED vars
  BY <1>8 DEF vars, TypeOK, FileRows
<1> QED BY <1>1, <1>2, <1>3, <1>4, <1>5, <1>6, <1>7, <1>8 DEF Next

\* Type correctness, for every instance.
THEOREM CatalogTypes == Spec => []TypeOK
<1>1. Init => TypeOK
  BY InitType
<1>2. TypeOK /\ [Next]_vars => TypeOK'
  BY NextType
<1> QED BY <1>1, <1>2, PTL DEF Spec

-----------------------------------------------------------------------------
(***************************************************************************)
(* Newest wins.  The invariant is inductive together with the types: a     *)
(* commit compares only the highest row of each sku of its chunk with the  *)
(* stored key, and BatchCovers says that no other row of it matters.       *)
(***************************************************************************)
OfferOf(c, r) == [sku |-> r.sku, cat |-> r.cat, price |-> r.price, seq |-> SourceSeq(c, r.no)]

\* An offer of the catalog was created through the API or is a row of a DONE chunk.
LEMMA OfferCases ==
  ASSUME NEW o \in Offers
  PROVE  o \in created \/ \E c \in done : \E r \in Valid(c) : o = OfferOf(c, r)
  BY DEF Offers, OfferOf

\* Every offer has a key that beats "no product".
LEMMA OfferSeq ==
  ASSUME TypeOK, NEW o \in Offers
  PROVE  o.seq \in Nat
<1>1. CASE o \in created
  BY <1>1 DEF TypeOK
<1>2. CASE \E c \in done : \E r \in Valid(c) : o = OfferOf(c, r)
  <2>0. PICK c \in done : \E r \in Valid(c) : o = OfferOf(c, r)
    BY <1>2
  <2>1. PICK r \in Valid(c) : o = OfferOf(c, r)
    BY <2>0
  <2>2. c \in Chunks /\ r.no \in RowNo
    BY DEF TypeOK, Valid, Row
  <2> QED BY <2>1, <2>2, SourceSeqOrder DEF OfferOf
<1> QED BY <1>1, <1>2, OfferCases

\* A stored key bounds the key of every offer of its sku.
LEMMA StoredSeqBounds ==
  ASSUME TypeOK, NewestWins, NEW s \in Skus, NEW o \in Offers, o.sku = s
  PROVE  o.seq <= products[s].seq
<1>1. PICK m \in {q \in Offers : q.sku = s} :
        /\ \A q \in {x \in Offers : x.sku = s} : q.seq <= m.seq
        /\ products[s] = [cat |-> m.cat, price |-> m.price, seq |-> m.seq]
  BY DEF NewestWins, IsNewest
<1> QED BY <1>1

\* A commit leaves the newest offer, new ones included.
LEMMA UpsertedIsNewest ==
  ASSUME TypeOK, NewestWins, NEW c \in Chunks, NEW s \in Skus
  PROVE  IsNewest(Upserted(c, s), s, Offers \cup {OfferOf(c, r) : r \in Valid(c)})
<1> DEFINE O == Offers \cup {OfferOf(c, r) : r \in Valid(c)}
           newer == {r \in Batch(c) : r.sku = s /\ SourceSeq(c, r.no) > products[s].seq}
<1>0. Valid(c) \subseteq Row /\ Batch(c) \subseteq Valid(c) /\ products[s].seq \in Int
  BY DEF TypeOK, Valid, Batch, Product
<1>1. \A r \in Valid(c) : SourceSeq(c, r.no) \in Nat
  BY <1>0, SourceSeqOrder DEF Row
<1>2. CASE newer = {}
  <2>1. Upserted(c, s) = products[s]
    BY <1>2 DEF Upserted, newer
  <2>2. ASSUME NEW r \in Valid(c), r.sku = s PROVE SourceSeq(c, r.no) <= products[s].seq
    <3>1. PICK b \in Batch(c) : b.sku = s /\ r.no <= b.no
      BY <2>2, BatchCovers DEF TypeOK
    <3>2. SourceSeq(c, b.no) <= products[s].seq
      BY <1>0, <1>1, <1>2, <3>1 DEF newer
    <3>3. SourceSeq(c, r.no) <= SourceSeq(c, b.no)
      BY <1>0, <3>1, SourceSeqOrder DEF Row
    <3> QED BY <1>0, <1>1, <3>2, <3>3
  <2>3. CASE \A o \in Offers : o.sku # s
    <3>1. products[s] = NoProduct
      BY <2>3 DEF NewestWins, IsNewest
    <3>2. \A r \in Valid(c) : r.sku # s
      BY <1>1, <2>2, <3>1 DEF NoProduct
    <3>3. \A o \in O : o.sku # s
      BY <2>3, <3>2 DEF OfferOf
    <3> QED BY <2>1, <3>1, <3>3 DEF IsNewest
  <2>4. CASE \E o \in Offers : o.sku = s
    <3>1. PICK m \in Offers :
            /\ m.sku = s
            /\ \A q \in Offers : q.sku = s => q.seq <= m.seq
            /\ products[s] = [cat |-> m.cat, price |-> m.price, seq |-> m.seq]
      BY <2>4 DEF NewestWins, IsNewest
    <3>2. \A q \in O : q.sku = s => q.seq <= m.seq
      BY <2>2, <3>1 DEF OfferOf
    <3> QED BY <2>1, <3>1, <3>2 DEF IsNewest
  <2> QED BY <2>3, <2>4
<1>3. CASE newer # {}
  <2>0. (CHOOSE x \in newer : TRUE) \in newer
    BY <1>3
  <2>1. PICK r \in newer : Upserted(c, s) = Stored(c, r)
    BY <1>3, <2>0 DEF Upserted, newer
  <2>2. /\ r \in Valid(c) /\ r.sku = s /\ r \in Batch(c)
        /\ SourceSeq(c, r.no) > products[s].seq
    BY <1>0 DEF newer
  <2>3. OfferOf(c, r) \in O /\ OfferOf(c, r).sku = s
    BY <2>2 DEF OfferOf
  <2>4. ASSUME NEW q \in O, q.sku = s PROVE q.seq <= SourceSeq(c, r.no)
    <3>1. CASE q \in Offers
      <4>1. q.seq <= products[s].seq /\ products[s].seq < SourceSeq(c, r.no)
        BY <2>2, <2>4, <3>1, StoredSeqBounds
      <4> QED BY <1>0, <1>1, <2>2, <3>1, <4>1, OfferSeq
    <3>2. CASE \E x \in Valid(c) : q = OfferOf(c, x)
      <4>1. PICK x \in Valid(c) : q = OfferOf(c, x)
        BY <3>2
      <4>2. x.sku = s /\ r.sku = s /\ r \in Batch(c)
        BY <2>2, <2>4, <4>1 DEF OfferOf
      <4>3. x.no <= r.no
        BY <4>2 DEF Batch
      <4>4. x.no \in RowNo /\ r.no \in RowNo
        BY <1>0, <4>2 DEF Row
      <4> QED BY <4>1, <4>3, <4>4, SourceSeqOrder DEF OfferOf
    <3> QED BY <3>1, <3>2
  <2>5. LET o == OfferOf(c, r)
        IN  o.seq = SourceSeq(c, r.no) /\ Stored(c, r) = [cat |-> o.cat, price |-> o.price, seq |-> o.seq]
    BY DEF OfferOf, Stored
  <2>6. IsNewest(Upserted(c, s), s, O)
    <3> HIDE DEF O
    <3>1. PICK o \in O : /\ o.sku = s
                         /\ \A q \in O : q.sku = s => q.seq <= o.seq
                         /\ Stored(c, r) = [cat |-> o.cat, price |-> o.price, seq |-> o.seq]
      BY <2>3, <2>4, <2>5
    <3> QED BY <2>1, <3>1 DEF IsNewest
  <2> QED BY <2>6 DEF O
<1> QED BY <1>2, <1>3

\* A commit keeps the property.
LEMMA CommitNewest ==
  ASSUME TypeOK, NewestWins, NEW t \in Txns, Commit(t)
  PROVE  NewestWins'
<1> DEFINE c == txns[t].chunk
<1>1. c \in Chunks
  BY DEF TypeOK, TxnState
<1>2. done' = done \cup {c} /\ UNCHANGED <<content, created>>
  BY DEF Commit
<1>3. Offers' = Offers \cup {OfferOf(c, r) : r \in Valid(c)}
  BY <1>2 DEF Offers, OfferOf, Valid, SourceSeq
<1>4. ASSUME NEW s \in Skus PROVE IsNewest(products[s], s, Offers)'
  <2>1. products'[s] = Upserted(c, s)
    BY DEF Commit
  <2>2. IsNewest(products'[s], s, Offers')
    BY <1>1, <1>3, <2>1, UpsertedIsNewest
  <2> QED BY <2>2 DEF IsNewest
<1> QED BY <1>4 DEF NewestWins

\* So does a product created through the API: nothing was offered for its sku.
LEMMA CreateProductNewest ==
  ASSUME TypeOK, NewestWins, NEW s \in Skus, NEW k \in Categories, NEW price \in NewPrices,
         CreateProduct(s, k, price)
  PROVE  NewestWins'
<1> DEFINE new == [sku |-> s, cat |-> k, price |-> price, seq |-> 0]
<1>1. Offers' = Offers \cup {new}
  BY DEF Offers, CreateProduct, Valid, SourceSeq
<1>2. \A o \in Offers : o.sku # s
  <2> SUFFICES ASSUME NEW o \in Offers, o.sku = s PROVE FALSE
    OBVIOUS
  <2>1. o.seq <= -1
    BY StoredSeqBounds DEF CreateProduct, NoProduct
  <2> QED BY <2>1, OfferSeq
<1>3. ASSUME NEW q \in Skus PROVE IsNewest(products[q], q, Offers)'
  <2>1. CASE q = s
    <3>1. products'[q] = [cat |-> k, price |-> price, seq |-> 0]
      BY <2>1 DEF CreateProduct, TypeOK
    <3>2. /\ new \in Offers' /\ new.sku = q
          /\ \A o \in Offers' : o.sku = q => o.seq <= new.seq
      BY <1>1, <1>2, <2>1
    <3>3. products'[q] = [cat |-> new.cat, price |-> new.price, seq |-> new.seq]
      BY <3>1
    <3> HIDE DEF new
    <3> QED BY <3>2, <3>3 DEF IsNewest
  <2>2. CASE q # s
    <3>1. products'[q] = products[q]
      BY <2>2 DEF CreateProduct, TypeOK
    <3>2. {o \in Offers' : o.sku = q} = {o \in Offers : o.sku = q}
      BY <1>1, <2>2
    <3>3. IsNewest(products[q], q, Offers)
      BY DEF NewestWins
    <3> QED BY <3>1, <3>2, <3>3 DEF IsNewest
  <2> QED BY <2>1, <2>2
<1> QED BY <1>3 DEF NewestWins

\* A step that touches neither the catalog nor what was offered.
LEMMA SameCatalogNewest ==
  ASSUME NewestWins, UNCHANGED <<content, products, done, created>>
  PROVE  NewestWins'
<1>1. Offers' = Offers
  BY DEF Offers, Valid, SourceSeq
<1> QED BY <1>1 DEF NewestWins, IsNewest

\* Convergence, for every content, order, overlap and repetition of the runs.
THEOREM CatalogConverges == Spec => []NewestWins
<1>1. Init => NewestWins
  <2> SUFFICES ASSUME Init PROVE NewestWins
    OBVIOUS
  <2>1. Offers = {}
    BY DEF Init, Offers
  <2>2. \A s \in Skus : products[s] = NoProduct
    BY DEF Init
  <2> QED BY <2>1, <2>2 DEF NewestWins, IsNewest
<1>2. TypeOK /\ NewestWins /\ [Next]_vars => NewestWins'
  <2> SUFFICES ASSUME TypeOK, NewestWins, [Next]_vars PROVE NewestWins'
    OBVIOUS
  <2>1. ASSUME NEW t \in Txns, NEW c \in Chunks, Begin(t, c) PROVE NewestWins'
    BY <2>1, SameCatalogNewest DEF Begin
  <2>2. ASSUME NEW t \in Txns, InsertCategory(t) PROVE NewestWins'
    BY <2>2, SameCatalogNewest DEF InsertCategory
  <2>3. ASSUME NEW t \in Txns, StartUpsert(t) PROVE NewestWins'
    BY <2>3, SameCatalogNewest DEF StartUpsert
  <2>4. ASSUME NEW t \in Txns, LockProduct(t) PROVE NewestWins'
    BY <2>4, SameCatalogNewest DEF LockProduct
  <2>5. ASSUME NEW t \in Txns, Commit(t) PROVE NewestWins'
    BY <2>5, CommitNewest
  <2>6. ASSUME NEW t \in Txns, Rollback(t) PROVE NewestWins'
    BY <2>6, SameCatalogNewest DEF Rollback
  <2>7. ASSUME NEW s \in Skus, NEW k \in Categories, NEW price \in NewPrices,
               CreateProduct(s, k, price)
        PROVE  NewestWins'
    BY <2>7, CreateProductNewest
  <2>8. CASE UNCHANGED vars
    BY <2>8, SameCatalogNewest DEF vars
  <2> QED BY <2>1, <2>2, <2>3, <2>4, <2>5, <2>6, <2>7, <2>8 DEF Next
<1> QED BY <1>1, <1>2, CatalogTypes, PTL DEF Spec

-----------------------------------------------------------------------------
(***************************************************************************)
(* Running a chunk again.                                                  *)
(***************************************************************************)
\* Every row of a DONE chunk is an offer, so none beats the stored key.
LEMMA RerunUpserts ==
  ASSUME TypeOK, NewestWins, NEW c \in done, NEW s \in Skus
  PROVE  Upserted(c, s) = products[s]
<1> DEFINE newer == {r \in Batch(c) : r.sku = s /\ SourceSeq(c, r.no) > products[s].seq}
<1>1. ASSUME NEW r \in Batch(c), r.sku = s
      PROVE  ~(SourceSeq(c, r.no) > products[s].seq)
  <2>1. r \in Valid(c)
    BY DEF Batch
  <2>2. OfferOf(c, r) \in Offers
    BY <2>1 DEF Offers, OfferOf
  <2>3. OfferOf(c, r).sku = s /\ OfferOf(c, r).seq = SourceSeq(c, r.no)
    BY <1>1 DEF OfferOf
  <2>4. SourceSeq(c, r.no) \in Nat /\ SourceSeq(c, r.no) <= products[s].seq
    BY <2>2, <2>3, OfferSeq, StoredSeqBounds
  <2>5. products[s].seq \in Int
    BY DEF TypeOK, Product
  <2> QED BY <2>4, <2>5
<1>2. newer = {}
  BY <1>1
<1> QED BY <1>2 DEF Upserted, newer

\* A chunk that is DONE moves no product when it is run again, which is what
\* lets IngestPipeline treat such a run as one that changes no price.
THEOREM RerunIsIdempotent == Spec => RerunMovesNothing
<1>1. TypeOK /\ NewestWins /\ [Next]_vars =>
        [\A t \in Txns, c \in done : Ends(t, c) => products' = products]_vars
  <2> SUFFICES ASSUME TypeOK, NewestWins, Next, NEW t \in Txns, NEW c \in done, Ends(t, c)
               PROVE  products' = products
    BY DEF vars
  <2>1. ASSUME NEW u \in Txns, Commit(u) PROVE products' = products
    <3>1. u = t
      BY <2>1 DEF Commit, Ends, Idle, TypeOK
    <3>2. products' = [s \in Skus |-> Upserted(c, s)]
      BY <2>1, <3>1 DEF Commit, Ends
    <3>3. products' = [s \in Skus |-> products[s]]
      BY <3>2, RerunUpserts
    <3> QED BY <3>3 DEF TypeOK
  <2>2. ASSUME NEW u \in Txns, NEW d \in Chunks, Begin(u, d) PROVE products' = products
    BY <2>2 DEF Begin
  <2>3. ASSUME NEW u \in Txns,
               InsertCategory(u) \/ StartUpsert(u) \/ LockProduct(u) \/ Rollback(u)
        PROVE  products' = products
    BY <2>3 DEF InsertCategory, StartUpsert, LockProduct, Rollback
  <2>4. ASSUME NEW s \in Skus, NEW k \in Categories, NEW price \in NewPrices,
               CreateProduct(s, k, price)
        PROVE  products' = products
    BY <2>4 DEF CreateProduct, Ends, Idle
  <2> QED BY <2>1, <2>2, <2>3, <2>4 DEF Next
<1> QED BY <1>1, CatalogTypes, CatalogConverges, PTL DEF Spec, RerunMovesNothing

-----------------------------------------------------------------------------
(***************************************************************************)
(* Lock order.  The products a transaction holds are all before the one it *)
(* takes next, because the batch is gone through by sku and has one row of *)
(* each.  Uncommitted categories are held by one transaction each, none of *)
(* them one that was there from the start.                                 *)
(***************************************************************************)
LocksInOrder ==
  \A t \in Txns :
    /\ txns[t].cats \cap OldCategories = {}
    /\ \A u \in Txns \ {t} : txns[t].cats \cap txns[u].cats = {}
    /\ txns[t].phase # "products" => txns[t].skus = {}
    /\ txns[t].phase = "products" =>
         /\ txns[t].todo \subseteq Batch(txns[t].chunk)
         /\ \A r \in txns[t].todo, s \in txns[t].skus : s < r.sku

\* A batch has one row of a sku.
LEMMA BatchHasOneRow ==
  ASSUME TypeOK, NEW c \in Chunks, NEW r \in Batch(c), NEW q \in Batch(c), r.sku = q.sku
  PROVE  r = q
<1>1. r \in content[c] /\ q \in content[c] /\ r \in Row /\ q \in Row
  BY DEF Batch, Valid, TypeOK
<1>2. r.no <= q.no /\ q.no <= r.no
  BY DEF Batch
<1>3. r.no = q.no
  BY <1>1, <1>2, RowLimitAssumption DEF Row, RowNo
<1> QED BY <1>1, <1>3 DEF TypeOK, FileRows

\* Taking the next lock keeps the order.
LEMMA LockProductOrder ==
  ASSUME TypeOK, LocksInOrder, NEW t \in Txns, LockProduct(t)
  PROVE  LocksInOrder'
<1>1. PICK r \in FirstBySku(txns[t].todo) :
        txns' = [txns EXCEPT ![t] =
          [txns[t] EXCEPT !.todo = @ \ {r}, !.skus = @ \cup {r.sku}]]
  BY DEF LockProduct
<1>2. /\ txns[t].phase = "products" /\ txns[t] \in TxnState
      /\ txns[t].todo \subseteq Batch(txns[t].chunk)
      /\ txns[t].todo \subseteq Row
      /\ r \in txns[t].todo
      /\ \A q \in txns[t].todo : r.sku <= q.sku
  BY DEF LockProduct, TypeOK, TxnState, LocksInOrder, FirstBySku
<1>3. /\ txns'[t].cats = txns[t].cats /\ txns'[t].phase = txns[t].phase
      /\ txns'[t].chunk = txns[t].chunk
      /\ txns'[t].todo = txns[t].todo \ {r}
      /\ txns'[t].skus = txns[t].skus \cup {r.sku}
  BY <1>1, <1>2 DEF TypeOK, TxnState
<1>4. ASSUME NEW q \in txns[t].todo \ {r} PROVE r.sku < q.sku
  <2>1. r.sku # q.sku
    BY <1>2, <1>4, BatchHasOneRow DEF TxnState
  <2>2. r.sku \in Int /\ q.sku \in Int
    BY <1>2, SkuCountAssumption DEF Row, Skus
  <2> QED BY <1>2, <2>1, <2>2
<1>5. \A q \in txns'[t].todo, s \in txns'[t].skus : s < q.sku
  BY <1>2, <1>3, <1>4 DEF LocksInOrder
<1>6. UNCHANGED content
  BY DEF LockProduct
<1>7. \A u \in Txns \ {t} : txns'[u] = txns[u]
  BY <1>1 DEF TypeOK
<1> QED BY <1>2, <1>3, <1>5, <1>6, <1>7 DEF LocksInOrder, Batch, Valid

OInv == TypeOK /\ OldCategories \subseteq categories /\ LocksInOrder

\* Every step keeps the order.
LEMMA NextOrder == OInv /\ [Next]_vars => OInv'
<1> SUFFICES ASSUME OInv, [Next]_vars PROVE OInv'
  OBVIOUS
<1> USE DEF OInv
<1>0. TypeOK'
  BY NextType
<1>1. ASSUME NEW t \in Txns, NEW c \in Chunks, Begin(t, c) PROVE OInv'
  <2>1. txns'[t].cats = {} /\ txns'[t].skus = {} /\ txns'[t].phase = "categories"
    BY <1>1 DEF Begin, IdleTxn, TypeOK
  <2>2. \A u \in Txns \ {t} : txns'[u] = txns[u]
    BY <1>1 DEF Begin, TypeOK
  <2> QED BY <1>0, <1>1, <2>1, <2>2 DEF Begin, LocksInOrder, Batch, Valid
<1>2. ASSUME NEW t \in Txns, InsertCategory(t) PROVE OInv'
  <2>1. PICK r \in FirstBySku(txns[t].todo) :
          /\ \A u \in Txns \ {t} : r.cat \notin txns[u].cats
          /\ txns' = [txns EXCEPT ![t] =
               [txns[t] EXCEPT !.todo = @ \ {r}, !.cats = @ \cup ({r.cat} \ categories)]]
    BY <1>2 DEF InsertCategory
  <2>2. txns[t] \in TxnState /\ r.cat \in Categories
    BY DEF TypeOK, TxnState, FirstBySku, Row
  <2>3. /\ txns'[t].cats = txns[t].cats \cup ({r.cat} \ categories)
        /\ txns'[t].skus = txns[t].skus /\ txns'[t].phase = txns[t].phase
    BY <2>1, <2>2 DEF TypeOK, TxnState
  <2>4. txns'[t].skus = {} /\ txns'[t].phase = "categories"
    BY <1>2, <2>3 DEF InsertCategory, LocksInOrder
  <2>5. /\ txns'[t].cats \cap OldCategories = {}
        /\ \A u \in Txns \ {t} : txns'[t].cats \cap txns[u].cats = {}
    BY <2>1, <2>3 DEF LocksInOrder
  <2>6. \A u \in Txns \ {t} : txns'[u] = txns[u]
    BY <2>1 DEF TypeOK
  <2> QED BY <1>0, <1>2, <2>4, <2>5, <2>6 DEF InsertCategory, LocksInOrder, Batch, Valid
<1>3. ASSUME NEW t \in Txns, StartUpsert(t) PROVE OInv'
  <2>1. /\ txns'[t].cats = txns[t].cats /\ txns'[t].skus = {}
        /\ txns'[t].todo = Batch(txns[t].chunk) /\ txns'[t].chunk = txns[t].chunk
    BY <1>3 DEF StartUpsert, LocksInOrder, TypeOK, TxnState
  <2>2. \A u \in Txns \ {t} : txns'[u] = txns[u]
    BY <1>3 DEF StartUpsert, TypeOK
  <2> QED BY <1>0, <1>3, <2>1, <2>2 DEF StartUpsert, LocksInOrder, Batch, Valid
<1>4. ASSUME NEW t \in Txns, LockProduct(t) PROVE OInv'
  BY <1>0, <1>4, LockProductOrder DEF LockProduct
<1>5. ASSUME NEW t \in Txns, Commit(t) \/ Rollback(t) PROVE OInv'
  <2>1. txns'[t].cats = {} /\ txns'[t].skus = {} /\ txns'[t].phase = "idle"
    BY <1>5 DEF Commit, Rollback, IdleTxn, TypeOK
  <2>2. \A u \in Txns \ {t} : txns'[u] = txns[u]
    BY <1>5 DEF Commit, Rollback, TypeOK
  <2>3. OldCategories \subseteq categories' /\ UNCHANGED content
    BY <1>5 DEF Commit, Rollback
  <2> QED BY <1>0, <2>1, <2>2, <2>3 DEF LocksInOrder, Batch, Valid
<1>6. ASSUME NEW s \in Skus, NEW k \in Categories, NEW price \in NewPrices,
             CreateProduct(s, k, price)
      PROVE  OInv'
  BY <1>0, <1>6 DEF CreateProduct, LocksInOrder, Batch, Valid
<1>7. CASE UNCHANGED vars
  BY <1>0, <1>7 DEF vars, LocksInOrder, Batch, Valid
<1> QED BY <1>1, <1>2, <1>3, <1>4, <1>5, <1>6, <1>7 DEF Next

OneNewCategory == \A k, l \in Categories \ OldCategories : k = l

\* A transaction of a waiting set that is past its categories waits for a
\* product one of the set holds, and some transaction of the set is.
LEMMA WaitForProduct ==
  ASSUME OInv, OneNewCategory, NEW S \in (SUBSET Txns) \ {{}},
         \A t \in S : \E u \in S : Blocks(u, t)
  PROVE  \E t \in S, r \in Row : \E u \in S : r \in txns[t].todo /\ r.sku \in txns[u].skus
<1>1. PICK t \in S, u \in S : Blocks(u, t)
  OBVIOUS
<1>2. PICK v \in S : Blocks(v, u)
  OBVIOUS
<1>3. ASSUME NEW x \in S, NEW y \in S, Blocks(y, x)
      PROVE  \/ \E r \in txns[x].todo : r.sku \in txns[y].skus
             \/ \E k \in Categories \ OldCategories : k \in txns[y].cats
  <2>1. PICK l \in Wanted(x) : l \in Held(y)
    BY <1>3 DEF Blocks
  <2>2. CASE \E s \in txns[y].skus : l = <<"product", s>>
    BY <2>1, <2>2 DEF Wanted, FirstBySku
  <2>3. CASE \E k \in txns[y].cats : l = <<"category", k>>
    BY <2>3 DEF OInv, LocksInOrder, TypeOK, TxnState
  <2> QED BY <2>1, <2>2, <2>3 DEF Held
<1>4. u # v
  BY <1>2 DEF Blocks
<1>5. \/ \E r \in txns[t].todo : r.sku \in txns[u].skus
      \/ \E r \in txns[u].todo : r.sku \in txns[v].skus
  <2> SUFFICES ASSUME ~ \E r \in txns[t].todo : r.sku \in txns[u].skus,
                      ~ \E r \in txns[u].todo : r.sku \in txns[v].skus
               PROVE  FALSE
    OBVIOUS
  <2>1. PICK k \in Categories \ OldCategories : k \in txns[u].cats
    BY <1>1, <1>3
  <2>2. PICK l \in Categories \ OldCategories : l \in txns[v].cats
    BY <1>2, <1>3
  <2>3. k = l
    BY DEF OneNewCategory
  <2> QED BY <1>4, <2>1, <2>2, <2>3 DEF OInv, LocksInOrder
<1> QED BY <1>5 DEF OInv, TypeOK, TxnState

\* Past its categories a transaction waits for nothing but products.
LEMMA ProductPhaseWaits ==
  ASSUME NEW S \in SUBSET Txns, NEW t \in S, txns[t].phase = "products",
         \E u \in S : Blocks(u, t)
  PROVE  \E r \in txns[t].todo : \E u \in S : r.sku \in txns[u].skus
<1>1. PICK u \in S : Blocks(u, t)
  OBVIOUS
<1>2. PICK l \in Wanted(t) : l \in Held(u)
  BY <1>1 DEF Blocks
<1>3. PICK r \in FirstBySku(txns[t].todo) : l = <<"product", r.sku>>
  BY <1>2 DEF Wanted
<1> QED BY <1>2, <1>3 DEF Held, FirstBySku

\* In a set of waiting transactions, the one that holds the greatest sku of all
\* waits for a greater one, which nobody in the set can hold.
LEMMA OrderPreventsDeadlock == OInv /\ OneNewCategory => NoDeadlock
<1> SUFFICES ASSUME OInv, OneNewCategory, NEW S \in (SUBSET Txns) \ {{}},
                    \A t \in S : \E u \in S : Blocks(u, t)
             PROVE  FALSE
  BY DEF NoDeadlock
<1> DEFINE T == {s \in Skus : \E u \in S : s \in txns[u].skus}
<1>1. T \subseteq 0 .. SkuCount /\ T # {}
  <2>1. PICK t \in S, r \in Row : \E u \in S : r \in txns[t].todo /\ r.sku \in txns[u].skus
    BY WaitForProduct
  <2>2. r.sku \in T
    BY <2>1 DEF OInv, TypeOK, TxnState
  <2> QED BY <2>2, SkuCountAssumption DEF Skus
<1>2. PICK x \in T : \A y \in T : y <= x
  BY <1>1, GreatestElement, SkuCountAssumption
<1>3. PICK u \in S : x \in txns[u].skus
  BY <1>2
<1>4. txns[u].phase = "products"
  BY <1>3 DEF OInv, LocksInOrder
<1>5. PICK r \in txns[u].todo : \E v \in S : r.sku \in txns[v].skus
  BY <1>4, ProductPhaseWaits
<1>6. r.sku \in T
  BY <1>5 DEF OInv, TypeOK, TxnState
<1>7. x < r.sku
  BY <1>3, <1>4, <1>5 DEF OInv, LocksInOrder
<1>8. r.sku <= x /\ x \in Int /\ r.sku \in Int
  BY <1>2, <1>6, SkuCountAssumption DEF Skus
<1> QED BY <1>7, <1>8

\* As long as the files introduce one new category at most, no set of
\* transactions waits in a circle: the sort by sku is the lock order.
THEOREM SortedBatchesDoNotDeadlock ==
  ASSUME OneNewCategory
  PROVE  Spec => []NoDeadlock
<1>1. Init => OInv
  <2> SUFFICES ASSUME Init PROVE OInv
    OBVIOUS
  <2>1. TypeOK
    BY InitType
  <2>2. LocksInOrder
    BY DEF Init, IdleTxn, LocksInOrder
  <2> QED BY <2>1, <2>2 DEF Init, OInv
<1> QED BY <1>1, NextOrder, OrderPreventsDeadlock, PTL DEF Spec

-----------------------------------------------------------------------------
(***************************************************************************)
(* Categories.  While a transaction goes through its batch, a name it has  *)
(* left behind is committed or its own to commit; none is ever withdrawn.  *)
(***************************************************************************)
\* What is resolved of the batch of a transaction that stands at x, once the
\* names in known are committed.
NamesLeft(x, batch, known) ==
  /\ x.phase = "categories" => \A r \in batch : r \in x.todo \/ r.cat \in known \cup x.cats
  /\ x.phase = "products" => \A r \in batch : r.cat \in known \cup x.cats

Resolving(t) == NamesLeft(txns[t], Batch(txns[t].chunk), categories)

NamesInOrder == \A t \in Txns : Resolving(t)

\* A transaction that stands still loses nothing when more names are committed.
LEMMA RestKeepsNames ==
  ASSUME NamesInOrder, NEW t \in Txns, txns'[t] = txns[t],
         UNCHANGED content, categories \subseteq categories'
  PROVE  Resolving(t)'
<1>1. Batch(txns[t].chunk)' = Batch(txns[t].chunk)
  BY DEF Batch, Valid
<1>2. NamesLeft(txns[t], Batch(txns[t].chunk), categories)
  BY DEF NamesInOrder, Resolving
<1> QED BY <1>1, <1>2 DEF NamesLeft, Resolving

\* Nor does one that begins, inserts a name, goes on to its products, locks a
\* product, commits or rolls back.
LEMMA MoverKeepsNames ==
  ASSUME TypeOK, NamesInOrder, NEW t \in Txns, UNCHANGED content,
         \/ \E c \in Chunks : Begin(t, c)
         \/ InsertCategory(t) \/ StartUpsert(t) \/ LockProduct(t) \/ Commit(t) \/ Rollback(t)
  PROVE  /\ Resolving(t)'
         /\ categories \subseteq categories'
<1>1. txns[t] \in TxnState /\ txns \in [Txns -> TxnState]
  BY DEF TypeOK
<1>2. Batch(txns[t].chunk)' = Batch(txns'[t].chunk)
  BY DEF Batch, Valid
<1>3. NamesLeft(txns[t], Batch(txns[t].chunk), categories)
  BY DEF NamesInOrder, Resolving
<1>4. ASSUME NEW c \in Chunks, Begin(t, c)
      PROVE  NamesLeft(txns'[t], Batch(txns'[t].chunk), categories')
  BY <1>1, <1>4 DEF Begin, IdleTxn, NamesLeft
<1>5. ASSUME InsertCategory(t)
      PROVE  NamesLeft(txns'[t], Batch(txns'[t].chunk), categories')
  <2>1. PICK r \in FirstBySku(txns[t].todo) :
          txns' = [txns EXCEPT ![t] =
            [txns[t] EXCEPT !.todo = @ \ {r}, !.cats = @ \cup ({r.cat} \ categories)]]
    BY <1>5 DEF InsertCategory
  <2>2. /\ txns'[t].phase = txns[t].phase /\ txns'[t].chunk = txns[t].chunk
        /\ txns'[t].todo = txns[t].todo \ {r}
        /\ txns'[t].cats = txns[t].cats \cup ({r.cat} \ categories)
    BY <1>1, <2>1 DEF TxnState
  <2>3. txns[t].phase = "categories" /\ categories' = categories
    BY <1>5 DEF InsertCategory
  <2> QED BY <1>2, <1>3, <2>2, <2>3 DEF NamesLeft
<1>6. ASSUME StartUpsert(t)
      PROVE  NamesLeft(txns'[t], Batch(txns'[t].chunk), categories')
  <2>1. /\ txns'[t].phase = "products" /\ txns'[t].chunk = txns[t].chunk
        /\ txns'[t].cats = txns[t].cats
    BY <1>1, <1>6 DEF StartUpsert, TxnState
  <2>2. txns[t].phase = "categories" /\ txns[t].todo = {} /\ categories' = categories
    BY <1>6 DEF StartUpsert
  <2> QED BY <1>2, <1>3, <2>1, <2>2 DEF NamesLeft
<1>7. ASSUME LockProduct(t)
      PROVE  NamesLeft(txns'[t], Batch(txns'[t].chunk), categories')
  <2>1. /\ txns'[t].phase = txns[t].phase /\ txns'[t].chunk = txns[t].chunk
        /\ txns'[t].cats = txns[t].cats
    <3>1. PICK r \in FirstBySku(txns[t].todo) :
            txns' = [txns EXCEPT ![t] =
              [txns[t] EXCEPT !.todo = @ \ {r}, !.skus = @ \cup {r.sku}]]
      BY <1>7 DEF LockProduct
    <3> QED BY <1>1, <3>1 DEF TxnState
  <2>2. txns[t].phase = "products" /\ categories' = categories
    BY <1>7 DEF LockProduct
  <2> QED BY <1>2, <1>3, <2>1, <2>2 DEF NamesLeft
<1>8. ASSUME Commit(t) \/ Rollback(t)
      PROVE  NamesLeft(txns'[t], Batch(txns'[t].chunk), categories')
  BY <1>1, <1>8 DEF Commit, Rollback, IdleTxn, NamesLeft
<1>9. categories \subseteq categories'
  BY DEF Begin, InsertCategory, StartUpsert, LockProduct, Commit, Rollback
<1>10. NamesLeft(txns'[t], Batch(txns'[t].chunk), categories')
  BY <1>4, <1>5, <1>6, <1>7, <1>8
<1> QED BY <1>2, <1>9, <1>10 DEF Resolving

\* Every step keeps the names in order.
LEMMA NextNames == TypeOK /\ NamesInOrder /\ [Next]_vars => NamesInOrder'
<1> SUFFICES ASSUME TypeOK, NamesInOrder, [Next]_vars PROVE NamesInOrder'
  OBVIOUS
<1>1. ASSUME NEW t \in Txns,
             \/ \E c \in Chunks : Begin(t, c)
             \/ InsertCategory(t) \/ StartUpsert(t) \/ LockProduct(t) \/ Commit(t) \/ Rollback(t)
      PROVE  NamesInOrder'
  <2>1. UNCHANGED content
    BY <1>1 DEF Begin, InsertCategory, StartUpsert, LockProduct, Commit, Rollback
  <2>2. ASSUME NEW u \in Txns \ {t} PROVE txns'[u] = txns[u]
    BY <1>1, <2>2
    DEF Begin, InsertCategory, StartUpsert, LockProduct, Commit, Rollback, TypeOK
  <2>3. ASSUME NEW u \in Txns
        PROVE  Resolving(u)'
    BY <1>1, <2>1, <2>2, MoverKeepsNames, RestKeepsNames
  <2> QED BY <2>3 DEF NamesInOrder
<1>2. ASSUME UNCHANGED <<txns, content, categories>> PROVE NamesInOrder'
  <2>1. ASSUME NEW u \in Txns
        PROVE  Resolving(u)'
    BY <1>2, RestKeepsNames
  <2> QED BY <2>1 DEF NamesInOrder
<1> QED BY <1>1, <1>2 DEF Next, CreateProduct, vars

\* When the upsert of a transaction needs the id of a category, the name is
\* committed or inserted by the transaction itself: the code's throw for an
\* unresolved category cannot be reached, whoever inserts which names meanwhile.
THEOREM EveryCategoryResolves == Spec => []CategoriesResolved
<1>1. Init => NamesInOrder
  BY DEF Init, IdleTxn, NamesInOrder, Resolving, NamesLeft
<1>2. NamesInOrder => CategoriesResolved
  BY DEF NamesInOrder, Resolving, NamesLeft, CategoriesResolved
<1> QED BY <1>1, <1>2, NextNames, CatalogTypes, PTL DEF Spec

-----------------------------------------------------------------------------
(***************************************************************************)
(* What a run reports for invalidation.                                    *)
(***************************************************************************)
\* Only the absence of a product has no category.
StoredHasCategory == \A s \in Skus : products[s].cat = NoCategory => products[s] = NoProduct

\* A run that moves a product reports both ends of the move, and one that
\* changes a price reports the category it is listed in.
LEMMA MoveIsTouched ==
  ASSUME NEW old \in Product, NEW new \in Product, NEW k \in Categories,
         old.cat = NoCategory => old = NoProduct,
         \/ old.cat = k /\ (new.cat # k \/ new.price # old.price)
         \/ new.cat = k /\ (old.cat # k \/ new.price # old.price)
  PROVE  k \in Touched(old, new)
  BY CategoryAssumption DEF Touched

\* A listing that changes has a product that came, left or changed its price.
LEMMA ListingMove ==
  ASSUME TypeOK, NEW k \in Categories, Listing(k)' # Listing(k)
  PROVE  \E s \in Skus :
           \/ products[s].cat = k /\ (products'[s].cat # k \/ products'[s].price # products[s].price)
           \/ products'[s].cat = k /\ (products[s].cat # k \/ products'[s].price # products[s].price)
<1>1. PICK x : (x \in Listing(k)) # (x \in Listing(k)')
  BY DEF Listing
<1>2. CASE x \in Listing(k)
  <2>1. PICK s \in Skus : products[s].cat = k /\ x = <<s, products[s].price>>
    BY <1>2 DEF Listing
  <2>2. ~(products'[s].cat = k /\ x = <<s, products'[s].price>>)
    BY <1>1, <1>2 DEF Listing
  <2> QED BY <2>1, <2>2
<1>3. CASE x \in Listing(k)'
  <2>1. PICK s \in Skus : products'[s].cat = k /\ x = <<s, products'[s].price>>
    BY <1>3 DEF Listing
  <2>2. ~(products[s].cat = k /\ x = <<s, products[s].price>>)
    BY <1>1, <1>3 DEF Listing
  <2> QED BY <2>1, <2>2
<1> QED BY <1>1, <1>2, <1>3

\* Every step keeps stored products in a category.
LEMMA NextStored == TypeOK /\ StoredHasCategory /\ [Next]_vars => StoredHasCategory'
<1> SUFFICES ASSUME TypeOK, StoredHasCategory, [Next]_vars PROVE StoredHasCategory'
  OBVIOUS
<1>1. ASSUME NEW t \in Txns, Commit(t) PROVE StoredHasCategory'
  <2>1. products' = [s \in Skus |-> Upserted(txns[t].chunk, s)]
    BY <1>1 DEF Commit
  <2>2. txns[t].chunk \in Chunks
    BY DEF TypeOK, TxnState
  <2>3. ASSUME NEW s \in Skus, Upserted(txns[t].chunk, s).cat = NoCategory
        PROVE  Upserted(txns[t].chunk, s) = NoProduct
    BY <2>2, <2>3, AppliedHasCategory DEF StoredHasCategory
  <2> QED BY <2>1, <2>3 DEF StoredHasCategory
<1>2. ASSUME NEW s \in Skus, NEW k \in Categories, NEW price \in NewPrices,
             CreateProduct(s, k, price)
      PROVE  StoredHasCategory'
  BY <1>2, CategoryAssumption DEF CreateProduct, StoredHasCategory, TypeOK
<1>3. CASE UNCHANGED products
  BY <1>3 DEF StoredHasCategory
<1> QED BY <1>1, <1>2, <1>3
     DEF Next, vars, Begin, InsertCategory, StartUpsert, LockProduct, Rollback

\* A run that changes what some category lists, by a price, an arrival or a
\* departure, records the category on its chunk, where the invalidation after
\* the job reads it.
THEOREM ListingChangesReported == Spec => ListingChangeIsReported
<1> DEFINE Reported == \A t \in Txns, c \in Chunks, k \in Categories :
                         Ends(t, c) /\ Listing(k)' # Listing(k) => k \in changed'[c]
<1>1. TypeOK /\ StoredHasCategory /\ [Next]_vars => [Reported]_vars
  <2> SUFFICES ASSUME TypeOK, StoredHasCategory, Next, NEW t \in Txns, NEW c \in Chunks,
                      NEW k \in Categories, Ends(t, c), Listing(k)' # Listing(k)
               PROVE  k \in changed'[c]
    BY DEF vars
  <2>1. products' # products
    BY DEF Listing
  <2>2. ASSUME NEW u \in Txns, Commit(u) PROVE k \in changed'[c]
    <3> DEFINE new == [s \in Skus |-> Upserted(c, s)]
               applied == {s \in Skus : new[s] # products[s]}
    <3>1. u = t
      BY <2>2 DEF Commit, Ends, Idle, TypeOK
    <3>2. /\ products' = new
          /\ changed' = [changed EXCEPT ![c] = UNION {Touched(products[s], new[s]) : s \in applied}]
      BY <2>2, <3>1 DEF Commit, Ends
    <3>3. PICK s \in Skus :
            \/ products[s].cat = k /\ (products'[s].cat # k \/ products'[s].price # products[s].price)
            \/ products'[s].cat = k /\ (products[s].cat # k \/ products'[s].price # products[s].price)
      BY ListingMove
    <3>4. products[s] \in Product /\ new[s] \in Product
      BY UpsertedType DEF TypeOK
    <3>5. products'[s] = new[s]
      BY <3>2
    <3>6. k \in Touched(products[s], new[s])
      <4> HIDE DEF new
      <4> QED BY <3>3, <3>4, <3>5, MoveIsTouched DEF StoredHasCategory
    <3>7. s \in applied
      BY <3>3, <3>5
    <3>8. changed'[c] = UNION {Touched(products[q], new[q]) : q \in applied}
      BY <3>2 DEF TypeOK
    <3> QED BY <3>6, <3>7, <3>8
  <2>3. ASSUME NEW s \in Skus, NEW l \in Categories, NEW price \in NewPrices,
               CreateProduct(s, l, price)
        PROVE  FALSE
    BY <2>3 DEF CreateProduct, Ends, Idle
  <2>4. ASSUME NEW u \in Txns,
               \/ \E d \in Chunks : Begin(u, d)
               \/ InsertCategory(u) \/ StartUpsert(u) \/ LockProduct(u) \/ Rollback(u)
        PROVE  FALSE
    BY <2>1, <2>4 DEF Begin, InsertCategory, StartUpsert, LockProduct, Rollback
  <2> QED BY <2>2, <2>3, <2>4 DEF Next
<1>2. Init => StoredHasCategory
  BY DEF Init, StoredHasCategory
<1>3. Spec => [][Reported]_vars
  BY <1>1, <1>2, NextStored, CatalogTypes, PTL DEF Spec
<1> QED BY <1>3 DEF ListingChangeIsReported
=============================================================================
