---------------------------- MODULE CatalogUpsert ----------------------------
(***************************************************************************)
(* The transaction of the chunk processor (process in                      *)
(* src/ingest/processor.ts): any number of runs of any chunks, of several  *)
(* jobs, concurrently, in any order and again, writing one catalog.        *)
(*                                                                         *)
(* A transaction meets Postgres row locks in two places, both in the order *)
(* of its batch: the INSERT of category names that do not exist yet and    *)
(* the upsert of products.  Locks last until the commit, so what the       *)
(* upsert reads cannot change before the transaction ends and all its      *)
(* writes are made visible, as one, by Commit.  A run that reports the     *)
(* same bad rows as another waits for it before it holds anything.         *)
(***************************************************************************)
EXTENDS Integers, FiniteSets

CONSTANTS
  Txns,         \* processor invocations that may be in their transaction at once
  Chunks,       \* chunks, each of one job
  JobSeq,       \* ingest_jobs.job_seq of a chunk's job
  SkuCount,     \* number of skus; numbered as the sort by sku orders them
  Categories, NoCategory,
  RowLimit,     \* 2^32: what job_seq is shifted by, above every row_no
  Contents,     \* the rows the chunks may have
  OldCategories,  \* categories that exist from the start
  MaxRuns,      \* bound on the transactions begun
  NewPrices,    \* prices a product created through the API may have
  MaxCreated    \* bound on the products created through the API

VARIABLES
  content,      \* the rows of each chunk
  categories, products,   \* committed rows of the two tables
  done,         \* chunks whose row says DONE
  changed,      \* ingest_chunks.changed_category_ids
  rowErrors,    \* ingest_row_errors: job and row number
  created,      \* products as they were created through the API
  txns,         \* where each transaction stands
  runs          \* transactions begun

vars == <<content, categories, products, done, changed, rowErrors, created, txns, runs>>

Skus == 1 .. SkuCount
RowNo == 1 .. RowLimit - 1

\* What a file row is to the upsert: ok is FALSE when validation or pricing rejects it.
Row == [no : RowNo, sku : Skus, cat : Categories, price : Nat, ok : BOOLEAN]

\* Row numbers run through the file: the chunks of a job share none.
FileRows(f) ==
  \A c, d \in Chunks : \A r \in f[c], q \in f[d] :
    JobSeq[c] = JobSeq[d] /\ r.no = q.no => c = d /\ r = q

ASSUME ChunksAssumption == Chunks # {}
ASSUME JobSeqAssumption == JobSeq \in [Chunks -> Nat \ {0}]
ASSUME SkuCountAssumption == SkuCount \in Nat
ASSUME RowLimitAssumption == RowLimit \in Nat \ {0}
ASSUME NewPricesAssumption == NewPrices \subseteq Nat
ASSUME ContentsAssumption ==
  \A f \in Contents : f \in [Chunks -> SUBSET Row] /\ FileRows(f)
ASSUME CategoryAssumption == OldCategories \subseteq Categories /\ NoCategory \notin Categories

\* (job_seq << 32) | row_no
SourceSeq(c, no) == JobSeq[c] * RowLimit + no

\* A row of the products table; NoProduct stands for "no such sku".
Product == [cat : Categories \cup {NoCategory}, price : Nat, seq : Int]
NoProduct == [cat |-> NoCategory, price |-> 0, seq |-> -1]
Stored(c, r) == [cat |-> r.cat, price |-> r.price, seq |-> SourceSeq(c, r.no)]

Valid(c) == {r \in content[c] : r.ok}

\* Mutant of Batch: the first row of a sku wins.
FirstRows(c) == {r \in Valid(c) : \A q \in Valid(c) : q.sku = r.sku => q.no >= r.no}

\* dedupeAndSort: per sku the row with the highest number.
Batch(c) == {r \in Valid(c) : \A q \in Valid(c) : q.sku = r.sku => q.no <= r.no}

\* todo: the batch rows whose lock this phase still takes.
TxnState == [phase : {"idle", "categories", "products"}, chunk : Chunks,
             todo : SUBSET Row, cats : SUBSET Categories, skus : SUBSET Skus]

Idle(t) == txns[t].phase = "idle"
IdleTxn(c) == [phase |-> "idle", chunk |-> c, todo |-> {}, cats |-> {}, skus |-> {}]

\* Mutant of FirstBySku: the batch is not sorted.
AnyRow(R) == R

\* The rows of the batch are gone through by sku.
FirstBySku(R) == {r \in R : \A q \in R : r.sku <= q.sku}

Begin(t, c) ==
  /\ Idle(t)
  /\ runs < MaxRuns
  /\ runs' = runs + 1
  /\ txns' = [txns EXCEPT ![t] =
       [IdleTxn(c) EXCEPT !.phase = "categories", !.todo = Batch(c)]]
  /\ UNCHANGED <<content, categories, products, done, changed, rowErrors, created>>

\* Mutant of InsertCategory: a name another transaction is inserting is skipped.
InsertWithoutWaiting(t) ==
  /\ txns[t].phase = "categories"
  /\ \E r \in FirstBySku(txns[t].todo) :
       txns' = [txns EXCEPT ![t] =
         [txns[t] EXCEPT !.todo = @ \ {r},
                         !.cats = @ \cup {k \in {r.cat} \ categories :
                                            \A u \in Txns \ {t} : k \notin txns[u].cats}]]
  /\ UNCHANGED <<content, categories, products, done, changed, rowErrors, created, runs>>

\* INSERT .. ON CONFLICT DO NOTHING of one name: it waits for another
\* transaction that is inserting the same name, and for nobody else.
InsertCategory(t) ==
  /\ txns[t].phase = "categories"
  /\ \E r \in FirstBySku(txns[t].todo) :
       /\ \A u \in Txns \ {t} : r.cat \notin txns[u].cats
       /\ txns' = [txns EXCEPT ![t] =
            [txns[t] EXCEPT !.todo = @ \ {r}, !.cats = @ \cup ({r.cat} \ categories)]]
  /\ UNCHANGED <<content, categories, products, done, changed, rowErrors, created, runs>>

StartUpsert(t) ==
  /\ txns[t].phase = "categories"
  /\ txns[t].todo = {}
  /\ txns' = [txns EXCEPT ![t] =
       [txns[t] EXCEPT !.phase = "products", !.todo = Batch(txns[t].chunk)]]
  /\ UNCHANGED <<content, categories, products, done, changed, rowErrors, created, runs>>

\* The upsert locks a product whether or not its WHERE lets the row through.
LockProduct(t) ==
  /\ txns[t].phase = "products"
  /\ \E r \in FirstBySku(txns[t].todo) :
       /\ \A u \in Txns \ {t} : r.sku \notin txns[u].skus
       /\ txns' = [txns EXCEPT ![t] =
            [txns[t] EXCEPT !.todo = @ \ {r}, !.skus = @ \cup {r.sku}]]
  /\ UNCHANGED <<content, categories, products, done, changed, rowErrors, created, runs>>

\* Mutant of Upserted: an upsert without its WHERE.
UpsertedAlways(c, s) ==
  LET mine == {r \in Batch(c) : r.sku = s}
  IN  IF mine = {} THEN products[s] ELSE Stored(c, CHOOSE r \in mine : TRUE)

\* What the upsert of this chunk leaves as the product: newest wins.
Upserted(c, s) ==
  LET newer == {r \in Batch(c) : r.sku = s /\ SourceSeq(c, r.no) > products[s].seq}
  IN  IF newer = {} THEN products[s] ELSE Stored(c, CHOOSE r \in newer : TRUE)

\* Mutant of Touched: the category a product left is forgotten.
TouchedByArrival(old, new) ==
  IF old.price # new.price \/ old.cat # new.cat THEN {new.cat} ELSE {}

\* Mutant of Touched: the null category of a new product is not left out.
TouchedWithNull(old, new) ==
  (IF old = NoProduct \/ old.price # new.price THEN {new.cat} ELSE {}) \cup
  (IF old.cat # new.cat THEN {old.cat, new.cat} ELSE {})

\* RETURNING OLD/NEW of an applied row: a price moved, or a product is new to a
\* category and has left another.
Touched(old, new) ==
  (IF old = NoProduct \/ old.price # new.price THEN {new.cat} ELSE {}) \cup
  (IF old.cat \notin {NoCategory, new.cat} THEN {old.cat, new.cat} ELSE {})

BadRows(c) == {<<JobSeq[c], r.no>> : r \in {q \in content[c] : ~q.ok}}

\* The last statement marks the chunk DONE with the outcome of this run.
Commit(t) ==
  LET c == txns[t].chunk
      new == [s \in Skus |-> Upserted(c, s)]
      applied == {s \in Skus : new[s] # products[s]}
  IN
  /\ txns[t].phase = "products"
  /\ txns[t].todo = {}
  /\ products' = new
  /\ categories' = categories \cup txns[t].cats
  /\ rowErrors' = rowErrors \cup BadRows(c)
  /\ changed' = [changed EXCEPT ![c] = UNION {Touched(products[s], new[s]) : s \in applied}]
  /\ done' = done \cup {c}
  /\ txns' = [txns EXCEPT ![t] = IdleTxn(c)]
  /\ UNCHANGED <<content, created, runs>>

\* An error, a dead worker or a deadlock: everything is rolled back.
Rollback(t) ==
  /\ ~Idle(t)
  /\ txns' = [txns EXCEPT ![t] = IdleTxn(txns[t].chunk)]
  /\ UNCHANGED <<content, categories, products, done, changed, rowErrors, created, runs>>

\* createProduct of src/products/service.ts, one INSERT: source_seq is 0, an
\* existing sku is a 409, a sku some transaction is writing is waited for.
CreateProduct(s, k, price) ==
  /\ Cardinality(created) < MaxCreated
  /\ k \in categories
  /\ products[s] = NoProduct
  /\ \A t \in Txns : s \notin txns[t].skus
  /\ products' = [products EXCEPT ![s] = [cat |-> k, price |-> price, seq |-> 0]]
  /\ created' = created \cup {[sku |-> s, cat |-> k, price |-> price, seq |-> 0]}
  /\ UNCHANGED <<content, categories, done, changed, rowErrors, txns, runs>>

Init ==
  /\ content \in Contents
  /\ categories = OldCategories
  /\ products = [s \in Skus |-> NoProduct]
  /\ done = {} /\ rowErrors = {} /\ created = {}
  /\ changed = [c \in Chunks |-> {}]
  /\ txns = [t \in Txns |-> IdleTxn(CHOOSE c \in Chunks : TRUE)]
  /\ runs = 0

Next ==
  \/ \E t \in Txns : \/ \E c \in Chunks : Begin(t, c)
                     \/ InsertCategory(t) \/ StartUpsert(t) \/ LockProduct(t)
                     \/ Commit(t) \/ Rollback(t)
  \/ \E s \in Skus, k \in Categories, price \in NewPrices : CreateProduct(s, k, price)

Spec == Init /\ [][Next]_vars

-----------------------------------------------------------------------------
\* Everything the catalog was ever offered: API products, rows of chunks DONE.
Offers ==
  created \cup
  UNION {{[sku |-> r.sku, cat |-> r.cat, price |-> r.price, seq |-> SourceSeq(c, r.no)] :
            r \in Valid(c)} : c \in done}

\* Product p is what the newest of the offers O for sku s says.
IsNewest(p, s, O) ==
  LET mine == {o \in O : o.sku = s} IN
  \/ mine = {} /\ p = NoProduct
  \/ \E o \in mine : /\ \A q \in mine : q.seq <= o.seq
                     /\ p = [cat |-> o.cat, price |-> o.price, seq |-> o.seq]

TypeOK ==
  /\ content \in [Chunks -> SUBSET Row] /\ FileRows(content)
  /\ categories \subseteq Categories
  /\ products \in [Skus -> Product]
  /\ done \subseteq Chunks
  /\ changed \in [Chunks -> SUBSET Categories]
  /\ rowErrors \subseteq (Nat \ {0}) \X RowNo
  /\ created \subseteq [sku : Skus, cat : Categories, price : Nat, seq : {0}]
  /\ txns \in [Txns -> TxnState]
  /\ runs \in Nat

\* Whatever ran, in whatever order and however often, a product is what the
\* newest row offered for it says (src/ingest/source-seq.sql.ts: "duplicate
\* SKUs, out-of-order chunks and DLQ replays all converge").
NewestWins == \A s \in Skus : IsNewest(products[s], s, Offers)

\* Every name of the batch has an id when the upsert needs it, whoever inserted
\* it: the throw for an unresolved category is unreachable.
CategoriesResolved ==
  \A t \in Txns : txns[t].phase = "products" =>
    \A r \in Batch(txns[t].chunk) : r.cat \in categories \cup txns[t].cats

\* The locks a transaction waits for, and who has them.
Wanted(t) ==
  {<<"category", r.cat>> : r \in {q \in FirstBySku(txns[t].todo) : txns[t].phase = "categories"}}
  \cup {<<"product", r.sku>> : r \in {q \in FirstBySku(txns[t].todo) : txns[t].phase = "products"}}
Held(t) ==
  {<<"category", k>> : k \in txns[t].cats} \cup {<<"product", s>> : s \in txns[t].skus}
Blocks(u, t) == u # t /\ Wanted(t) \cap Held(u) # {}

\* No set of transactions in which each one waits for another of the set.
NoDeadlock ==
  \A S \in (SUBSET Txns) \ {{}} : \E t \in S : \A u \in S : ~Blocks(u, t)

Ends(t, c) == txns[t].chunk = c /\ ~Idle(t) /\ txns'[t].phase = "idle"

\* A chunk that is DONE already moves no product when it is run again.
RerunMovesNothing ==
  [][\A t \in Txns, c \in done : Ends(t, c) => products' = products]_vars

Listing(k) == {<<s, products[s].price>> : s \in {q \in Skus : products[q].cat = k}}

\* A run that changes what a category lists reports the category.
ListingChangeIsReported ==
  [][\A t \in Txns, c \in Chunks, k \in Categories :
       Ends(t, c) /\ Listing(k)' # Listing(k) => k \in changed'[c]]_vars
=============================================================================
