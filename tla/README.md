# A TLA+ development of promo-engine

Specifications of the Promotion Management API, the TLC configurations that
check them on small instances, and theorems about them whose proofs the TLA+
proof system checks. Paths such as `src/ingest/splitter.ts` and `ui/app.js` are
paths of the repository.

1. [The system](#1-the-system)
2. [The modules and the code](#2-the-modules-and-the-code)
3. [How the modules fit together](#3-how-the-modules-fit-together)
4. [What the runs check](#4-what-the-runs-check)
5. [Where the code does something else than it says](#5-where-the-code-does-something-else-than-it-says)
6. [What is proved](#6-what-is-proved)
7. [What is not modelled](#7-what-is-not-modelled)
8. [Plan](#8-plan)

To check a run: `tlc -config ingest_split.cfg MCIngestPipeline.tla`; to check
the proofs: `tlapm CatalogUpsertProofs.tla`. `PROJECT.json` lists the runs, the
mutants that show that each property depends on the code, the lines every
definition is translated from, the hazards and the theorems.

## 1. The system

The program is an Express API and a worker over Postgres, Redis and BullMQ, with
a page for operators. Vendor files become products through a resumable pipeline;
promotions discount products or categories; prices are computed when they are
read and cached under a version per category.

| Component | State it keeps | Operations | Talks to |
|---|---|---|---|
| Ingest API (`src/ingest/service.ts`) | `ingest_jobs` | `createJob`, `replayFailed`, reads | enqueues to both queues, resets chunk rows, completes and invalidates |
| Queues (`src/queue/`) | one record per message id: `waiting`, `active`, `completed`, `failed` | `enqueue` (deduplicated by id), `remove`, delivery, settling, stalled check | hand messages to the worker, park exhausted ones in the dead-letter queue |
| Splitter (`src/ingest/splitter.ts`) | `ingest_jobs.status`, `next_chunk_index`, chunk rows and files | one invocation per split message | enqueues chunks and its own continuation |
| Chunk processor (`src/ingest/processor.ts`) | `ingest_chunks`, products, categories, row errors | claim, transaction, error path | upserts the catalog, completes and invalidates |
| Row validation, pricing rules (`row-schema.ts`, `pricing-rules.ts`) | none | a row becomes a base price, or is rejected | called in the transaction |
| Completion, invalidation (`completion.ts`, `invalidation.ts`) | derived from chunk rows | one conditional `UPDATE`, then one version bump per changed category | called by splitter, processor and replay |
| Promotions (`src/promotions/`) | promotions under two exclusion constraints | create, cancel, assign, list | database, version bumps |
| Effective price (`effective-price.sql.ts`) | none | the lateral join of products and promotions | used by listing, detail and the promotion rules |
| Version cache (`src/cache/`) | `catver:<scope>`, cached views, in-process flights | read, bump, single-flight | product service, promotions, invalidation |
| Product service (`src/products/`) | products | listing by keyset pages, detail, create | database, cache |
| Migrations (`src/db/migrate.ts`) | `schema_migrations` | apply in order under an advisory lock | database |
| Operator page (`ui/app.js`) | one object per view, timers, requests in flight | routing, tables, forms, picker, uploads, polling | the API |

What is hard, part by part:

- **The pipeline.** Nothing in it holds a lock across two statements: two
  invocations of the splitter may overlap (a retry, a continuation, a lapsed
  lock), a chunk may be processed by a worker that died, by its successor, and by
  a worker that was only slow; the API resets rows while their messages are still
  being settled; completion is derived by whoever comes last and is followed by a
  separate invalidation. The states that matter are spread over a job row, chunk
  rows and two kinds of queue records, which are never updated together.
- **The catalog transaction.** Concurrent batches over the same products and new
  categories must converge and must not deadlock.
- **Prices.** Requests read, await and write; between the two another request or
  an ingest re-prices, moves, cancels or re-targets. Only two constraints keep a
  price from being ambiguous. Whoever changes a price has to announce it, in the
  categories it finds at that moment.
- **Cached reads.** A read takes a version, an entry, a flight and a query in
  different moments, while commits and bumps go on and Redis fails open.
- **Migrations.** Instances of different releases start together, over a database
  that drops connections at the worst moment.
- **The page.** Answers come in any order; views share one network, one modal
  element and one stale flag.

What makes the parts correct:

- the splitter: whatever the checkpoint makes a resumed run skip is in place,
  and an unfinished split has a message that continues it;
- the processors: one at a time per chunk as long as no lock lapses, and never a
  step that takes finished work back;
- completion: not before every chunk of the file is settled, by somebody in
  every order of events, and eventually;
- replay: finds every chunk that ran out of attempts, and leaves none without a
  message;
- invalidation: no price change of a finished job without a version bump;
- the catalog: the newest row wins in every order, a rerun changes nothing,
  every changed listing is reported, the batches do not deadlock;
- prices: one price per product and instant, within its bounds, explained by the
  promotion list and by the pricing rules; every change announced;
- the cache: no read returns what was replaced before the version it asked under;
  one computation per key; whatever is lost, the TTL repairs it;
- migrations: each once, whole, in order; nobody fails because of somebody else;
- the page: rows of the listing that is set, each once; nothing sent twice; the
  job list true in the end.

`PROJECT.json` lists each hazard at the line where it bites.

## 2. The modules and the code

**MessageQueue.** Ids are deterministic (`messageIds`), so a queue is a function
from ids to records. `Enqueue` ignores an id that has a record in any state;
`Removed` leaves a held message in place; `Fail` counts towards `MaxAttempts`
and leaves the record of an exhausted message; `Unlock` is a worker that died or
overslept its lock; `Redeliver` is BullMQ's stalled check, which gives up the
second time. BullMQ is not under `src/`: what it does on completion, failure and
stalling is modelled from how `bullmq.ts` configures it. A message in backoff is
a waiting message that is not taken yet.

**IngestState.** `jobStatus` and `nextChunk` are the row of `ingest_jobs`;
`chunkStatus`, `attempts`, `stale` and `changed` the rows of `ingest_chunks`
(`stale`: `updated_at` is older than the invocation timeout; `changed`: the run
recorded a category in `changed_category_ids`). `dirty` is the set of categories
with a committed price change that no version bump followed; chunk *i* changes
prices in a category *i* of its own, so that a lost bump is not hidden by the
bump of another chunk. `CheckJobCompletion` is the `UPDATE` of `completion.ts`,
`AfterJobFinished` the read of the changed categories and the bump, as one step.
A file is its number of full chunks, whether a shorter tail follows, and whether
the parser accepts it.

**Splitter.** One action for each awaited step: receive, claim the job, put a
chunk file, insert its row, offer its message, move the checkpoint, enqueue a
continuation, end or reject the file, check completion, bump, settle the
delivery. `SplitThrow` lets a step throw, `SplitCrash` kills the invocation,
`SplitPause` lets its lock lapse while it goes on. The parser reads ahead of the
chunks, so `RejectFile` may come before the chunks in front of the error.

**ChunkProcessor.** `Claim` and `Skip` are the conditional `UPDATE`, `Commit` the
transaction, `MarkFailed` the error path outside it, `Finish` and `Bump` what
follows either, `Settle` and `Park` what the queue does with the outcome. Only
the transaction is inside the `try`: a `Throw` anywhere else goes straight to
the queue. `GoStale` may happen at any time after the claim, which is more than
time allows and so covers it.

**IngestService.** `createJob` is `Upload` and `EnqueueSplit`; `replayFailed` is
`ReplayFind`, `ReplaySelect`, a loop of `ReplayRemove`, `ReplayEnqueue` and
`ReplayReset`, then the split's `ReplaySplitRemove` and `ReplaySplitEnqueue` or
the flip's `ReplayFlip`, `ReplayCheck` and `ReplayBump`. What a request read
first it keeps in its record, however old. **IngestPipeline** puts the three
actors together.

**CatalogUpsert.** Any number of transactions run chunks of several jobs, each
chunk as often as wanted. A transaction takes row locks in two places, both in
the order of its batch: inserting category names (`InsertCategory`) and
upserting products (`LockProduct`). Locks last to the end, so what the upsert
reads cannot change before the commit, and `Commit` evaluates the upsert, the
reported categories and the outcome at once. The upsert locks a product even if
its `WHERE` turns the row away. `RowLimit` stands for 2^32, by which `job_seq`
is shifted. `CreateProduct` is the API's `INSERT`, with sequence 0. A row is its
number, sku, category, price and whether validation and pricing accept it; name
and stock take no part in what is decided.

**Pricing.** What a row becomes: margin of its category or the default, never
below the floor; the raw price in hundredths of a cent, as exact as decimal.js;
the nearest price with the configured cents; the rejections of a row that is
malformed, sold below its cost, or dearer than `MONEY_STRING` takes. `IsPriceOf` says the
same without the algorithm, and `PricedByTheRules` compares them.

**EffectivePrice.** The lateral join over the rows of `promotions`: the half-open
window, `status = 'ACTIVE'`, precedence of the product's promotion, the two
discounts with the rounding of `numeric(12,2)`. `First` is the set of rows that
may come first under `ORDER BY ... LIMIT 1`, so that an ambiguous price is two
members and not a choice of the model. `EffectiveStatus` is the other place
where the window is written, the list of promotions.

**Promotions.** Every writer of a price. `create` is `StartCreate`, `CreateCheck`
(the FIXED rule, read before the write) and `Insert` (with the exclusion
constraint); `assign` is `AssignFind`, `AssignCheck` and `AssignUpdate`; `cancel`
one conditional `UPDATE`; then `CategoryOf` and `Bump`. `IngestRow` applies a row
at the price `Pricing` gives it and may move the product; `IngestFinished` bumps
what the rows touched. `unbumped` is the history variable of the announcements: a
write puts into it each category whose listing is different, at some instant,
from what it was; a bump takes it out. No write reads the clock, so there is
none: properties are about every instant.

**VersionedCache.** `getProduct` is a flight for the product's category (`MapGet`,
`MapQuery`, `MapPut`), the version (`Version`), a flight for the view (`Get`,
`Query`, `Put`) and, when the view turns out to be of another category,
`Correct`; `listProducts` starts at `Version`. Everyone who waits for a flight
gets its result or its rejection. Redis errors at any command lead to the
database (`Get`, `MapGet`), to no entry (`Put`) or to a read without a version,
which is neither found in nor put into the cache (`Version`). A view is
abstracted to the number of the last commit that changed it; a writer commits and
then issues its `INCR`s one by one, of which any may be lost. `due[s][n]` is a
history variable: for each prefix, the newest change that had been announced when
scope *s* got version *n*.

**Migrations**, **SchemaHistory.** One action per statement of `runMigrations`,
with `waitForPostgres` in front; the database may stop, drop a session, or lose
the confirmation of a `COMMIT`. A session that ends takes its transaction and its
advisory lock with it. SchemaHistory is what the file promises of the database:
whole migrations, one after the other, each once.

**UiRequests, ProductsView, PromotionsView, IngestView, OperatorUi.** `inflight`
is the set of requests on the network: the server acts on one (`Serve...`) and
the page gets an answer (`Answer...`) or a failure (`Fail...`), in any order. Where
the code numbers its requests and drops late answers, a request is `current` or
not. ProductsView has the table with its filter, order and cursor, the keyset
pages of the server, and the drawer. A cursor is the key of the last row and the
listing it was made for, and the server refuses one of another listing
(`Refused`). The prices of the catalog are the sequence `priced`, and a page shows
those of now or, from the versioned cache, older ones: of each scope `oldest` is
the oldest that an entry may still have, which a bump (`Bump`) or the TTL
(`Expire`) raises. `unannounced` and `moved` are history: what was repriced and
not bumped since, within the TTL; and that, as it was when the table was last
reset, with what was repriced since then. PromotionsView has the
table with its two-click Cancel buttons, the one modal element that all forms
share and the picker; IngestView the list of the newest jobs, the selected card,
the chain of requests of a refresh and the timer. OperatorUi adds the routing.
A `Session` says which views are used, whether the user waits for answers before
he acts, and how often he acts and requests fail.

## 3. How the modules fit together

```
MessageQueue        one queue as bullmq.ts uses BullMQ: operators over its records
  ^ INSTANCE
IngestState         the state of one job; completion and invalidation
  ^ EXTENDS
Splitter  ChunkProcessor  IngestService      the three actors
  ^ EXTENDS
IngestPipeline      Init, Next, fairness, properties     IngestPipelineProofs

CatalogUpsert       the processor's transaction          CatalogUpsertProofs

Pricing   EffectivePrice      operators: base price, effective price
  ^ EXTENDS
Promotions          every writer of a price              PromotionsProofs

VersionedCache      every cached read                    VersionedCacheProofs

SchemaHistory       what migrations promise
  ^ INSTANCE ... WITH
Migrations          several runners                      MigrationsProofs

UiRequests <- ProductsView <- PromotionsView, IngestView <- OperatorUi
```

`MC*` modules give the constants of each their values for TLC.

Four arguments connect modules that do not extend each other:

- In ChunkProcessor the transaction is one step that changes prices the first
  time and none later. CatalogUpsert is why that is sound: a chunk that is `DONE`
  was committed with its products, and its rerun moves none (`RerunMovesNothing`).
- CatalogUpsert gives a row its price as data. Pricing is where the price comes
  from, and Promotions applies it (`IngestRow`) for one row at a time, which is
  sound because the rows of a batch are about different products.
- *Which* scopes a writer has to bump is the subject of `PriceChangesAreBumped`
  (Promotions) and `ListingChangeIsReported` (CatalogUpsert); that a bump, once
  issued, protects readers is `FreshRead` (VersionedCache), whose writers bump
  exactly those scopes; that nothing else depends on a bump is `EventuallyFresh`.
  ProductsView takes from there how old a page may be (`ServePage`): not older than
  the last bump of its scope before it was asked for, nor than the TTL.
- IngestView takes a job to be unfinished until it is finished. That it finishes
  is `StartedJobFinishes` of the pipeline.

## 4. What the runs check

Ten runs pass, two are violated (section 5). All set `CHECK_DEADLOCK FALSE`: with
no budget of faults, requests and runs left, resting is what the system does.

| Run | Instance | Properties |
|---|---|---|
| `ingest_split` | 2 splitters, no processor, 2 clients; files of 0 to 2 chunks, good and bad; an error in any step, a crash, a lapsed lock, 2 uploads | `TypeOK`; `CheckpointIsCovered`: file, row and message of every chunk before the checkpoint exist; `MessageHasRowAndFile`; `UnfinishedSplitIsQueued` |
| `ingest_retry` | 1 splitter, 2 processors, every file, 2 attempts, 3 failed transactions, under fairness | `StartedJobFinishes` (liveness); `PartialHasFailedChunk`; `FinishedJobIsInvalidated` |
| `ingest_crash` | 2 processors, 2 chunks, 2 failed transactions, 1 crash | `PendingIsQueued`; `ExhaustedIsReplayable` |
| `ingest_replay` | 2 processors, 1 chunk, one each of error, crash, lapsed lock and replay; the request may be cut off at any statement | `ExclusiveProcessing`; `FinishedWorkIsKept` with a processor that outlived its lock |
| `ingest_two_replays` | 1 splitter, 1 processor, 2 clients, 2 replays, 3 errors anywhere but in the completion check | `CompletionIsNotEarly`; `SettledJobHasFinisher` |
| `catalog_upsert` | 2 transactions at once, 3 runs in all, 3 chunks of 2 jobs, 2 skus, 2 categories of which one is new, 1 API product; 64 contents | `TypeOK`, `NewestWins`, `CategoriesResolved`, `NoDeadlock`, `RerunMovesNothing`, `ListingChangeIsReported` |
| `catalog_prices` | 2 clients, 3 requests, 1 ingest row; a product that is re-priced, one that moves, one that is created; 2 categories; 3 tables of earlier promotions; 3 instants; one client may re-target | `TypeOK`; `PriceIsDetermined`; `PriceWithinBounds`; `ListAgreesWithPricing`; `PriceChangesAreBumped`; `PricedByTheRules`; `CancelIsFinal` |
| `cached_reads` | 2 requests, 6 combinations of what they read and of the two switches; 1 product, 2 categories, all their keys; 1 commit of any kind, 1 failure of Redis or the database; under fairness | `TypeOK`; `FreshRead`; `OneFlight`; `EventuallyFresh` (liveness) |
| `migrations` | 3 runners of 3 releases, the newest with a migration that fails; 2 runs each, 2 faults, Postgres up or down at first; under fairness | `TypeOK`; `SuccessIsComplete`; `FailsForCause`; `ImplementsHistory` (refinement); `RunsEnd` (liveness) |
| `operator_ui` | 10 sessions of one or two views, patient and not, with 2 to 5 actions of the user and 0 or 1 failures; 3 products of 2 categories on pages of one, 0 or 1 repricing, announced, expired or neither, pages of any age that allows, 1 promotion, 2 jobs of which the list shows one; under fairness | `RowsAreOfTheFilter`; `UnmovedShownOnce`; `SubmittedOnce`; `FinishMarksStale`; `ListIsTrueInTheEnd` (liveness) |
| `lost_completion` | 1 splitter, 1 processor, 1 chunk, an error in the completion check | violated: `SettledJobFinishes` |
| `lost_reassign` | as `catalog_prices`, both clients may re-target | violated: `PriceChangesAreBumped` |

Every bound is a constant or a guard of its module: `Faults`, `MaxAttempts`,
`MaxChunks` (pipeline), `MaxRuns`, `MaxCreated` (catalog), `MaxRequests`,
`MaxRows`, `MaxTime` (promotions), `MaxCommits`, `MaxFaults` (cache),
`MaxAttempts`, `MaxRuns`, `MaxFaults` (migrations), `Session` (page:
actions, failures, price changes). The proofs of section 6 are for every value of them.

Why the bounds are enough. *Pipeline:* two workers of a kind are needed for an
overlap, and a message has one holder and at most one predecessor that still
runs. Two chunks are needed for "the last one" to be different from "the first
one"; a third adds no new relation, as chunks meet only in the completion check
and the checkpoint. Two attempts separate a retry from exhaustion; one is enough
where only exhaustion matters. *Catalog:* two jobs are the least with an older
and a newer one; two chunks of the older one give runs out of order within a job.
*Prices:* two requests that interleave with each other and with an ingest are the
least for every check-then-write; the third lets an earlier one's promotion be
cancelled or re-targeted meanwhile. Three instants give windows that touch,
overlap and contain each other's ends. *Cache:* a stale read needs one commit, one
reader that started before it and one that joins or finds what the first one did;
more of them are covered by the proof. *Migrations:* a runner that skips, one that
goes on and one that fails, twice each, with a fault in both. *Page:* a late
answer needs two requests and an action between them; each of three products on
its own page gives a walk with a page before and after the one that is disturbed.

What the runs leave out because the code does not promise it:
`ExclusiveProcessing` is stated as long as no lock lapses;
`FinishedJobIsInvalidated` is checked without crashes, a lost bump being bounded
by the TTL; `StartedJobFinishes` and `SettledJobHasFinisher` without a crash and
without an exception in the completion check; `PendingIsQueued` without a replay;
`PriceChangesAreBumped` with one client that re-targets, and with product
promotions only on a product that the ingest does not move; the order of rows and
the walk of the pages (`UnmovedShownOnce`) for a user who waits for answers, and
the latter for products that have not been repriced since the first page was asked
for and whose last change before it had been announced or was older than the TTL;
`ListIsTrueInTheEnd`, of the list and the card, in sessions without a failure. What
happens beyond is in section 5. In `ingest_crash` one crash is allowed: after two,
the stalled check gives the message up, possibly before its chunk was ever
claimed.

**Fairness** is weak everywhere. *Pipeline:* an invocation that has started goes
on, a waiting message is delivered, the stalled check runs and time passes: the
worker and BullMQ loop for ever over these. *Cache:* a request that has started
goes on, because Redis commands time out after 500 ms and fail open, and a flight
settles with its leader; entries are `SET` with a TTL and so expire. *Migrations:*
a runner's next statement is executed or fails, and the lock goes to somebody who
waits for it. *Page:* a request is answered or fails in the end, and timers fire.
Requests, runs, faults, clicks and restarts of Postgres are owed to nobody.

## 5. Where the code does something else than it says

Two runs check a statement of a document or comment and find it violated.

- `lost_completion`: completion is checked "by whichever finishes last"
  (ADR section 7). `finishIfLast` runs outside the `try`; if its statement throws
  after the chunk is `DONE`, the retry finds the chunk not claimable and
  acknowledges it, a replay finds nothing, and the job stays `SPLIT_DONE`.
- `lost_reassign`: "Prices change where the promotion left and where it landed."
  `assign` bumps the target that it read first (`promotions/service.ts:213`). When two of them overlap, the
  second takes the promotion away from where the first has put it, and that
  category is not bumped.

The rest was met while modelling and is known; where a property would be violated
its run says under which conditions it is checked.

*Ingest.* Between `FAILED` and the settling of the last delivery the message is
locked; a replay in that window removes and adds nothing, but resets the row, and
a `PENDING` chunk without a message is left ("never before: a chunk reset without
a message would not be found by the next replay", `service.ts:318`). The second
run of a chunk overwrites the changed categories that the first one recorded
("so the second run changes nothing", ADR). Claims count as attempts, a crash
included, so a job can be `PARTIAL` while the queue still retries the chunk
("`PARTIAL` = some chunk failed after every retry", README). A file rejected half
way does not bump for the chunks already applied. The claim is in front of the
`try`: if it throws until the message is exhausted, the row stays `PENDING`, out
of sight of a replay. A replay decides by the job status it read first. A crash
between the flip to `COMPLETED` and the bump loses the bump. "The sort gives
concurrent chunks a deterministic lock order" (`processor.ts:234`) does for
products; new categories are inserted in the order of the batch, and two chunks
that introduce the same two can deadlock.

*Prices.* A create or assign for a product reads the product's category before
the write (`promotions/service.ts:143`): an ingest that moves it in between, and
finishes, leaves the new category unannounced. An assign that read the row before
a cancel re-targets the cancelled promotion; it stays cancelled. A price that
changes because a window begins or ends is announced to nobody; the TTL bounds
it.

*Pages.* "Only a product whose own effective price crosses the boundary mid-walk can
be missed or repeated" (ADR section 5) is true of pages read from the database.
`listProducts` takes them from the versioned cache for up to 60 s
(`products/service.ts:220`), so the first page of a walk can be older than the
second. A product that was repriced before the walk began, by a window that began or
ended or by an ingest whose job has not bumped yet, may be on neither page or on
both. With `moved' = {}` in `ResetTable`, which is what the sentence says,
`UnmovedShownOnce` is violated.

*Cache.* When the version cannot be read, requests share a flight without a
version and may get what was read before the last write. `put` does not ask
whether the cache is enabled. A scope whose version key is lost counts from the
beginning again, and may meet entries of the old numbers until their TTL.

*Queue.* The dead-letter `add` is not awaited (`bullmq.ts:105`); finished records
beyond the newest thousand are evicted, after which their ids may be added again;
a splitter that resumes with another chunk size than it began with skips or
repeats rows (`splitter.ts:157`).

*Page.* A superseded page request enables "Load more" in its `finally`
(`app.js:340`), so a user who does not wait can have one page twice. The picker
writes its results before it looks at the sequence number (`234`). The answer to
a submitted form closes whatever form has been opened since (`156`). The drawer
(`344`) and the promotions table (`454`) show the answer that comes last. Replay
is sent for the selected job, not for the one the card shows (`772`). A refresh
that fails ends the polling (`683`), and a job that drops out of the list of
eight is not looked at any more (`681`).

## 6. What is proved

Every safety property that a run checks is a theorem for every value of the
constants, or for every value that satisfies a hypothesis named here. A hypothesis
is a condition on constants, the same that the runs of the property are restricted
to (section 4), and section 5 says what goes wrong without it. Each module with
proofs states its inductive invariants, shows that the initial states have them and
that every action keeps them, and concludes.

**The pipeline**, for every number of workers, requests, chunks, attempts and
faults, from the assumptions on the constants in `IngestState`, `Splitter`,
`ChunkProcessor` and `IngestService` (files have at most `MaxChunks` chunks; nobody
is called `NoWorker`; the steps that may fail are steps of the actor). First what
job and chunk rows say (`IngestPipelineProofs`):

- `PipelineTypes`: `Spec => []TypeOK`.
- `CompletionNeverEarly`: `Spec => []CompletionIsNotEarly`. The property is not
  inductive: a job becomes `SPLIT_DONE` because an invocation reached the end of
  the file, and that says nothing of the chunks it skipped when it resumed. The
  inductive invariant adds that every chunk before the checkpoint has a row
  (`CheckpointHasRows`), and that every chunk before the position of a running
  invocation has one, the current chunk included once its row is inserted
  (`SplitterIsCovered`). Rows are never removed, so the other actors cannot
  disturb either; the part about `COMPLETED` holds because the completion check
  sees no outstanding and no `FAILED` row and no step takes `DONE` back.
- `FinishedWorkKept`: `Spec => FinishedWorkIsKept`, from the same invariant: every
  writer of a chunk status is conditional on the status it finds, the checkpoint
  is the greatest of old and new, and the one unconditional write of a job status,
  `FAILED`, cannot come after a final one, because a job past its split has a file
  the parser accepts.

Then what they have to do with the queue records (`IngestQueueProofs`), for which the
operators of `MessageQueue` are characterised once, by what each does to a record:

- `MessagesCanBeProcessed`: `Spec => []MessageHasRowAndFile`, without hypothesis. The
  invariant (`Grounded`): files, rows and messages are made in this order and none of
  the first two is ever taken away; a splitter past a step has left what the step
  makes; a replay goes over rows only.
- `CheckpointIsSafe`: if a replay does not end between removing a message and adding
  it again (`ReplaysEnqueue`), every chunk before the checkpoint has its file, its
  row, and a message record or a replay about to offer it. `CheckpointCovered`:
  without a replay, `Spec => []CheckpointIsCovered`. The invariant (`OfferInv`)
  bounds every splitter by the checkpoint, so that the chunk whose checkpoint it
  moves is the next one, and it has offered it.
- `OneProcessorPerChunk`: `Spec => []ExclusiveProcessing`: until a lock lapses every
  processor holds the message of its chunk (`WorkerHolds`), which has one holder.
- `UnfinishedSplitIsNeverLost`: without a replay,
  `Spec => []UnfinishedSplitIsQueued`. The invariant (`SplitInv`) follows the chain of
  split messages: none is ahead of the checkpoint, an invocation that is about to
  acknowledge its message has ended the split or sent a later one
  (`OnItsWay`), and so an acknowledged message of an unfinished split has a successor
  (`AcknowledgedIsContinued`). Of finitely many messages the last one sent has none.
  For a job that is still `PENDING` without a message the proof counts: every upload so
  far is about to offer the split or has spent an error on it (`SentFromUpload`), so if
  nobody is about to offer it, no more uploads were made than errors.

Last, how jobs end (`IngestFinishProofs`):

- `SettledJobsAreFinished`: if no completion check is cut off, neither by a crash nor
  by an exception (`ChecksRun`), `Spec => []SettledJobHasFinisher`. The part that
  needs work is that the last one to settle a chunk is not excused by somebody who
  checks before him: whoever leaves the last row settled is himself on the way to
  the check.
- `ExhaustedCanBeReplayed`, `WaitingChunksAreQueued`: without a replay, with at most
  one crash or lapsed lock and claims that do not throw (`ClaimsRun`),
  `Spec => []ExhaustedIsReplayable` and `Spec => []PendingIsQueued`. The invariant
  (`StartInv`): a processor past its claim, and a message that is settled, left a row
  that was claimed; a message loses its worker once at most, so the stalled check
  does not give it up.
- `PartialIsDeserved`: without replays, crashes and lapsed locks (`ErrorsOnly`),
  `Spec => []PartialHasFailedChunk`. The invariants count: a row is claimed once for
  each delivery of its message (`DeliveryInv`), so one that failed `MaxAttempts` times
  has no delivery left and stays `FAILED` (`OutcomeInv`).
- `FinishedJobsAreInvalidated`: if besides no bump throws (`BumpsRun`),
  `Spec => []FinishedJobIsInvalidated`: by the time of the flip every chunk is settled
  for good, so no commit comes between the flip and the bump, and what is dirty is
  what the rows say was changed (`DirtyIsChanged`).

**The catalog**, for every number of transactions, chunks, jobs, skus and
categories and every content (`CatalogUpsertProofs`):

- `CatalogTypes`: `Spec => []TypeOK`. `changed` staying within `Categories` is the
  part that needs work: a product that is new has no category to leave.
- `CatalogConverges`: `Spec => []NewestWins`, inductive together with `TypeOK`. The
  step that matters is `Commit`: the batch has, for every valid row of the chunk,
  a row of the same sku with at least its number (`BatchCovers`, by the greatest
  element of a bounded set of numbers), and the ordering key grows with it
  (`SourceSeqOrder`); so when no row of the batch beats the product none of the
  chunk does, and when one does it beats the rest of the chunk and, through the
  old product, every earlier offer.
- `RerunIsIdempotent`: `Spec => RerunMovesNothing`, from `NewestWins`: the batch of
  a chunk that is `DONE` is among the offers, so no row of it is newer than the
  product.
- `SortedBatchesDoNotDeadlock`: if at most one category is not there from the
  start, `Spec => []NoDeadlock`. The invariant: a transaction past its categories
  has locked only products before the next one, and an uncommitted category is
  held by one transaction. In a set of transactions that all wait for each other
  somebody waits for a product; the holder of the greatest product waits for a
  greater one, which nobody holds. The assumption cannot be dropped (section 5).
- `EveryCategoryResolves`: `Spec => []CategoriesResolved`: a transaction past its
  categories has inserted each or waited for the one that had, and what is
  committed stays. `ListingChangesReported`: `Spec => ListingChangeIsReported`, from
  the evaluation of the upsert at the commit: a product moves, appears or changes its
  price only in the categories that `Commit` collects.

**Prices**, for every number of clients, requests, products, promotions, rows
and instants (`PromotionsProofs`), if the initial promotions do not overlap and
the initial products are priced (`InitialPromotionsAssumption`,
`InitialRowsAssumption`):

- `PromotionTypes`: `Spec => []TypeOK`: every stored row satisfies the `CHECK`
  constraints, whatever a request carried over from what it read.
- `PricesAreDetermined`: `Spec => []PriceIsDetermined`. Invariant: two `ACTIVE` rows
  of one target do not overlap (`NoOverlap`), which `Insert` and `AssignUpdate` keep
  by the constraint and the other steps cannot disturb; what a request refers to
  exists (`References`). Two rows the join could put first have the same target
  and a common instant, so they are one.
- `PricesAreWithinBounds`: `Spec => []PriceWithinBounds`, by arithmetic on both
  discounts: half-up rounding of a share of at most the whole does not exceed it.
- `PricesFollowTheRules`: `Spec => []PricedByTheRules`: a product's base price is
  the price of the row it came from (`Priced`), and `RoundToEnding` gives the
  nearest admissible price (`RoundedPrice`).
- `ListAgrees`: `Spec => []ListAgreesWithPricing`. `CancelledStaysCancelled`:
  `Spec => CancelIsFinal`.
- `PriceChangesAreAnnounced`: with at most one client that re-targets
  (`AssignOneAtATime`), and if a product that can be promoted is only ever put into
  one category (`PromotedStayPut`), `Spec => []PriceChangesAreBumped`. A write changes
  the prices of the scope of its promotion only, so what it owes a bump to is the
  category it read before the write; the invariants say that this reading still
  holds: products that can be promoted stay where they were put (`Settled`), a request
  that re-targets has the target of its promotion right (`KeptTargets`), a request
  about to write has the categories to bump right (`KeptBumps`), and whatever is
  unbumped was touched by an unfinished ingest or is about to be bumped by a request
  (`Announced`). Both hypotheses
  are needed (section 5).

**Cached reads**, for every number of processes, requests, products, categories,
writes and faults (`VersionedCacheProofs`):

- `ReadsAreFresh`: `Spec => []FreshRead`. The invariant: no announcement is ahead of
  the database (`DueBehind`, which rests on writers announcing only what they have
  committed, `WritersBehind`), so what is queried now answers every key of a
  version that exists; keys of requests and entries carry no version ahead of the
  scope's; and an `INCR` writes the announcements of a *new* version only, so
  whatever was stored under an older one stays as good as it was. This is why the
  version has to be read before the query and not again before the `SET`.
- `FlightsAreShared`: `Spec => []OneFlight`, inductive together with the types: a
  request joins when a flight is there and leads when none is, leading ends for a
  flight and for all that wait for it in the same step.
- `CacheTypes`: `Spec => []TypeOK`, a listing being always read and stored under its
  own scope.

**Migrations**, for every number of runners, releases, runs and faults
(`MigrationsProofs`):

- `RunnersImplementHistory`: `Spec => ImplementsHistory`, that is
  `Spec => History!Spec`. The invariant: a runner past `pg_advisory_lock` has the
  lock (`LockHeld`), therefore what it read, and what it did since, is exactly what
  is recorded up to its position (`Sound`); rows have no gaps (`NoGaps`) and are
  those of the migrations in force (`RowsOfSchema`). Hence the file being committed
  is not recorded and nothing after it is.
- `SuccessfulRunsAreComplete`, `RunsFailForCause`, `MigrationTypes`: the other
  invariants of the run, from the same one.

**The page**, for every number of products, categories, prices, promotions, jobs,
sessions, actions and failures (`OperatorUiProofs`). Requests of one kind are dealt
with by a few actions, and the others may send, answer, supersede and remove
requests anywhere in the network. That none of them touches a request of the kind in
question is proved once, for any kind (`Carried`, `Quiet`), and the invariants are
kept by the few actions that remain.

- `FinishedJobsMarkStale`: `Spec => FinishMarksStale`. The invariant: what is watched
  is exactly what is shown unfinished (`ShownIsWatched`, `PageWatchesWhatItShows`).
- `UnfinishedIsPolled`: `Spec => []PollingGoesOn`: while the view shows an unfinished
  job, on the card only or in the list, a refresh that counts is in flight or the timer
  is armed, until a request fails. That nothing but the answer to such a refresh
  ends it, that this answer arms the timer for what it shows, and that leaving and
  entering the view starts a new one is a lemma about every step (`StepsPoll`). It is a statement
  about states: that the refresh is answered and the timer fires is fairness
  (`ListIsTrueInTheEnd`).
- `FormsAreSubmittedOnce`: `Spec => []SubmittedOnce`. The invariant (`Submission`)
  speaks of every form ever opened, also of one that was closed while its request
  was in flight, and of what the server has accepted, which is answered before the
  button of that form is enabled again.
- `RowsMatchTheFilter`: `Spec => []RowsAreOfTheFilter`, and `UnmovedAreShownOnce`:
  `Spec => []UnmovedShownOnce`. The invariant (`PageInv`): for a user who waits, the
  table is a *stretch* of the listing from its beginning to the cursor: rows of the
  filter, in order, and among them, once, every product that has not moved and lies
  between the two (`Stretch`); a page that is answered is a stretch from the cursor it
  was asked with; and the one page in flight that matters continues where the table
  ends. Of the prices it adds that a product which is not unannounced has had one price
  in all that the cache may hold for the scopes it is listed in (`AnnouncedAreSettled`),
  and one of the filter that has not moved likewise (`UnmovedAreSettled`); that is why
  pages of different ages agree on where it is. No cursor is ever sent with another
  listing than its own (`NoneRefused`). What the server answers is a stretch
  (`PageIsStretch`), two that meet are one (`StretchesJoin`), and a price that changes
  leaves a stretch one (`StretchSurvives`). That a finite set of keys can be put in
  order at all, which `Sorted` needs, is proved by a least counterexample
  (`SortedExists`). Of the
  constants this takes that products and prices are numbers, that there are finitely
  many products, and that a page has at least one row.

**Only model-checked.** Liveness (`StartedJobFinishes`, `EventuallyFresh`,
`RunsEnd`, `ListIsTrueInTheEnd`), which the prover does not reach. No module declares
a RECURSIVE operator.

## 7. What is not modelled

- **CSV parsing, multipart uploads, local storage**: I/O; a put is one step because
  it is a write to a temporary file and a rename. The string checks of a vendor
  row are one Boolean.
- **Reads without consequence**: job, chunk and error listings of the API, the list
  of categories, the product search.
- **Eviction of finished queue records** beyond the newest thousand, **backoff**,
  and the **clocks** of the stale window and the message lock, which decide
  whether a redelivery comes after the window as `bullmq.ts` says.
- A **changed chunk size** between two invocations of a splitter: the size is a
  constant here. A **loss of Redis data**, versions or entries.
- base64 and JSON of **cursors**, and cursors that are malformed (a cursor is the
  listing and the key it carries). Of the **pages** the page walks: failures of Redis,
  lost bumps other than by delay, and products that change their category.
- Of the **page**: markup, formatting, toasts, the category names, upload progress,
  drag and drop, the chunk tooltip, the health light.
- The **in-memory queue** (a test double), database access, configuration, logging,
  error mapping, the proxy of the page, the data generators and the load scripts:
  no state of the system, or none that is deployed.

## 8. Plan

1. An abstract job (its statuses, with the chunks settled so far) that
   `IngestPipeline` implements, checked through a refinement mapping and proved
   step by step.
2. The clocks of claim, lock and stalled check; a splitter with a chunk size that
   changes.
