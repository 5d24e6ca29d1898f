---------------------------- MODULE VersionedCache ----------------------------
(***************************************************************************)
(* The cached reads of products/service.ts over cache.ts, single-flight.ts *)
(* and category-versions.ts, while writes commit and bump.                 *)
(*                                                                         *)
(* A read of prefix x (a product's detail, or the listing of a category or *)
(* of all) finds the version of its scope, then the entry of that version, *)
(* or computes it from the database.  Reads in the same API process share  *)
(* a computation of the same key; several processes share Redis.           *)
(*                                                                         *)
(* What a read returns is abstracted to the number of the last commit that *)
(* changed x when the database was read.  A write is a commit followed by  *)
(* one INCR per scope, in any order; which scopes a write has to bump is   *)
(* the subject of Promotions and CatalogUpsert.                            *)
(***************************************************************************)
EXTENDS Integers

CONSTANTS
  Products, Categories, All,    \* All: ALL_SCOPE, and the unfiltered listing
  Lists,         \* the listings that are read
  Readers, ProcessOf,           \* requests, and the API process of each
  Writers,
  NoCategory, NoScope, NoView,
  InitialCategory,
  Workloads,     \* the settings, and which reads each request may be
  MaxCommits,    \* bound on the writes
  MaxFaults      \* bound on Redis and database errors

VARIABLES
  category,      \* of each product, in the database
  revision,      \* number of the last commit that changed a prefix
  commits,
  writers,       \* the INCRs a writer still has to issue
  versions,      \* catver:{scope}
  due,           \* what was announced when a scope got a version; history
  entries,       \* cached views: key to view or NoView
  mapping,       \* product:{id}:category
  readers,
  workload,      \* enabled: CACHE_ENABLED, coalesce: CACHE_SINGLE_FLIGHT, reads
  faults

vars == <<category, revision, commits, writers, versions, due, entries, mapping, readers,
          workload, faults>>
db == <<category, revision, commits, writers, versions, due>>

Scopes == Categories \cup {All}
Prefixes == Products \cup Lists
Numbers == 0 .. MaxCommits
NoToken == -1
Keys == [prefix : Products, scope : Categories, token : Numbers]
        \cup {[prefix |-> x, scope |-> x, token |-> n] : x \in Lists, n \in Numbers}
\* What is read: a product with its category, or a listing of its scope.
View == [prefix : Products, revision : Numbers, category : Categories]
        \cup {[prefix |-> x, revision |-> n, category |-> x] : x \in Lists, n \in Numbers}

ASSUME CacheConstants ==
  /\ Products \cap Scopes = {} /\ All \notin Categories /\ Lists \subseteq Scopes
  /\ NoCategory \notin Categories /\ NoScope \notin Scopes /\ NoView \notin View
  /\ InitialCategory \in [Products -> Categories]
  /\ Workloads \subseteq [enabled : BOOLEAN, coalesce : BOOLEAN,
                         reads : [Readers -> SUBSET (Products \cup Lists)]]
  /\ MaxCommits \in Nat /\ MaxFaults \in Nat

\* What computing prefix x yields now; a listing belongs to its scope.
Current(x) == [prefix |-> x, revision |-> revision[x],
               category |-> IF x \in Products THEN category[x] ELSE x]

Fault == faults < MaxFaults /\ faults' = faults + 1
Fine == UNCHANGED faults

-----------------------------------------------------------------------------
(* Writers.                                                                  *)

\* A commit that changes the prefixes in affected has the scopes in bumped to bump.
Committed(w, affected, bumped) ==
  /\ writers[w].bump = {}
  /\ commits < MaxCommits
  /\ commits' = commits + 1
  /\ revision' = [x \in Prefixes |-> IF x \in affected THEN commits + 1 ELSE revision[x]]
  /\ writers' = [writers EXCEPT ![w] = [bump |-> bumped, affected |-> affected, commit |-> commits + 1]]
  /\ UNCHANGED <<versions, due, entries, mapping, readers, workload, faults>>

\* A promotion on a category, or a new product in it.
Reprice(w, c) ==
  /\ Committed(w, Prefixes \cap ({p \in Products : category[p] = c} \cup {c, All}), {c, All})
  /\ UNCHANGED category

\* An ingest gives a product another price, and moves it unless c is its category.
IngestProduct(w, p, c) ==
  /\ Committed(w, Prefixes \cap {p, category[p], c, All}, {category[p], c, All})
  /\ category' = [category EXCEPT ![p] = c]

\* One of the concurrent INCRs of bump; one that fails is only logged.
Incr(w, s) ==
  /\ s \in writers[w].bump
  /\ versions[s] < MaxCommits      \* never exceeded: a commit bumps a scope once
  /\ writers' = [writers EXCEPT ![w].bump = @ \ {s}]
  /\ \/ /\ Fine
        /\ versions' = [versions EXCEPT ![s] = @ + 1]
        /\ due' = [due EXCEPT ![s][versions[s] + 1] = [x \in Prefixes |->
             IF x \in writers[w].affected /\ due[s][versions[s]][x] < writers[w].commit
               THEN writers[w].commit ELSE due[s][versions[s]][x]]]
     \/ Fault /\ UNCHANGED <<versions, due>>
  /\ UNCHANGED <<category, revision, commits, entries, mapping, readers, workload>>

-----------------------------------------------------------------------------
(* Readers.                                                                  *)

IdleReader == [at |-> "idle"]
Serving(r, S) == r \in {q \in Readers : readers[q].at \in S}

MapLeader(r, p) == readers[r].at \in {"mapGet", "mapQuery", "mapPut"} /\ readers[r].prefix = p
ViewLeader(r, k) == readers[r].at \in {"get", "query", "put"} /\ readers[r].key = k

\* SingleFlight.run: a flight of the same process for the same key, if there is one.
MapFlight(r, p) == {q \in Readers : workload.coalesce /\ ProcessOf[q] = ProcessOf[r] /\ MapLeader(q, p)}
ViewFlight(r, k) == {q \in Readers : workload.coalesce /\ ProcessOf[q] = ProcessOf[r] /\ ViewLeader(q, k)}

\* A reader and those that wait for its flight.
MapWaiters(r) == {r} \cup {q \in Readers :
  workload.coalesce /\ ProcessOf[q] = ProcessOf[r] /\ readers[q].at = "mapWait" /\ readers[q].prefix = readers[r].prefix}
ViewWaiters(r) == {r} \cup {q \in Readers :
  workload.coalesce /\ ProcessOf[q] = ProcessOf[r] /\ readers[q].at = "wait" /\ readers[q].key = readers[r].key}

Step(r, state) == readers' = [readers EXCEPT ![r] = state]

(* getProduct, its first read: the category under which to look. *)
StartDetail(r, p) ==
  /\ readers[r] = IdleReader
  /\ Step(r, [at |-> IF MapFlight(r, p) # {} THEN "mapWait" ELSE IF workload.enabled THEN "mapGet" ELSE "mapQuery",
              prefix |-> p])
  /\ UNCHANGED <<db, entries, mapping, workload, faults>>

MapDone(r, c) ==
  readers' = [q \in Readers |-> IF q \in MapWaiters(r)
    THEN [at |-> "version", prefix |-> readers[q].prefix, scope |-> c] ELSE readers[q]]

MapGet(r) ==
  /\ readers[r].at = "mapGet"
  /\ LET found == mapping[readers[r].prefix]
     IN  \/ Fine /\ found # NoCategory /\ MapDone(r, found)
         \/ Fine /\ found = NoCategory /\ Step(r, [readers[r] EXCEPT !.at = "mapQuery"])
         \/ Fault /\ Step(r, [readers[r] EXCEPT !.at = "mapQuery"])
  /\ UNCHANGED <<db, entries, mapping, workload>>

MapQuery(r) ==
  /\ readers[r].at = "mapQuery"
  /\ LET p == readers[r].prefix
     IN  IF workload.enabled THEN Step(r, [at |-> "mapPut", prefix |-> p, scope |-> category[p]])
         ELSE MapDone(r, category[p])
  /\ UNCHANGED <<db, entries, mapping, workload, faults>>

MapPut(r) ==
  /\ readers[r].at = "mapPut"
  /\ \/ Fine /\ mapping' = [mapping EXCEPT ![readers[r].prefix] = readers[r].scope]
     \/ Fault /\ UNCHANGED mapping
  /\ MapDone(r, readers[r].scope)
  /\ UNCHANGED <<db, entries, workload>>

(* listProducts: the scope is the listing's. *)
StartList(r, x) ==
  /\ readers[r] = IdleReader
  /\ Step(r, [at |-> "version", prefix |-> x, scope |-> x])
  /\ UNCHANGED <<db, entries, mapping, workload, faults>>

\* The flight for key k is joined or started.
Fly(r, k) ==
  Step(r, [at |-> IF ViewFlight(r, k) # {} THEN "wait" ELSE IF k.token = NoToken THEN "query" ELSE "get",
           scope |-> readers[r].scope, key |-> k])

(* getOrComputeVersioned: the version is read once and is part of the key. *)
Version(r) ==
  /\ readers[r].at = "version"
  /\ LET x == readers[r].prefix
         s == readers[r].scope
         bypass == [prefix |-> x, scope |-> NoScope, token |-> NoToken]
     IN  \/ Fine /\ workload.enabled /\ Fly(r, [prefix |-> x, scope |-> s, token |-> versions[s]])
         \/ Fine /\ ~workload.enabled /\ Fly(r, bypass)
         \/ Fault /\ workload.enabled /\ Fly(r, bypass)
  /\ UNCHANGED <<db, entries, mapping, workload>>

\* The flight settles: view is the answer of the leader and of everyone who waits.
\* A product found in another category than the mapping said is corrected first.
Settled(r, view) ==
  readers' = [q \in Readers |->
    IF q \notin ViewWaiters(r) THEN readers[q]
    ELSE IF view.category = readers[q].scope THEN IdleReader
    ELSE [at |-> "correct", prefix |-> view.prefix, category |-> view.category]]

\* readThrough; an entry that does not parse is a miss, as an error is.
Get(r) ==
  /\ readers[r].at = "get"
  /\ LET found == entries[readers[r].key]
     IN  \/ Fine /\ found # NoView /\ Settled(r, found)
         \/ Fine /\ found = NoView /\ Step(r, [readers[r] EXCEPT !.at = "query"])
         \/ Fault /\ Step(r, [readers[r] EXCEPT !.at = "query"])
  /\ UNCHANGED <<db, entries, mapping, workload>>

\* Mutant of Query: what was computed without a version is cached too.
QueryAndCache(r) ==
  /\ readers[r].at = "query"
  /\ LET k == readers[r].key
     IN  Step(r, [at |-> "put", scope |-> readers[r].scope, key |-> k, view |-> Current(k.prefix)])
  /\ UNCHANGED <<db, entries, mapping, workload, faults>>

Query(r) ==
  /\ readers[r].at = "query"
  /\ LET k == readers[r].key
     IN  IF k.token = NoToken THEN Settled(r, Current(k.prefix))
         ELSE Step(r, [at |-> "put", scope |-> readers[r].scope, key |-> k, view |-> Current(k.prefix)])
  /\ UNCHANGED <<db, entries, mapping, workload, faults>>

\* Those that share the query of r: r and the requests that wait for its flight.
QueryOf(r) == IF readers[r].at = "query" THEN ViewWaiters(r) ELSE MapWaiters(r)

\* Mutant of QueryThrows: the rejection reaches only the request that leads.
QueryThrowsAlone(r) ==
  /\ readers[r].at \in {"query", "mapQuery"} /\ Fault
  /\ Step(r, IdleReader)
  /\ UNCHANGED <<db, entries, mapping, workload>>

\* A failed query rejects for everyone in the flight; nothing is cached.
QueryThrows(r) ==
  /\ readers[r].at \in {"query", "mapQuery"} /\ Fault
  /\ readers' = [q \in Readers |-> IF q \in QueryOf(r) THEN IdleReader ELSE readers[q]]
  /\ UNCHANGED <<db, entries, mapping, workload>>

\* Mutant of Put: the version is read again for the SET.
PutUnderNewVersion(r) ==
  /\ readers[r].at = "put"
  /\ LET k == readers[r].key
     IN  \/ Fine /\ entries' = [entries EXCEPT ![[k EXCEPT !.token = versions[k.scope]]] = readers[r].view]
         \/ Fault /\ UNCHANGED entries
  /\ Settled(r, readers[r].view)
  /\ UNCHANGED <<db, mapping, workload>>

Put(r) ==
  /\ readers[r].at = "put"
  /\ \/ Fine /\ entries' = [entries EXCEPT ![readers[r].key] = readers[r].view]
     \/ Fault /\ UNCHANGED entries
  /\ Settled(r, readers[r].view)
  /\ UNCHANGED <<db, mapping, workload>>

\* getProduct, its end.  put does not ask whether the cache is enabled.
Correct(r) ==
  /\ readers[r].at = "correct"
  /\ \/ Fine /\ mapping' = [mapping EXCEPT ![readers[r].prefix] = readers[r].category]
     \/ Fault /\ UNCHANGED mapping
  /\ Step(r, IdleReader)
  /\ UNCHANGED <<db, entries, workload>>

-----------------------------------------------------------------------------
(* Every key is SET with a TTL (EX).  Only what is out of date is seen to    *)
(* expire: the early loss of a right entry differs from a failed GET (Get)   *)
(* in nothing that a reader observes.                                        *)
\* Mutant of Expire: entries are SET without a TTL.
ExpireNever(k) == FALSE /\ UNCHANGED vars

Expire(k) ==
  /\ entries[k] \notin {NoView, Current(k.prefix)}
  /\ entries' = [entries EXCEPT ![k] = NoView]
  /\ UNCHANGED <<db, mapping, readers, workload, faults>>

ExpireMapping(p) ==
  /\ mapping[p] \notin {NoCategory, category[p]}
  /\ mapping' = [mapping EXCEPT ![p] = NoCategory]
  /\ UNCHANGED <<db, entries, readers, workload, faults>>

-----------------------------------------------------------------------------
Init ==
  /\ category = InitialCategory
  /\ revision = [x \in Prefixes |-> 0] /\ commits = 0
  /\ writers = [w \in Writers |-> [bump |-> {}, affected |-> {}, commit |-> 0]]
  /\ versions = [s \in Scopes |-> 0]
  /\ due = [s \in Scopes |-> [n \in Numbers |-> [x \in Prefixes |-> 0]]]
  /\ entries = [k \in Keys |-> NoView]
  /\ mapping = [p \in Products |-> NoCategory]
  /\ readers = [r \in Readers |-> IdleReader]
  /\ workload \in Workloads
  /\ faults = 0

Write(w) ==
  \/ \E c \in Categories : Reprice(w, c)
  \/ \E p \in Products, c \in Categories : IngestProduct(w, p, c)

Start(r) ==
  \/ \E p \in Products \cap workload.reads[r] : StartDetail(r, p)
  \/ \E x \in Lists \cap workload.reads[r] : StartList(r, x)

Continue(r) ==
  \/ MapGet(r) \/ MapQuery(r) \/ MapPut(r)
  \/ Version(r) \/ Get(r) \/ Query(r) \/ QueryThrows(r) \/ Put(r) \/ Correct(r)

Next ==
  \/ \E w \in Writers : Write(w) \/ \E s \in Scopes : Incr(w, s)
  \/ \E r \in Readers : Start(r) \/ Continue(r)
  \/ \E k \in Keys : Expire(k)
  \/ \E p \in Products : ExpireMapping(p)

Spec == Init /\ [][Next]_vars

\* A request that has started goes on (Redis commands time out after 500 ms), and
\* Redis expires what was SET with a TTL.  Writes, reads and faults are owed to nobody.
FairSpec ==
  /\ Spec
  /\ \A r \in Readers : WF_vars(Continue(r))
  /\ \A k \in Keys : WF_vars(Expire(k))

-----------------------------------------------------------------------------
(* Properties.                                                               *)

Tokens == Numbers \cup {NoToken}
FlightKeys == Keys \cup [prefix : Prefixes, scope : {NoScope}, token : {NoToken}]

ReaderState ==
  {IdleReader}
  \cup [at : {"mapGet", "mapQuery", "mapWait"}, prefix : Products]
  \cup [at : {"mapPut"}, prefix : Products, scope : Categories]
  \cup [at : {"version"}, prefix : Products, scope : Categories]
  \cup {[at |-> "version", prefix |-> x, scope |-> x] : x \in Lists}
  \cup [at : {"get"}, scope : Scopes, key : Keys]
  \cup [at : {"query", "wait"}, scope : Scopes, key : FlightKeys]
  \cup [at : {"put"}, scope : Scopes, key : Keys, view : View]
  \cup [at : {"correct"}, prefix : Products, category : Categories]

TypeOK ==
  /\ category \in [Products -> Categories]
  /\ revision \in [Prefixes -> Numbers] /\ commits \in Numbers
  /\ writers \in [Writers -> [bump : SUBSET Scopes, affected : SUBSET Prefixes, commit : Numbers]]
  /\ versions \in [Scopes -> Numbers]
  /\ due \in [Scopes -> [Numbers -> [Prefixes -> Numbers]]]
  /\ entries \in [Keys -> View \cup {NoView}]
  /\ mapping \in [Products -> Categories \cup {NoCategory}]
  /\ readers \in [Readers -> ReaderState]
  /\ workload \in Workloads /\ faults \in 0 .. MaxFaults

\* What reader r is about to answer: the entry it is about to find, or what it put.
Answers(r) ==
  {v \in {entries[readers[q].key] : q \in {r} \cap {n \in Readers : Serving(n, {"get"})}} : v # NoView}
  \cup {readers[q].view : q \in {r} \cap {n \in Readers : Serving(n, {"put"})}}

\* A read returns nothing older than the last change of its prefix that was bumped
\* in its scope before it read the version, whatever other reads put in the cache
\* and whichever flight it joined.  (The scope of a detail is the mapped category,
\* which may be out of date.)
FreshRead ==
  \A r \in Readers : \A v \in Answers(r) :
    LET k == readers[r].key IN v.prefix = k.prefix /\ v.revision >= due[k.scope][k.token][k.prefix]

\* In a process a key has one flight at a time: no two requests compute the same key
\* (the database sees one query for a key that has become cold), and no request waits
\* for a flight that is over, also when it has failed.
OneFlight ==
  workload.coalesce => \A q, r \in Readers : ProcessOf[q] = ProcessOf[r] =>
    /\ \A p \in Products : MapLeader(q, p) /\ MapLeader(r, p) => q = r
    /\ Serving(q, {"get", "query", "put"}) /\ ViewLeader(r, readers[q].key) => q = r
    /\ Serving(r, {"mapWait"}) => MapFlight(r, readers[r].prefix) # {}
    /\ Serving(r, {"wait"}) => ViewFlight(r, readers[r].key) # {}

\* Whatever bumps were lost, once writes have stopped every read returns the
\* present value: the TTL bounds what a lost bump can cause.
EventuallyFresh ==
  <>[](\A r \in Readers : \A v \in Answers(r) : v.revision = revision[v.prefix])
=============================================================================
