------------------------- MODULE VersionedCacheProofs -------------------------
(***************************************************************************)
(* Proofs about VersionedCache, for every number of requests, processes,   *)
(* products, categories, writes and faults.                                *)
(***************************************************************************)
EXTENDS VersionedCache, TLAPS

-----------------------------------------------------------------------------
(***************************************************************************)
(* The inductive invariant.  No announcement is ahead of the database, so  *)
(* what is computed now satisfies every one made so far; and the           *)
(* announcements of a version stay the same from the moment it is the      *)
(* current one, so what is stored under its key stays fresh enough.        *)
(***************************************************************************)
MapLeads(s) == s.at \in {"mapGet", "mapQuery", "mapPut"}
MapWaits(s) == s.at = "mapWait"
ViewLeads(s) == s.at \in {"get", "query", "put"}
ViewWaits(s) == s.at = "wait"

\* View v answers key k under versions vs and announcements d.
Answered(k, v, vs, d) ==
  v.prefix = k.prefix /\ k.token <= vs[k.scope] /\ d[k.scope][k.token][k.prefix] <= v.revision

\* A request looks under the scope of what it reads; its version is not ahead of the
\* scope's, and what it is about to store answers its key.
ReaderSound(s, vs, d) ==
  /\ ViewLeads(s) \/ ViewWaits(s) =>
       /\ s.key.prefix \in Lists => s.scope = s.key.prefix
       /\ s.key \in Keys => s.key.token <= vs[s.key.scope]
  /\ s.at = "put" => Answered(s.key, s.view, vs, d)

ReadersSound == \A r \in Readers : ReaderSound(readers[r], versions, due)
EntriesSound == \A k \in Keys : entries[k] # NoView => Answered(k, entries[k], versions, due)

CommitsAreCounted == \A x \in Prefixes : revision[x] <= commits
WritersBehind == \A w \in Writers : \A x \in writers[w].affected : writers[w].commit <= revision[x]
DueBehind == \A s \in Scopes, n \in Numbers, x \in Prefixes : due[s][n][x] <= revision[x]

\* OneFlight, over the local states of requests.
Unique(rs) ==
  \A q, r \in Readers : ProcessOf[q] = ProcessOf[r] =>
    /\ MapLeads(rs[q]) /\ MapLeads(rs[r]) /\ rs[q].prefix = rs[r].prefix => q = r
    /\ ViewLeads(rs[q]) /\ ViewLeads(rs[r]) /\ rs[q].key = rs[r].key => q = r
Awaited(rs) ==
  \A r \in Readers :
    /\ MapWaits(rs[r]) => \E q \in Readers :
         ProcessOf[q] = ProcessOf[r] /\ MapLeads(rs[q]) /\ rs[q].prefix = rs[r].prefix
    /\ ViewWaits(rs[r]) => \E q \in Readers :
         ProcessOf[q] = ProcessOf[r] /\ ViewLeads(rs[q]) /\ rs[q].key = rs[r].key
Flights == workload.coalesce => Unique(readers) /\ Awaited(readers)

Written == CommitsAreCounted /\ WritersBehind /\ DueBehind
IInv == TypeOK /\ Written /\ EntriesSound /\ ReadersSound /\ Flights

-----------------------------------------------------------------------------
(***************************************************************************)
(* What the sets of keys and views give.                                   *)
(***************************************************************************)
LEMMA NumbersAreNat == \A n \in Numbers : n \in Nat /\ n <= MaxCommits
BY CacheConstants DEF Numbers

LEMMA KeyFacts ==
  /\ NoToken \notin Numbers
  /\ \A k \in Keys : /\ k.prefix \in Prefixes /\ k.scope \in Scopes /\ k.token \in Numbers
                     /\ k \in FlightKeys
                     /\ k.prefix \in Lists => k.scope = k.prefix
  /\ \A k \in FlightKeys : k.prefix \in Prefixes /\ (k \notin Keys => k.token = NoToken)
BY CacheConstants DEF Keys, FlightKeys, Prefixes, Scopes, Numbers, NoToken

\* What is read now is a view of its prefix, as new as every announcement.
LEMMA CurrentIsView ==
  ASSUME TypeOK, NEW x \in Prefixes
  PROVE  Current(x) \in View /\ Current(x).prefix = x /\ Current(x).revision = revision[x]
<1>1. revision[x] \in Numbers /\ (x \in Products => category[x] \in Categories)
  BY DEF TypeOK
<1> QED BY <1>1 DEF Current, View, Prefixes

LEMMA CurrentAnswers ==
  ASSUME TypeOK, Written, NEW k \in Keys, k.token <= versions[k.scope]
  PROVE  Answered(k, Current(k.prefix), versions, due)
<1>1. k.prefix \in Prefixes /\ k.scope \in Scopes /\ k.token \in Numbers
  BY KeyFacts
<1>2. due[k.scope][k.token][k.prefix] <= revision[k.prefix]
  BY <1>1 DEF Written, DueBehind
<1> QED BY <1>1, <1>2, CurrentIsView DEF Answered

-----------------------------------------------------------------------------
(***************************************************************************)
(* Steps of requests.                                                      *)
(***************************************************************************)
\* What a step of a request leaves alone.
ReadOnly ==
  UNCHANGED <<category, revision, commits, writers, versions, due, workload>>

LEMMA ReadersInvariant ==
  ASSUME IInv, ReadOnly, faults' \in 0 .. MaxFaults,
         entries' \in [Keys -> View \cup {NoView}], EntriesSound',
         mapping' \in [Products -> Categories \cup {NoCategory}],
         readers' \in [Readers -> ReaderState],
         \A r \in Readers : ReaderSound(readers'[r], versions, due),
         workload.coalesce => Unique(readers') /\ Awaited(readers')
  PROVE  IInv'
BY DEF IInv, ReadOnly, TypeOK, Written, CommitsAreCounted, WritersBehind, DueBehind,
       ReadersSound, Flights

\* A request goes on in its flight, or outside any.
LEMMA GoesOn ==
  ASSUME IInv, NEW r \in Readers, NEW state \in ReaderState,
         readers' = [readers EXCEPT ![r] = state],
         ReadOnly, faults' \in 0 .. MaxFaults,
         entries' \in [Keys -> View \cup {NoView}], EntriesSound',
         mapping' \in [Products -> Categories \cup {NoCategory}],
         ReaderSound(state, versions, due),
         MapLeads(state) <=> MapLeads(readers[r]), MapWaits(state) <=> MapWaits(readers[r]),
         ViewLeads(state) <=> ViewLeads(readers[r]), ViewWaits(state) <=> ViewWaits(readers[r]),
         MapLeads(state) => state.prefix = readers[r].prefix, ~MapWaits(state),
         ViewLeads(state) => state.key = readers[r].key, ~ViewWaits(state)
  PROVE  IInv'
<1>1. readers' \in [Readers -> ReaderState] /\ readers'[r] = state
      /\ \A q \in Readers : q # r => readers'[q] = readers[q]
  BY DEF IInv, TypeOK
<1>2. \A q \in Readers : ReaderSound(readers'[q], versions, due)
  BY <1>1 DEF IInv, ReadersSound
<1>3. workload.coalesce => Unique(readers')
  BY <1>1 DEF IInv, Flights, Unique
<1>4. workload.coalesce => Awaited(readers')
  BY <1>1 DEF IInv, Flights, Awaited
<1> QED BY <1>1, <1>2, <1>3, <1>4, ReadersInvariant

\* A request outside any flight joins one or starts one.
Joins(state, r) ==
  workload.coalesce =>
    /\ MapLeads(state) => \A q \in Readers : ProcessOf[q] = ProcessOf[r] =>
         ~(MapLeads(readers[q]) /\ readers[q].prefix = state.prefix)
    /\ MapWaits(state) => \E q \in Readers : ProcessOf[q] = ProcessOf[r] /\
         MapLeads(readers[q]) /\ readers[q].prefix = state.prefix
    /\ ViewLeads(state) => \A q \in Readers : ProcessOf[q] = ProcessOf[r] =>
         ~(ViewLeads(readers[q]) /\ readers[q].key = state.key)
    /\ ViewWaits(state) => \E q \in Readers : ProcessOf[q] = ProcessOf[r] /\
         ViewLeads(readers[q]) /\ readers[q].key = state.key

LEMMA JoinKeeps ==
  ASSUME IInv, NEW r \in Readers, NEW state \in ReaderState,
         readers[r].at \in {"idle", "version"},
         readers' = [readers EXCEPT ![r] = state],
         UNCHANGED <<db, entries, mapping, workload>>, faults' \in 0 .. MaxFaults,
         ReaderSound(state, versions, due), Joins(state, r)
  PROVE  IInv'
<1>1. readers' \in [Readers -> ReaderState] /\ readers'[r] = state
      /\ \A q \in Readers : q # r => readers'[q] = readers[q]
  BY DEF IInv, TypeOK
<1>2. \A q \in Readers : ReaderSound(readers'[q], versions, due)
  BY <1>1 DEF IInv, ReadersSound
<1>3. /\ ~MapLeads(readers[r]) /\ ~ViewLeads(readers[r])
      /\ ~MapWaits(readers[r]) /\ ~ViewWaits(readers[r])
  BY DEF MapLeads, MapWaits, ViewLeads, ViewWaits
<1>4. ASSUME workload.coalesce PROVE Unique(readers')
  BY <1>1, <1>3, <1>4 DEF IInv, Flights, Unique, Joins
<1>5. ASSUME workload.coalesce PROVE Awaited(readers')
  BY <1>1, <1>3, <1>5 DEF IInv, Flights, Awaited, Joins
<1>6. /\ ReadOnly /\ EntriesSound'
      /\ entries' \in [Keys -> View \cup {NoView}]
      /\ mapping' \in [Products -> Categories \cup {NoCategory}]
  BY DEF IInv, TypeOK, ReadOnly, db, EntriesSound
<1> QED BY <1>1, <1>2, <1>4, <1>5, <1>6, ReadersInvariant

\* A flight of the mapping ends: the leader and all that wait for it go on without.
LEMMA MapFlightEnds ==
  ASSUME IInv, NEW r \in Readers, MapLeads(readers[r]), NEW next,
         readers' = [q \in Readers |-> IF q \in MapWaiters(r) THEN next[q] ELSE readers[q]],
         \A q \in MapWaiters(r) : next[q] \in ReaderState /\ next[q].at \in {"idle", "version"},
         UNCHANGED <<db, entries, workload>>, faults' \in 0 .. MaxFaults,
         mapping' \in [Products -> Categories \cup {NoCategory}]
  PROVE  IInv'
<1>1. readers' \in [Readers -> ReaderState]
  BY DEF IInv, TypeOK, MapWaiters
<1>2. \A q \in MapWaiters(r) : /\ ~MapLeads(readers'[q]) /\ ~ViewLeads(readers'[q])
                               /\ ~MapWaits(readers'[q]) /\ ~ViewWaits(readers'[q])
                               /\ readers'[q].at # "put"
  BY DEF MapLeads, MapWaits, ViewLeads, ViewWaits, MapWaiters
<1>3. \A q \in Readers \ MapWaiters(r) : readers'[q] = readers[q]
  OBVIOUS
<1>4. \A q \in Readers : ReaderSound(readers'[q], versions, due)
  BY <1>2, <1>3 DEF IInv, ReadersSound, ReaderSound
<1>5. ASSUME workload.coalesce PROVE Unique(readers')
  BY <1>2, <1>3, <1>5 DEF IInv, Flights, Unique
<1>6. ASSUME workload.coalesce PROVE Awaited(readers')
  <2>1. Unique(readers) /\ Awaited(readers)
    BY <1>6 DEF IInv, Flights
  <2> SUFFICES ASSUME NEW p \in Readers, MapWaits(readers'[p]) \/ ViewWaits(readers'[p])
               PROVE  /\ MapWaits(readers'[p]) => \E q \in Readers :
                           ProcessOf[q] = ProcessOf[p] /\ MapLeads(readers'[q])
                           /\ readers'[q].prefix = readers'[p].prefix
                      /\ ViewWaits(readers'[p]) => \E q \in Readers :
                           ProcessOf[q] = ProcessOf[p] /\ ViewLeads(readers'[q])
                           /\ readers'[q].key = readers'[p].key
    BY DEF Awaited
  <2>2. p \notin MapWaiters(r) /\ readers'[p] = readers[p]
    BY <1>2, <1>3
  <2>3. ASSUME MapWaits(readers[p])
        PROVE  \E q \in Readers : ProcessOf[q] = ProcessOf[p] /\ MapLeads(readers'[q])
                           /\ readers'[q].prefix = readers[p].prefix
    <3>1. PICK q \in Readers : ProcessOf[q] = ProcessOf[p] /\ MapLeads(readers[q])
                               /\ readers[q].prefix = readers[p].prefix
      BY <2>1, <2>3 DEF Awaited
    <3>2. q # r
      BY <2>2, <2>3, <3>1, <1>6 DEF MapWaiters, MapWaits
    <3>3. q \notin MapWaiters(r)
      BY <3>1, <3>2 DEF MapWaiters, MapLeads
    <3> QED BY <3>1, <3>3, <1>3
  <2>4. ASSUME ViewWaits(readers[p])
        PROVE  \E q \in Readers : ProcessOf[q] = ProcessOf[p] /\ ViewLeads(readers'[q])
                           /\ readers'[q].key = readers[p].key
    <3>1. PICK q \in Readers : ProcessOf[q] = ProcessOf[p] /\ ViewLeads(readers[q])
                               /\ readers[q].key = readers[p].key
      BY <2>1, <2>4 DEF Awaited
    <3>2. q \notin MapWaiters(r)
      BY <3>1 DEF MapWaiters, MapLeads, ViewLeads
    <3> QED BY <3>1, <3>2, <1>3
  <2> QED BY <2>2, <2>3, <2>4
<1>7. ReadOnly /\ EntriesSound' /\ entries' \in [Keys -> View \cup {NoView}]
  BY DEF IInv, TypeOK, ReadOnly, db, EntriesSound
<1> QED BY <1>1, <1>4, <1>5, <1>6, <1>7, ReadersInvariant

\* A flight of a view ends.
LEMMA ViewFlightEnds ==
  ASSUME IInv, NEW r \in Readers, ViewLeads(readers[r]), NEW next,
         readers' = [q \in Readers |-> IF q \in ViewWaiters(r) THEN next[q] ELSE readers[q]],
         \A q \in ViewWaiters(r) : next[q] \in ReaderState /\ next[q].at \in {"idle", "correct"},
         ReadOnly, faults' \in 0 .. MaxFaults, UNCHANGED mapping,
         entries' \in [Keys -> View \cup {NoView}], EntriesSound'
  PROVE  IInv'
<1>1. readers' \in [Readers -> ReaderState]
  BY DEF IInv, TypeOK, ViewWaiters
<1>2. \A q \in ViewWaiters(r) : /\ ~MapLeads(readers'[q]) /\ ~ViewLeads(readers'[q])
                                /\ ~MapWaits(readers'[q]) /\ ~ViewWaits(readers'[q])
                                /\ readers'[q].at # "put"
  BY DEF MapLeads, MapWaits, ViewLeads, ViewWaits, ViewWaiters
<1>3. \A q \in Readers \ ViewWaiters(r) : readers'[q] = readers[q]
  OBVIOUS
<1>4. \A q \in Readers : ReaderSound(readers'[q], versions, due)
  BY <1>2, <1>3 DEF IInv, ReadersSound, ReaderSound
<1>5. ASSUME workload.coalesce PROVE Unique(readers')
  BY <1>2, <1>3, <1>5 DEF IInv, Flights, Unique
<1>6. ASSUME workload.coalesce PROVE Awaited(readers')
  <2>1. Unique(readers) /\ Awaited(readers)
    BY <1>6 DEF IInv, Flights
  <2> SUFFICES ASSUME NEW p \in Readers, MapWaits(readers'[p]) \/ ViewWaits(readers'[p])
               PROVE  /\ MapWaits(readers'[p]) => \E q \in Readers :
                           ProcessOf[q] = ProcessOf[p] /\ MapLeads(readers'[q])
                           /\ readers'[q].prefix = readers'[p].prefix
                      /\ ViewWaits(readers'[p]) => \E q \in Readers :
                           ProcessOf[q] = ProcessOf[p] /\ ViewLeads(readers'[q])
                           /\ readers'[q].key = readers'[p].key
    BY DEF Awaited
  <2>2. p \notin ViewWaiters(r) /\ readers'[p] = readers[p]
    BY <1>2, <1>3
  <2>3. ASSUME ViewWaits(readers[p])
        PROVE  \E q \in Readers : ProcessOf[q] = ProcessOf[p] /\ ViewLeads(readers'[q])
                           /\ readers'[q].key = readers[p].key
    <3>1. PICK q \in Readers : ProcessOf[q] = ProcessOf[p] /\ ViewLeads(readers[q])
                               /\ readers[q].key = readers[p].key
      BY <2>1, <2>3 DEF Awaited
    <3>2. q # r
      BY <2>2, <2>3, <3>1, <1>6 DEF ViewWaiters, ViewWaits
    <3>3. q \notin ViewWaiters(r)
      BY <3>1, <3>2 DEF ViewWaiters, ViewLeads
    <3> QED BY <3>1, <3>3, <1>3
  <2>4. ASSUME MapWaits(readers[p])
        PROVE  \E q \in Readers : ProcessOf[q] = ProcessOf[p] /\ MapLeads(readers'[q])
                           /\ readers'[q].prefix = readers[p].prefix
    <3>1. PICK q \in Readers : ProcessOf[q] = ProcessOf[p] /\ MapLeads(readers[q])
                               /\ readers[q].prefix = readers[p].prefix
      BY <2>1, <2>4 DEF Awaited
    <3>2. q \notin ViewWaiters(r)
      BY <3>1 DEF ViewWaiters, MapLeads, ViewLeads
    <3> QED BY <3>1, <3>2, <1>3
  <2> QED BY <2>2, <2>3, <2>4
<1>7. mapping' \in [Products -> Categories \cup {NoCategory}]
  BY DEF IInv, TypeOK
<1> QED BY <1>1, <1>4, <1>5, <1>6, <1>7, ReadersInvariant

\* MapDone ends the flight of the mapping with a category for everyone.
LEMMA MapDoneKeeps ==
  ASSUME IInv, NEW r \in Readers, MapLeads(readers[r]), NEW c \in Categories, MapDone(r, c),
         UNCHANGED <<db, entries, workload>>, faults' \in 0 .. MaxFaults,
         mapping' \in [Products -> Categories \cup {NoCategory}]
  PROVE  IInv'
<1> DEFINE next == [q \in Readers |-> [at |-> "version", prefix |-> readers[q].prefix, scope |-> c]]
<1>1. \A q \in MapWaiters(r) : q \in Readers /\ readers[q].prefix \in Products
  <2>1. readers[r] \in ReaderState
    BY DEF IInv, TypeOK
  <2>2. readers[r].prefix \in Products
    BY <2>1 DEF ReaderState, IdleReader, MapLeads
  <2> QED BY <2>2 DEF MapWaiters
<1>2. \A q \in MapWaiters(r) : next[q] \in ReaderState /\ next[q].at \in {"idle", "version"}
  BY <1>1 DEF ReaderState
<1>3. readers' = [q \in Readers |-> IF q \in MapWaiters(r) THEN next[q] ELSE readers[q]]
  BY DEF MapDone
<1> HIDE DEF next
<1> QED BY <1>2, <1>3, MapFlightEnds

\* Settled ends the flight of a key with a view of its prefix for everyone.
LEMMA SettledKeeps ==
  ASSUME IInv, NEW r \in Readers, ViewLeads(readers[r]), NEW view \in View,
         view.prefix = readers[r].key.prefix, Settled(r, view),
         ReadOnly, faults' \in 0 .. MaxFaults, UNCHANGED mapping,
         entries' \in [Keys -> View \cup {NoView}], EntriesSound'
  PROVE  IInv'
<1> DEFINE next == [q \in Readers |->
             IF view.category = readers[q].scope THEN IdleReader
             ELSE [at |-> "correct", prefix |-> view.prefix, category |-> view.category]]
<1>1. \A q \in ViewWaiters(r) : /\ q \in Readers /\ (ViewLeads(readers[q]) \/ ViewWaits(readers[q]))
                                /\ readers[q].key = readers[r].key
  BY DEF ViewWaiters, ViewWaits
<1>2. \A q \in ViewWaiters(r) : view.prefix \in Lists => readers[q].scope = view.prefix
  BY <1>1 DEF IInv, ReadersSound, ReaderSound
<1>3. \/ view.prefix \in Products /\ view.category \in Categories
      \/ view.prefix \in Lists /\ view.category = view.prefix
  <2>1. CASE view \in [prefix : Products, revision : Numbers, category : Categories]
    BY <2>1
  <2>2. CASE view \in {[prefix |-> x, revision |-> n, category |-> x] : x \in Lists, n \in Numbers}
    <3>1. PICK x \in Lists, n \in Numbers : view = [prefix |-> x, revision |-> n, category |-> x]
      BY <2>2
    <3> QED BY <3>1
  <2> QED BY <2>1, <2>2 DEF View
<1>4. \A q \in ViewWaiters(r) : next[q] \in ReaderState /\ next[q].at \in {"idle", "correct"}
  BY <1>1, <1>2, <1>3 DEF ReaderState, IdleReader
<1>5. readers' = [q \in Readers |-> IF q \in ViewWaiters(r) THEN next[q] ELSE readers[q]]
  BY DEF Settled
<1> HIDE DEF next
<1> QED BY <1>4, <1>5, ViewFlightEnds

\* A step that spends a fault or none.
LEMMA FaultsStayBounded == TypeOK /\ (Fault \/ Fine) => faults' \in 0 .. MaxFaults
BY CacheConstants DEF TypeOK, Fault, Fine

LEMMA StartKeeps ==
  ASSUME IInv, NEW r \in Readers, Start(r)
  PROVE  IInv'
<1>1. ASSUME NEW p \in Products, StartDetail(r, p) PROVE IInv'
  <2> DEFINE place == IF MapFlight(r, p) # {} THEN "mapWait" ELSE IF workload.enabled THEN "mapGet" ELSE "mapQuery"
             state == [at |-> place, prefix |-> p]
  <2>1. state \in ReaderState /\ state.at = place /\ state.prefix = p
    BY DEF ReaderState
  <2>2. ReaderSound(state, versions, due)
    BY <2>1 DEF ReaderSound, ViewLeads, ViewWaits
  <2>3. Joins(state, r)
    BY <2>1 DEF Joins, MapLeads, MapWaits, ViewLeads, ViewWaits, MapFlight, MapLeader
  <2>4. readers' = [readers EXCEPT ![r] = state] /\ readers[r].at = "idle"
    BY <1>1 DEF StartDetail, Step, IdleReader
  <2> HIDE DEF state
  <2> QED BY <1>1, <2>1, <2>2, <2>3, <2>4, JoinKeeps DEF StartDetail, IInv, TypeOK
<1>2. ASSUME NEW x \in Lists, StartList(r, x) PROVE IInv'
  <2> DEFINE state == [at |-> "version", prefix |-> x, scope |-> x]
  <2>1. state \in ReaderState /\ state.at = "version"
    BY DEF ReaderState
  <2>2. ReaderSound(state, versions, due) /\ Joins(state, r)
    BY <2>1 DEF ReaderSound, Joins, MapLeads, MapWaits, ViewLeads, ViewWaits
  <2>3. readers' = [readers EXCEPT ![r] = state] /\ readers[r].at = "idle"
    BY <1>2 DEF StartList, Step, IdleReader
  <2> HIDE DEF state
  <2> QED BY <1>2, <2>1, <2>2, <2>3, JoinKeeps DEF StartList, IInv, TypeOK
<1> QED BY <1>1, <1>2 DEF Start

LEMMA VersionKeeps ==
  ASSUME IInv, NEW r \in Readers, Version(r)
  PROVE  IInv'
<1> DEFINE s == readers[r]
           bypass == [prefix |-> s.prefix, scope |-> NoScope, token |-> NoToken]
           versioned == [prefix |-> s.prefix, scope |-> s.scope, token |-> versions[s.scope]]
<1>1. /\ s.at = "version"
      /\ \/ s.prefix \in Products /\ s.scope \in Categories
         \/ s.prefix \in Lists /\ s.scope = s.prefix
  <2>1. s \in ReaderState /\ s.at = "version"
    BY DEF Version, IInv, TypeOK
  <2>2. \/ s \in [at : {"version"}, prefix : Products, scope : Categories]
        \/ s \in {[at |-> "version", prefix |-> x, scope |-> x] : x \in Lists}
    BY <2>1 DEF ReaderState, IdleReader
  <2>3. CASE s \in {[at |-> "version", prefix |-> x, scope |-> x] : x \in Lists}
    <3>1. PICK x \in Lists : s = [at |-> "version", prefix |-> x, scope |-> x]
      BY <2>3
    <3> QED BY <3>1
  <2> QED BY <2>1, <2>2, <2>3
<1>2. s.prefix \in Prefixes /\ s.scope \in Scopes /\ (s.prefix \in Lists => s.scope = s.prefix)
  BY <1>1, CacheConstants DEF Prefixes, Scopes
<1>3. bypass \in FlightKeys /\ bypass \notin Keys
  BY <1>2, KeyFacts DEF FlightKeys
<1>4. versions[s.scope] \in Numbers
  BY <1>2 DEF IInv, TypeOK
<1>5. versioned \in Keys
  <2>1. CASE s.prefix \in Products /\ s.scope \in Categories
    BY <1>4, <2>1 DEF Keys
  <2>2. CASE s.prefix \in Lists /\ s.scope = s.prefix
    BY <1>4, <2>2 DEF Keys
  <2> QED BY <1>1, <2>1, <2>2
<1>6. ASSUME NEW k \in FlightKeys, k.prefix = s.prefix, k \notin Keys => k.token = NoToken,
             k \in Keys => k.token <= versions[k.scope], k.token # NoToken => k \in Keys,
             Fly(r, k)
      PROVE  IInv'
  <2> DEFINE place == IF ViewFlight(r, k) # {} THEN "wait" ELSE IF k.token = NoToken THEN "query" ELSE "get"
             state == [at |-> place, scope |-> s.scope, key |-> k]
  <2>1. state \in ReaderState /\ state.at = place /\ state.scope = s.scope /\ state.key = k
    BY <1>2, <1>6 DEF ReaderState
  <2>2. ReaderSound(state, versions, due)
    BY <1>2, <1>6, <2>1 DEF ReaderSound
  <2>3. Joins(state, r)
    BY <2>1 DEF Joins, MapLeads, MapWaits, ViewLeads, ViewWaits, ViewFlight, ViewLeader
  <2>4. readers' = [readers EXCEPT ![r] = state]
    BY <1>6 DEF Fly, Step
  <2>5. faults' \in 0 .. MaxFaults /\ UNCHANGED <<db, entries, mapping, workload>>
    BY FaultsStayBounded DEF Version, IInv
  <2> HIDE DEF state
  <2> QED BY <1>1, <2>1, <2>2, <2>3, <2>4, <2>5, JoinKeeps
<1>7. CASE Fly(r, bypass)
  <2>1. bypass.token = NoToken /\ bypass.prefix = s.prefix
    OBVIOUS
  <2> HIDE DEF bypass
  <2> QED BY <1>3, <1>6, <1>7, <2>1
<1>8. CASE Fly(r, versioned)
  <2>1. /\ versioned.prefix = s.prefix /\ versioned.token = versions[s.scope] /\ versioned.scope = s.scope
        /\ versions[s.scope] <= versions[s.scope]
    BY <1>4 DEF Numbers
  <2> HIDE DEF versioned
  <2> QED BY <1>5, <1>6, <1>8, <2>1, KeyFacts
<1> QED BY <1>7, <1>8 DEF Version

\* The steps of the mapping's flight.
LEMMA MapStepsKeep ==
  ASSUME IInv, NEW r \in Readers, MapGet(r) \/ MapQuery(r) \/ MapPut(r)
  PROVE  IInv'
<1> DEFINE s == readers[r]
<1>1. s \in ReaderState /\ MapLeads(s) /\ s.prefix \in Products
  BY DEF MapGet, MapQuery, MapPut, MapLeads, IInv, TypeOK, ReaderState, IdleReader
<1>2. /\ mapping \in [Products -> Categories \cup {NoCategory}] /\ category[s.prefix] \in Categories
      /\ entries \in [Keys -> View \cup {NoView}] /\ faults \in 0 .. MaxFaults
  BY <1>1 DEF IInv, TypeOK
<1>3. ASSUME NEW state \in ReaderState, state.at \in {"mapQuery", "mapPut"}, state.prefix = s.prefix,
             readers' = [readers EXCEPT ![r] = state],
             UNCHANGED <<db, entries, mapping, workload>>, faults' \in 0 .. MaxFaults
      PROVE  IInv'
  <2>1. ReaderSound(state, versions, due) /\ ReadOnly /\ EntriesSound'
    BY <1>3 DEF ReaderSound, ViewLeads, ViewWaits, ReadOnly, db, IInv, EntriesSound
  <2>2. /\ MapLeads(state) /\ ~MapWaits(state) /\ ~ViewLeads(state) /\ ~ViewWaits(state)
        /\ ~MapWaits(s) /\ ~ViewLeads(s) /\ ~ViewWaits(s)
    BY <1>1, <1>3 DEF MapLeads, MapWaits, ViewLeads, ViewWaits
  <2> QED BY <1>1, <1>2, <1>3, <2>1, <2>2, GoesOn
<1>4. CASE MapGet(r)
  <2>1. CASE mapping[s.prefix] # NoCategory /\ MapDone(r, mapping[s.prefix]) /\ Fine
    BY <1>1, <1>2, <1>4, <2>1, MapDoneKeeps DEF MapGet, Fine
  <2>2. CASE Step(r, [s EXCEPT !.at = "mapQuery"])
    <3> DEFINE state == [s EXCEPT !.at = "mapQuery"]
    <3>1. s \in [at : {"mapGet", "mapQuery", "mapWait"}, prefix : Products]
      BY <1>1, <1>4 DEF MapGet, ReaderState, IdleReader
    <3>2. state \in ReaderState /\ state.at = "mapQuery" /\ state.prefix = s.prefix
      BY <3>1 DEF ReaderState
    <3>3. readers' = [readers EXCEPT ![r] = state]
      BY <2>2 DEF Step
    <3>4. faults' \in 0 .. MaxFaults /\ UNCHANGED <<db, entries, mapping, workload>>
      BY <1>4, FaultsStayBounded DEF MapGet, IInv
    <3> HIDE DEF state
    <3> QED BY <1>3, <3>2, <3>3, <3>4
  <2> QED BY <1>4, <2>1, <2>2 DEF MapGet
<1>5. CASE MapQuery(r)
  <2>1. CASE MapDone(r, category[s.prefix])
    BY <1>1, <1>2, <1>5, <2>1, MapDoneKeeps DEF MapQuery
  <2>2. CASE Step(r, [at |-> "mapPut", prefix |-> s.prefix, scope |-> category[s.prefix]])
    <3> DEFINE state == [at |-> "mapPut", prefix |-> s.prefix, scope |-> category[s.prefix]]
    <3>1. state \in ReaderState /\ state.at = "mapPut" /\ state.prefix = s.prefix
      BY <1>1, <1>2 DEF ReaderState
    <3>2. readers' = [readers EXCEPT ![r] = state]
      BY <2>2 DEF Step
    <3> HIDE DEF state
    <3> QED BY <1>2, <1>3, <1>5, <3>1, <3>2 DEF MapQuery
  <2> QED BY <1>5, <2>1, <2>2 DEF MapQuery
<1>6. CASE MapPut(r)
  <2>1. s.scope \in Categories
    BY <1>1, <1>6 DEF MapPut, ReaderState, IdleReader
  <2>2. mapping' \in [Products -> Categories \cup {NoCategory}]
    BY <1>2, <1>6, <2>1 DEF MapPut
  <2>3. faults' \in 0 .. MaxFaults
    BY <1>6, FaultsStayBounded DEF MapPut, IInv
  <2> QED BY <1>1, <1>6, <2>1, <2>2, <2>3, MapDoneKeeps DEF MapPut
<1> QED BY <1>4, <1>5, <1>6

\* The steps of a view's flight.
LEMMA ViewStepsKeep ==
  ASSUME IInv, NEW r \in Readers, Get(r) \/ Query(r) \/ Put(r)
  PROVE  IInv'
<1> DEFINE s == readers[r]
           k == s.key
<1>1. s \in ReaderState /\ ViewLeads(s) /\ k \in FlightKeys /\ s.scope \in Scopes
  BY KeyFacts DEF Get, Query, Put, ViewLeads, IInv, TypeOK, ReaderState, IdleReader
<1>2. k.prefix \in Prefixes /\ (k.token # NoToken => k \in Keys)
  BY <1>1, KeyFacts
<1>3. k \in Keys => k.token <= versions[k.scope]
  BY <1>1 DEF IInv, ReadersSound, ReaderSound
<1>4. entries \in [Keys -> View \cup {NoView}] /\ faults \in 0 .. MaxFaults
      /\ mapping \in [Products -> Categories \cup {NoCategory}]
  BY DEF IInv, TypeOK
<1>5. ReadOnly /\ UNCHANGED mapping
  BY DEF Get, Query, Put, ReadOnly, db
<1>6. faults' \in 0 .. MaxFaults
  BY FaultsStayBounded DEF Get, Query, Put, IInv, Fine
<1>7. UNCHANGED entries => EntriesSound' /\ entries' \in [Keys -> View \cup {NoView}]
  BY <1>4, <1>5 DEF IInv, EntriesSound, ReadOnly
<1>8. ASSUME NEW state \in ReaderState, state.at \in {"query", "put"}, state.key = k, state.scope = s.scope,
             readers' = [readers EXCEPT ![r] = state], UNCHANGED entries,
             state.at = "put" => Answered(k, state.view, versions, due)
      PROVE  IInv'
  <2>1. ReaderSound(state, versions, due)
    BY <1>1, <1>8 DEF IInv, ReadersSound, ReaderSound
  <2>2. /\ ViewLeads(state) /\ ~ViewWaits(state) /\ ~MapLeads(state) /\ ~MapWaits(state)
        /\ ~ViewWaits(s) /\ ~MapLeads(s) /\ ~MapWaits(s)
    BY <1>1, <1>8 DEF MapLeads, MapWaits, ViewLeads, ViewWaits
  <2> QED BY <1>1, <1>4, <1>5, <1>6, <1>7, <1>8, <2>1, <2>2, GoesOn
<1>9. CASE Get(r)
  <2>0. k \in Keys /\ s \in [at : {"get"}, scope : Scopes, key : Keys]
    BY <1>1, <1>9 DEF Get, ReaderState, IdleReader
  <2>1. CASE entries[k] # NoView /\ Settled(r, entries[k])
    <3>1. entries[k] \in View /\ entries[k].prefix = k.prefix
      BY <1>4, <2>0, <2>1 DEF IInv, EntriesSound, Answered
    <3> QED BY <1>1, <1>5, <1>6, <1>7, <1>9, <2>1, <3>1, SettledKeeps DEF Get
  <2>2. CASE Step(r, [s EXCEPT !.at = "query"])
    <3> DEFINE state == [s EXCEPT !.at = "query"]
    <3>1. state \in ReaderState /\ state.at = "query" /\ state.key = k /\ state.scope = s.scope
      BY <1>1, <2>0 DEF ReaderState
    <3>2. readers' = [readers EXCEPT ![r] = state]
      BY <2>2 DEF Step
    <3> HIDE DEF state
    <3> QED BY <1>8, <1>9, <3>1, <3>2 DEF Get
  <2> QED BY <1>9, <2>1, <2>2 DEF Get
<1>10. CASE Query(r)
  <2>0. Current(k.prefix) \in View /\ Current(k.prefix).prefix = k.prefix
    BY <1>2, CurrentIsView DEF IInv
  <2>1. CASE Settled(r, Current(k.prefix))
    BY <1>1, <1>5, <1>6, <1>7, <1>10, <2>0, <2>1, SettledKeeps DEF Query
  <2>2. CASE /\ k.token # NoToken
             /\ Step(r, [at |-> "put", scope |-> s.scope, key |-> k, view |-> Current(k.prefix)])
    <3> DEFINE state == [at |-> "put", scope |-> s.scope, key |-> k, view |-> Current(k.prefix)]
    <3>1. /\ state \in ReaderState /\ state.at = "put" /\ state.key = k /\ state.scope = s.scope
          /\ state.view = Current(k.prefix)
      BY <1>1, <1>2, <2>0, <2>2 DEF ReaderState
    <3>2. readers' = [readers EXCEPT ![r] = state]
      BY <2>2 DEF Step
    <3>3. Answered(k, Current(k.prefix), versions, due)
      BY <1>2, <1>3, <2>2, CurrentAnswers DEF IInv
    <3> HIDE DEF state
    <3> QED BY <1>8, <1>10, <3>1, <3>2, <3>3 DEF Query
  <2> QED BY <1>10, <2>1, <2>2 DEF Query
<1>11. CASE Put(r)
  <2>1. k \in Keys /\ s.view \in View /\ s.at = "put"
    BY <1>1, <1>11 DEF Put, ReaderState, IdleReader
  <2>2. Answered(k, s.view, versions, due)
    BY <2>1 DEF IInv, ReadersSound, ReaderSound
  <2>3. entries' \in [Keys -> View \cup {NoView}]
    BY <1>4, <1>11, <2>1 DEF Put
  <2>4. EntriesSound'
    BY <1>4, <1>5, <1>11, <2>1, <2>2 DEF Put, ReadOnly, IInv, EntriesSound
  <2>5. s.view.prefix = k.prefix
    BY <2>2 DEF Answered
  <2> QED BY <1>1, <1>5, <1>6, <1>11, <2>1, <2>3, <2>4, <2>5, SettledKeeps DEF Put
<1> QED BY <1>9, <1>10, <1>11

\* A query that throws ends its flight for everyone in it.
LEMMA QueryThrowsKeeps ==
  ASSUME IInv, NEW r \in Readers, QueryThrows(r)
  PROVE  IInv'
<1> DEFINE next == [q \in Readers |-> IdleReader]
<1>1. \A q \in Readers : next[q] \in ReaderState /\ next[q].at = "idle"
  BY DEF IdleReader, ReaderState
<1>2. /\ faults' \in 0 .. MaxFaults /\ UNCHANGED <<db, entries, mapping, workload>>
      /\ mapping' \in [Products -> Categories \cup {NoCategory}]
  BY FaultsStayBounded DEF QueryThrows, IInv, TypeOK
<1>3. EntriesSound' /\ entries' \in [Keys -> View \cup {NoView}] /\ ReadOnly
  BY <1>2 DEF IInv, TypeOK, EntriesSound, db, ReadOnly
<1>4. CASE readers[r].at = "query"
  <2>1. ViewLeads(readers[r]) /\ ViewWaiters(r) \subseteq Readers
    BY <1>4 DEF ViewLeads, ViewWaiters
  <2>2. readers' = [q \in Readers |-> IF q \in ViewWaiters(r) THEN next[q] ELSE readers[q]]
    BY <1>4 DEF QueryThrows, QueryOf
  <2> HIDE DEF next
  <2> QED BY <1>1, <1>2, <1>3, <2>1, <2>2, ViewFlightEnds
<1>5. CASE readers[r].at = "mapQuery"
  <2>1. MapLeads(readers[r]) /\ MapWaiters(r) \subseteq Readers
    BY <1>5 DEF MapLeads, MapWaiters
  <2>2. readers' = [q \in Readers |-> IF q \in MapWaiters(r) THEN next[q] ELSE readers[q]]
    BY <1>5 DEF QueryThrows, QueryOf
  <2> HIDE DEF next
  <2> QED BY <1>1, <1>2, <2>1, <2>2, MapFlightEnds
<1> QED BY <1>4, <1>5 DEF QueryThrows

LEMMA CorrectKeeps ==
  ASSUME IInv, NEW r \in Readers, Correct(r)
  PROVE  IInv'
<1> DEFINE state == IdleReader
<1>1. state \in ReaderState /\ state.at = "idle"
  BY DEF ReaderState, IdleReader
<1>2. readers[r] \in ReaderState /\ readers[r].at = "correct" /\ readers' = [readers EXCEPT ![r] = state]
  BY DEF Correct, Step, IInv, TypeOK
<1>3. readers[r].category \in Categories
  BY <1>2 DEF ReaderState, IdleReader
<1>4. /\ mapping' \in [Products -> Categories \cup {NoCategory}] /\ faults' \in 0 .. MaxFaults
      /\ entries' \in [Keys -> View \cup {NoView}]
  BY <1>3, FaultsStayBounded DEF Correct, IInv, TypeOK
<1>5. ReadOnly /\ EntriesSound'
  BY DEF Correct, ReadOnly, db, IInv, EntriesSound
<1>6. ReaderSound(state, versions, due)
  BY <1>1 DEF ReaderSound, ViewLeads, ViewWaits
<1>7. /\ ~MapLeads(state) /\ ~MapWaits(state) /\ ~ViewLeads(state) /\ ~ViewWaits(state)
      /\ ~MapLeads(readers[r]) /\ ~MapWaits(readers[r]) /\ ~ViewLeads(readers[r]) /\ ~ViewWaits(readers[r])
  BY <1>1, <1>2 DEF MapLeads, MapWaits, ViewLeads, ViewWaits
<1> HIDE DEF state
<1> QED BY <1>1, <1>2, <1>4, <1>5, <1>6, <1>7, GoesOn

-----------------------------------------------------------------------------
(***************************************************************************)
(* Steps of writers, and expiry.                                           *)
(***************************************************************************)
LEMMA CommittedKeeps ==
  ASSUME IInv, NEW w \in Writers, NEW affected \in SUBSET Prefixes, NEW bumped \in SUBSET Scopes,
         Committed(w, affected, bumped), category' \in [Products -> Categories]
  PROVE  IInv'
<1>0. /\ commits \in Numbers /\ commits + 1 \in Numbers /\ commits' = commits + 1
      /\ revision \in [Prefixes -> Numbers]
      /\ writers \in [Writers -> [bump : SUBSET Scopes, affected : SUBSET Prefixes, commit : Numbers]]
      /\ UNCHANGED <<versions, due, entries, mapping, readers, workload, faults>>
  BY CacheConstants DEF Committed, IInv, TypeOK, Numbers
<1>1. revision' = [x \in Prefixes |-> IF x \in affected THEN commits + 1 ELSE revision[x]]
  BY DEF Committed
<1>2. revision' \in [Prefixes -> Numbers]
  BY <1>0, <1>1
<1>3. \A x \in Prefixes : revision[x] <= revision'[x] /\ revision'[x] <= commits + 1
  BY <1>0, <1>1, NumbersAreNat DEF IInv, Written, CommitsAreCounted
<1>4. writers' = [writers EXCEPT ![w] = [bump |-> bumped, affected |-> affected, commit |-> commits + 1]]
  BY DEF Committed
<1>5. writers' \in [Writers -> [bump : SUBSET Scopes, affected : SUBSET Prefixes, commit : Numbers]]
  BY <1>0, <1>4
<1>6. TypeOK'
  BY <1>0, <1>2, <1>5 DEF IInv, TypeOK
<1>7. CommitsAreCounted'
  BY <1>0, <1>3 DEF CommitsAreCounted
<1>8. WritersBehind'
  <2> SUFFICES ASSUME NEW v \in Writers, NEW x \in writers'[v].affected
               PROVE  writers'[v].commit <= revision'[x]
    BY DEF WritersBehind
  <2>1. CASE v = w
    BY <1>0, <1>1, <1>4, <2>1 DEF Numbers
  <2>2. CASE v # w
    <3>1. writers'[v] = writers[v] /\ x \in Prefixes /\ writers[v].commit \in Numbers
      BY <1>0, <1>4, <2>2
    <3>2. writers[v].commit <= revision[x]
      BY <3>1 DEF IInv, Written, WritersBehind
    <3> QED BY <1>0, <1>2, <1>3, <3>1, <3>2, NumbersAreNat
  <2> QED BY <2>1, <2>2
<1>9. DueBehind'
  <2> SUFFICES ASSUME NEW s \in Scopes, NEW n \in Numbers, NEW x \in Prefixes
               PROVE  due[s][n][x] <= revision'[x]
    BY <1>0 DEF DueBehind
  <2>1. due[s][n][x] <= revision[x] /\ due[s][n][x] \in Numbers
    BY DEF IInv, TypeOK, Written, DueBehind
  <2> QED BY <1>0, <1>2, <1>3, <2>1, NumbersAreNat
<1>10. EntriesSound' /\ ReadersSound' /\ Flights'
  BY <1>0 DEF IInv, EntriesSound, ReadersSound, Flights
<1> QED BY <1>6, <1>7, <1>8, <1>9, <1>10 DEF IInv, Written

LEMMA WriteKeeps ==
  ASSUME IInv, NEW w \in Writers, Write(w)
  PROVE  IInv'
<1>1. ASSUME NEW c \in Categories, Reprice(w, c) PROVE IInv'
  <2> DEFINE affected == Prefixes \cap ({p \in Products : category[p] = c} \cup {c, All})
  <2>1. Committed(w, affected, {c, All}) /\ category' \in [Products -> Categories]
    BY <1>1 DEF Reprice, IInv, TypeOK
  <2>2. affected \in SUBSET Prefixes /\ {c, All} \in SUBSET Scopes
    BY DEF Scopes
  <2> HIDE DEF affected
  <2> QED BY <2>1, <2>2, CommittedKeeps
<1>2. ASSUME NEW p \in Products, NEW c \in Categories, IngestProduct(w, p, c) PROVE IInv'
  <2> DEFINE affected == Prefixes \cap {p, category[p], c, All}
             bumped == {category[p], c, All}
  <2>1. Committed(w, affected, bumped) /\ category' \in [Products -> Categories]
    BY <1>2 DEF IngestProduct, IInv, TypeOK
  <2>2. affected \in SUBSET Prefixes /\ bumped \in SUBSET Scopes
    BY DEF Scopes, IInv, TypeOK
  <2> HIDE DEF affected, bumped
  <2> QED BY <2>1, <2>2, CommittedKeeps
<1> QED BY <1>1, <1>2 DEF Write

LEMMA IncrKeeps ==
  ASSUME IInv, NEW w \in Writers, NEW s \in Scopes, Incr(w, s)
  PROVE  IInv'
<1> DEFINE n == versions[s]
           announced == [x \in Prefixes |->
             IF x \in writers[w].affected /\ due[s][n][x] < writers[w].commit
               THEN writers[w].commit ELSE due[s][n][x]]
<1>0. /\ versions \in [Scopes -> Numbers] /\ due \in [Scopes -> [Numbers -> [Prefixes -> Numbers]]]
      /\ n \in Numbers /\ n + 1 \in Numbers /\ n < MaxCommits
      /\ writers \in [Writers -> [bump : SUBSET Scopes, affected : SUBSET Prefixes, commit : Numbers]]
      /\ revision \in [Prefixes -> Numbers]
      /\ UNCHANGED <<category, revision, commits, entries, mapping, readers, workload>>
  BY CacheConstants DEF Incr, IInv, TypeOK, Numbers
<1>1. announced \in [Prefixes -> Numbers]
  BY <1>0
<1>2. \A x \in Prefixes : announced[x] <= revision[x]
  BY <1>0 DEF IInv, Written, WritersBehind, DueBehind
<1> HIDE DEF announced
<1>3. \/ UNCHANGED <<versions, due>>
      \/ versions' = [versions EXCEPT ![s] = n + 1] /\ due' = [due EXCEPT ![s][n + 1] = announced]
  BY DEF Incr, announced
<1> HIDE DEF n
<1>a. n \in Nat
  BY <1>0, NumbersAreNat
<1>b. \A t \in Scopes : versions[t] \in Nat
  BY <1>0, NumbersAreNat
<1>4. versions' \in [Scopes -> Numbers] /\ \A t \in Scopes : versions[t] <= versions'[t]
  <2>1. CASE UNCHANGED versions
    BY <1>0, <1>b, <2>1
  <2>2. CASE versions' = [versions EXCEPT ![s] = n + 1]
    BY <1>0, <1>a, <1>b, <2>2 DEF n
  <2> QED BY <1>3, <2>1, <2>2
<1>5. /\ due' \in [Scopes -> [Numbers -> [Prefixes -> Numbers]]]
      /\ \A t \in Scopes, m \in Numbers :
           due'[t][m] = due[t][m] \/ (t = s /\ m = n + 1 /\ due'[t][m] = announced)
  <2>1. CASE UNCHANGED due
    BY <1>0, <2>1
  <2>2. CASE due' = [due EXCEPT ![s][n + 1] = announced]
    <3> DEFINE row == [due[s] EXCEPT ![n + 1] = announced]
    <3>1. due[s] \in [Numbers -> [Prefixes -> Numbers]] /\ due' = [due EXCEPT ![s] = row]
      BY <1>0, <2>2
    <3>2. /\ row \in [Numbers -> [Prefixes -> Numbers]]
          /\ \A m \in Numbers : row[m] = IF m = n + 1 THEN announced ELSE due[s][m]
      BY <1>0, <1>1, <3>1
    <3> HIDE DEF row
    <3>3. due' \in [Scopes -> [Numbers -> [Prefixes -> Numbers]]]
      BY <1>0, <3>1, <3>2
    <3>4. due'[s] = row /\ \A t \in Scopes : t # s => due'[t] = due[t]
      BY <1>0, <3>1
    <3> QED BY <3>2, <3>3, <3>4
  <2> QED BY <1>3, <2>1, <2>2
<1>6. \A t \in Scopes, m \in Numbers : m <= versions[t] => due'[t][m] = due[t][m]
  BY <1>0, <1>5, <1>a DEF n
<1>7. \A t \in Scopes, m \in Numbers : due'[t][m] = due[t][m] \/ due'[t][m] = announced
  BY <1>5
<1>8. /\ writers' = [writers EXCEPT ![w].bump = @ \ {s}]
      /\ writers' \in [Writers -> [bump : SUBSET Scopes, affected : SUBSET Prefixes, commit : Numbers]]
      /\ \A v \in Writers : writers'[v].affected = writers[v].affected /\ writers'[v].commit = writers[v].commit
  BY <1>0 DEF Incr
<1>9. faults' \in 0 .. MaxFaults
  BY FaultsStayBounded DEF Incr, IInv
<1>10. TypeOK'
  BY <1>0, <1>4, <1>5, <1>8, <1>9 DEF IInv, TypeOK
<1>11. Written'
  BY <1>0, <1>2, <1>7, <1>8 DEF IInv, Written, CommitsAreCounted, WritersBehind, DueBehind
<1>12. \A k \in Keys, v \in View : Answered(k, v, versions, due) => Answered(k, v, versions', due')
  <2> SUFFICES ASSUME NEW k \in Keys, NEW v \in View, Answered(k, v, versions, due)
               PROVE  Answered(k, v, versions', due')
    OBVIOUS
  <2>1. k.scope \in Scopes /\ k.token \in Numbers /\ k.token <= versions[k.scope]
    BY KeyFacts DEF Answered
  <2>2. k.token <= versions'[k.scope] /\ due'[k.scope][k.token] = due[k.scope][k.token]
    BY <1>0, <1>4, <1>6, <2>1, NumbersAreNat
  <2> QED BY <2>2 DEF Answered
<1>13. EntriesSound'
  BY <1>0, <1>12 DEF IInv, TypeOK, EntriesSound
<1>14. ReadersSound'
  <2> SUFFICES ASSUME NEW r \in Readers PROVE ReaderSound(readers[r], versions', due')
    BY <1>0 DEF ReadersSound
  <2>1. ReaderSound(readers[r], versions, due) /\ readers[r] \in ReaderState
    BY DEF IInv, TypeOK, ReadersSound
  <2>2. ASSUME NEW k \in Keys, k.token <= versions[k.scope] PROVE k.token <= versions'[k.scope]
    <3>1. k.scope \in Scopes /\ k.token \in Numbers
      BY KeyFacts
    <3>2. k.token \in Nat /\ versions[k.scope] \in Nat /\ versions'[k.scope] \in Nat
      BY <1>4, <1>b, <3>1, NumbersAreNat
    <3> QED BY <1>4, <2>2, <3>1, <3>2
  <2>3. readers[r].at = "put" => readers[r].key \in Keys /\ readers[r].view \in View
    BY <2>1 DEF ReaderState, IdleReader
  <2> QED BY <1>12, <2>1, <2>2, <2>3 DEF ReaderSound
<1>15. Flights'
  BY <1>0 DEF IInv, Flights
<1> QED BY <1>10, <1>11, <1>13, <1>14, <1>15 DEF IInv

-----------------------------------------------------------------------------
\* The invariant is inductive.
LEMMA InitEstablishes == Init => IInv
<1> SUFFICES ASSUME Init PROVE IInv
  OBVIOUS
<1>1. 0 \in Numbers /\ 0 <= 0 /\ MaxFaults \in Nat
  BY CacheConstants DEF Numbers
<1>2. \A r \in Readers : readers[r] = IdleReader
  BY DEF Init
<1>3. IdleReader \in ReaderState /\ IdleReader.at = "idle"
  BY DEF IdleReader, ReaderState
<1>4. TypeOK
  BY <1>1, <1>3, CacheConstants DEF Init, TypeOK
<1>5. Written
  BY <1>1 DEF Init, Written, CommitsAreCounted, WritersBehind, DueBehind
<1>6. EntriesSound
  BY DEF Init, EntriesSound
<1>7. ReadersSound /\ Flights
  BY <1>2, <1>3 DEF ReadersSound, ReaderSound, Flights, Unique, Awaited,
                    MapLeads, MapWaits, ViewLeads, ViewWaits
<1> QED BY <1>4, <1>5, <1>6, <1>7 DEF IInv

LEMMA NextKeeps == IInv /\ [Next]_vars => IInv'
<1> SUFFICES ASSUME IInv, [Next]_vars PROVE IInv'
  OBVIOUS
<1>1. ASSUME NEW w \in Writers, Write(w) PROVE IInv'
  BY <1>1, WriteKeeps
<1>2. ASSUME NEW w \in Writers, NEW s \in Scopes, Incr(w, s) PROVE IInv'
  BY <1>2, IncrKeeps
<1>3. ASSUME NEW r \in Readers, Start(r) PROVE IInv'
  BY <1>3, StartKeeps
<1>4. ASSUME NEW r \in Readers, Continue(r) PROVE IInv'
  BY <1>4, MapStepsKeep, VersionKeeps, ViewStepsKeep, QueryThrowsKeeps, CorrectKeeps DEF Continue
<1>5. ASSUME NEW k \in Keys, Expire(k) PROVE IInv'
  <2>1. entries' \in [Keys -> View \cup {NoView}] /\ EntriesSound'
    BY <1>5 DEF Expire, db, IInv, TypeOK, EntriesSound
  <2> QED BY <1>5, <2>1 DEF Expire, db, IInv, TypeOK, Written, CommitsAreCounted, WritersBehind,
                            DueBehind, ReadersSound, Flights
<1>6. ASSUME NEW p \in Products, ExpireMapping(p) PROVE IInv'
  BY <1>6 DEF ExpireMapping, db, IInv, TypeOK, Written, CommitsAreCounted, WritersBehind,
              DueBehind, ReadersSound, EntriesSound, Flights
<1>7. CASE UNCHANGED vars
  BY <1>7 DEF vars, IInv, TypeOK, Written, CommitsAreCounted, WritersBehind,
              DueBehind, ReadersSound, EntriesSound, Flights
<1> QED BY <1>1, <1>2, <1>3, <1>4, <1>5, <1>6, <1>7 DEF Next

LEMMA Invariance == Spec => []IInv
BY InitEstablishes, NextKeeps, PTL DEF Spec

-----------------------------------------------------------------------------
\* Type correctness: an entry is a view of something that is read, a listing is
\* always read and stored under its own scope.
THEOREM CacheTypes == Spec => []TypeOK
<1>1. IInv => TypeOK
  BY DEF IInv
<1> QED BY <1>1, Invariance, PTL

\* A read returns nothing older than the last change announced in its scope before it
\* read the version.
THEOREM ReadsAreFresh == Spec => []FreshRead
<1>1. IInv => FreshRead
  <2> SUFFICES ASSUME IInv, NEW r \in Readers, NEW v \in Answers(r)
               PROVE  /\ v.prefix = readers[r].key.prefix
                      /\ v.revision >= due[readers[r].key.scope][readers[r].key.token][readers[r].key.prefix]
    BY DEF FreshRead
  <2> DEFINE k == readers[r].key
  <2>0. readers[r] \in ReaderState
    BY DEF IInv, TypeOK
  <2>1. k \in Keys /\ Answered(k, v, versions, due)
    <3>1. CASE v = entries[k] /\ v # NoView /\ readers[r].at = "get"
      BY <2>0, <3>1 DEF ReaderState, IdleReader, IInv, EntriesSound
    <3>2. CASE v = readers[r].view /\ readers[r].at = "put"
      BY <2>0, <3>2 DEF ReaderState, IdleReader, IInv, ReadersSound, ReaderSound
    <3> QED BY <3>1, <3>2 DEF Answers, Serving
  <2>2. v.revision \in Int /\ due[k.scope][k.token][k.prefix] \in Int
    <3>1. due[k.scope][k.token][k.prefix] \in Numbers
      BY <2>1, KeyFacts DEF IInv, TypeOK
    <3>2. v \in View
      BY <2>0, <2>1 DEF Answers, Serving, IInv, TypeOK, ReaderState, IdleReader
    <3> QED BY <3>1, <3>2, NumbersAreNat DEF View
  <2> QED BY <2>1, <2>2 DEF Answered
<1> QED BY <1>1, Invariance, PTL

\* In a process a key is computed by one request at a time, and nobody waits for a
\* flight that is over.
THEOREM FlightsAreShared == Spec => []OneFlight
<1>1. IInv => OneFlight
  BY DEF IInv, Flights, Unique, Awaited, OneFlight, MapLeads, MapWaits, ViewLeads, ViewWaits,
         MapLeader, ViewLeader, MapFlight, ViewFlight, Serving
<1> QED BY <1>1, Invariance, PTL
=============================================================================
