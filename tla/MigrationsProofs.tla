--------------------------- MODULE MigrationsProofs ---------------------------
(***************************************************************************)
(* Proofs about Migrations, for every number of runners, releases, faults  *)
(* and runs.                                                               *)
(***************************************************************************)
EXTENDS Migrations, TLAPS

-----------------------------------------------------------------------------
(***************************************************************************)
(* The inductive invariant.  A runner that is past pg_advisory_lock has    *)
(* the lock, so what it read of schema_migrations stays what is recorded,  *)
(* except for what it records itself.                                      *)
(***************************************************************************)
Locked == {"create", "read", "next", "apply", "record", "commit", "rollback", "unlock",
           "unlockFailed"}
Reading == {"next", "apply", "record", "commit", "unlock"}

\* The local variables of a runner with the migrations up to n, when rows are recorded.
Sound(s, n, rows) ==
  /\ s.at \in {"wait", "connect", "lock", "create", "read"} => s.next = 1
  /\ s.at \in Reading => /\ rows \subseteq s.seen \cup 1 .. (s.next - 1)
                         /\ 1 .. (s.next - 1) \subseteq rows
                         /\ s.seen \subseteq rows
  /\ s.at \in {"apply", "record", "commit"} => s.next <= n /\ s.next \notin rows
  /\ s.at \in {"record", "commit"} => s.sql
  /\ s.at \in {"apply", "record"} => ~s.row
  /\ s.at = "commit" => s.row
  /\ s.at = "unlock" => n < s.next
  /\ s.at = "ok" => 1 .. n \subseteq rows
  /\ s.at \in {"rollback", "unlockFailed", "failed"} => s.cause

LockHeld == \A r \in Runners : At(r, Locked) => lock = r
RunnersSound == \A r \in Runners : Sound(runner[r], Release[r], recorded)

\* The rows are those of the migrations in force, without gaps.
RowsOfSchema == recorded = {schema[i] : i \in 1 .. Len(schema)}
NoGaps == \A g \in recorded : 1 .. g \subseteq recorded

IInv == TypeOK /\ LockHeld /\ RunnersSound /\ RowsOfSchema /\ NoGaps

-----------------------------------------------------------------------------
\* Fresh local variables satisfy the invariant before the lock and after a failure.
LEMMA FreshIsSound ==
  ASSUME NEW n \in Nat, NEW rows, NEW state \in RunnerState
  PROVE  /\ \A k \in Nat : Fresh("wait", k) \in RunnerState /\ Sound(Fresh("wait", k), n, rows)
         /\ Failed(state) \in RunnerState /\ Failed(state).at = "failed"
         /\ Sound(Failed(state), n, rows)
<1>1. \A place \in Places, k \in Nat :
        /\ Fresh(place, k) \in RunnerState
        /\ Fresh(place, k).at = place /\ Fresh(place, k).next = 1
  BY MigrationConstants DEF Fresh, RunnerState
<1>2. state.runs \in Nat /\ "failed" \in Places /\ "wait" \in Places
  BY DEF RunnerState, Places
<1>3. Failed(state) \in RunnerState /\ Failed(state).at = "failed" /\ Failed(state).cause
  BY <1>1, <1>2 DEF Failed, RunnerState
<1>4. Sound(Failed(state), n, rows)
  BY <1>3 DEF Sound, Reading
<1>5. \A k \in Nat : Sound(Fresh("wait", k), n, rows)
  BY <1>1, <1>2 DEF Sound, Reading
<1> QED BY <1>1, <1>2, <1>3, <1>4, <1>5

\* A step that touches neither the database nor the lock, and leaves r sound where it
\* had the lock if it needs it now, preserves the invariant.
LEMMA LocalStep ==
  ASSUME IInv, NEW r \in Runners, NEW state \in RunnerState,
         runner' = [runner EXCEPT ![r] = state],
         UNCHANGED <<up, lock, schema, recorded, faults>>,
         Sound(state, Release[r], recorded),
         state.at \in Locked => lock = r
  PROVE  IInv'
<1>1. runner' \in [Runners -> RunnerState]
  BY DEF IInv, TypeOK
<1>2. TypeOK'
  BY <1>1 DEF IInv, TypeOK
<1>3. LockHeld'
  BY DEF IInv, TypeOK, LockHeld, At
<1>4. RunnersSound'
  BY DEF IInv, TypeOK, RunnersSound
<1>5. RowsOfSchema' /\ NoGaps'
  BY DEF IInv, RowsOfSchema, NoGaps
<1> QED BY <1>2, <1>3, <1>4, <1>5 DEF IInv

\* Sessions that end preserve it: their transactions leave nothing, their locks go.
LEMMA DropKeeps ==
  ASSUME IInv, NEW lost \in SUBSET Runners, Drop(lost),
         UNCHANGED <<schema, recorded>>, up' \in BOOLEAN, faults' \in 0 .. MaxFaults
  PROVE  IInv'
<1>1. \A r \in Runners : /\ Failed(runner[r]) \in RunnerState
                         /\ Failed(runner[r]).at = "failed"
                         /\ Sound(Failed(runner[r]), Release[r], recorded)
  BY FreshIsSound, MigrationConstants DEF IInv, TypeOK
<1>2. runner' \in [Runners -> RunnerState]
  BY <1>1 DEF IInv, TypeOK, Drop
<1>3. TypeOK'
  BY <1>2 DEF IInv, TypeOK, Drop
<1>4. LockHeld'
  <2> SUFFICES ASSUME NEW r \in Runners, runner'[r].at \in Locked
               PROVE  lock' = r
    BY DEF LockHeld, At
  <2>1. r \notin lost
    BY <1>1 DEF Drop, Locked
  <2>2. lock = r
    BY <2>1 DEF Drop, IInv, LockHeld, At
  <2> QED BY <2>1, <2>2 DEF Drop
<1>5. RunnersSound'
  BY <1>1 DEF IInv, TypeOK, RunnersSound, Drop
<1>6. RowsOfSchema' /\ NoGaps'
  BY DEF IInv, RowsOfSchema, NoGaps
<1> QED BY <1>3, <1>4, <1>5, <1>6 DEF IInv

\* What a COMMIT does to the database is one migration of SchemaHistory.
LEMMA CommitMigrates ==
  ASSUME IInv, NEW r \in Runners, At(r, {"commit"}), Commits(r)
  PROVE  /\ runner[r].next \in Numbers
         /\ History!Migrate(runner[r].next)
         /\ schema' \in Seq(Numbers) /\ recorded' \subseteq Numbers
         /\ RowsOfSchema' /\ NoGaps'
<1> DEFINE f == runner[r].next
<1>1. /\ f \in Nat \ {0} /\ f <= Release[r] /\ f \notin recorded
      /\ 1 .. (f - 1) \subseteq recorded
      /\ runner[r].sql /\ runner[r].row
  BY DEF IInv, TypeOK, RunnersSound, Sound, Reading, At, RunnerState
<1>2. f \in Numbers
  BY <1>1, MigrationConstants DEF Numbers
<1>3. schema' = Append(schema, f) /\ recorded' = recorded \cup {f}
  BY <1>1 DEF Commits
<1>4. schema \in Seq(Numbers) /\ recorded \subseteq Numbers
  BY DEF IInv, TypeOK
<1>5. \A i \in 1 .. Len(schema) : schema[i] \in recorded
  BY DEF IInv, RowsOfSchema
<1>6. Numbers \subseteq Nat
  BY MigrationConstants DEF Numbers
<1>7. \A g \in recorded : g < f
  <2> SUFFICES ASSUME NEW g \in recorded, f <= g PROVE FALSE
    BY <1>1, <1>4, <1>6
  <2>1. f \in 1 .. g
    BY <1>1, <1>4, <1>6
  <2> QED BY <2>1, <1>1 DEF IInv, NoGaps
<1>8. History!Migrate(f)
  BY <1>1, <1>3, <1>5, <1>7 DEF History!Migrate
<1>9. schema' \in Seq(Numbers) /\ recorded' \subseteq Numbers
  BY <1>2, <1>3, <1>4
<1>10. RowsOfSchema'
  <2>1. /\ Len(schema') = Len(schema) + 1 /\ Len(schema) \in Nat
        /\ schema'[Len(schema) + 1] = f
        /\ \A i \in 1 .. Len(schema) : schema'[i] = schema[i]
    BY <1>2, <1>3, <1>4
  <2>2. {schema'[i] : i \in 1 .. Len(schema')} = {schema[i] : i \in 1 .. Len(schema)} \cup {f}
    BY <2>1
  <2> QED BY <2>2, <1>3 DEF IInv, RowsOfSchema
<1>11. NoGaps'
  <2> SUFFICES ASSUME NEW g \in recorded', NEW h \in 1 .. g PROVE h \in recorded'
    BY DEF NoGaps
  <2>1. CASE g \in recorded
    BY <2>1, <1>3 DEF IInv, NoGaps
  <2>2. CASE g = f
    BY <2>2, <1>1, <1>3
  <2> QED BY <2>1, <2>2, <1>3
<1> QED BY <1>2, <1>8, <1>9, <1>10, <1>11

\* The holder of the lock is the only runner that reads or writes rows.
LEMMA OthersAreNotReading ==
  ASSUME IInv, NEW r \in Runners, At(r, Locked), NEW q \in Runners, q # r
  PROVE  runner[q].at \notin Locked
BY DEF IInv, LockHeld, At

\* More rows disturb no runner that is not between its reading and its unlocking.
LEMMA OthersStaySound ==
  ASSUME NEW s, NEW n, NEW rows, NEW more, rows \subseteq more,
         Sound(s, n, rows), s.at \notin Locked
  PROVE  Sound(s, n, more)
BY DEF Sound, Locked, Reading

\* A confirmed COMMIT preserves the invariant.
LEMMA CommitKeeps ==
  ASSUME IInv, NEW r \in Runners, Commit(r)
  PROVE  IInv'
<1> DEFINE f == runner[r].next
           state == [runner[r] EXCEPT !.at = "next", !.next = f + 1]
<1>0. At(r, {"commit"}) /\ Commits(r) /\ UNCHANGED <<up, lock, faults>>
  BY DEF Commit
<1>1. runner[r] \in RunnerState /\ runner[r].at = "commit"
  BY <1>0 DEF IInv, TypeOK, At
<1>2. runner' = [runner EXCEPT ![r] = state] /\ state \in RunnerState
  <2>1. runner' = [runner EXCEPT ![r] = state]
    <3>1. r \in DOMAIN runner
      BY DEF IInv, TypeOK
    <3> QED BY <3>1 DEF Commit
  <2>2. state \in RunnerState
    <3>1. f + 1 \in Nat \ {0} /\ "next" \in Places
      BY <1>1 DEF RunnerState, Places
    <3> QED BY <1>1, <3>1 DEF RunnerState
  <2> QED BY <2>1, <2>2
<1>3. recorded' = recorded \cup {f}
  <2>1. runner[r].row
    BY <1>1 DEF IInv, RunnersSound, Sound
  <2> QED BY <1>0, <2>1 DEF Commits
<1>4. TypeOK'
  BY <1>0, <1>2, CommitMigrates DEF IInv, TypeOK
<1>5. LockHeld'
  BY <1>0, <1>1, <1>2 DEF IInv, TypeOK, LockHeld, At, Locked
<1>6. RunnersSound'
  <2>1. Sound(state, Release[r], recorded')
    <3>1. state.at = "next" /\ state.next = f + 1 /\ state.seen = runner[r].seen /\ f \in Nat \ {0}
      BY <1>1 DEF RunnerState
    <3>2. /\ recorded \subseteq runner[r].seen \cup 1 .. (f - 1)
          /\ 1 .. (f - 1) \subseteq recorded /\ runner[r].seen \subseteq recorded
      BY <1>1 DEF IInv, RunnersSound, Sound, Reading
    <3>3. 1 .. f = (1 .. (f - 1)) \cup {f}
      BY <3>1
    <3> QED BY <3>1, <3>2, <3>3, <1>3 DEF Sound, Reading
  <2>2. \A q \in Runners : q # r => Sound(runner[q], Release[q], recorded')
    BY <1>0, <1>1, <1>3, OthersAreNotReading, OthersStaySound
       DEF IInv, RunnersSound, At, Locked
  <2> QED BY <2>1, <2>2, <1>2 DEF IInv, TypeOK, RunnersSound
<1> QED BY <1>0, <1>4, <1>5, <1>6, CommitMigrates DEF IInv

\* A COMMIT whose confirmation is lost preserves it.
LEMMA LostConfirmationKeeps ==
  ASSUME IInv, NEW r \in Runners, LoseConfirmation(r)
  PROVE  IInv'
<1>0. /\ At(r, {"commit"}) /\ Commits(r) /\ UNCHANGED up /\ faults' \in 0 .. MaxFaults
      /\ runner[r].at = "commit"
  BY MigrationConstants DEF LoseConfirmation, IInv, TypeOK, At
<1>1. recorded' = recorded \cup {runner[r].next}
  BY <1>0 DEF Commits, IInv, RunnersSound, Sound
<1>2. /\ Failed(runner[r]) \in RunnerState /\ Failed(runner[r]).at = "failed"
      /\ Sound(Failed(runner[r]), Release[r], recorded')
  BY FreshIsSound, MigrationConstants DEF IInv, TypeOK
<1>3. runner' = [runner EXCEPT ![r] = Failed(runner[r])]
  BY DEF LoseConfirmation, Drop, IInv, TypeOK
<1>4. lock' = NoRunner
  BY <1>0 DEF LoseConfirmation, Drop, IInv, LockHeld, At, Locked
<1>5. \A q \in Runners : q # r => runner[q].at \notin Locked
  BY <1>0, OthersAreNotReading DEF At, Locked
<1>6. runner' \in [Runners -> RunnerState]
  BY <1>2, <1>3 DEF IInv, TypeOK
<1>7. TypeOK'
  BY <1>0, <1>4, <1>6, CommitMigrates DEF IInv, TypeOK
<1>8. LockHeld'
  BY <1>2, <1>3, <1>5 DEF IInv, TypeOK, LockHeld, At, Locked
<1>9. RunnersSound'
  BY <1>1, <1>2, <1>3, <1>5, OthersStaySound DEF IInv, TypeOK, RunnersSound
<1> QED BY <1>0, <1>7, <1>8, <1>9, CommitMigrates DEF IInv

\* Every statement of a runner preserves the invariant.
LEMMA StepKeeps ==
  ASSUME IInv, NEW r \in Runners, Step(r)
  PROVE  IInv'
<1> DEFINE s == runner[r]
<1>0. /\ s \in RunnerState /\ runner \in [Runners -> RunnerState]
      /\ s.at \in Locked => lock = r
      /\ Sound(s, Release[r], recorded) /\ Release[r] \in Nat
  BY MigrationConstants DEF IInv, TypeOK, LockHeld, RunnersSound, At
<1>1. Failed(s) \in RunnerState /\ Failed(s).at = "failed" /\ Sound(Failed(s), Release[r], recorded)
  BY <1>0, FreshIsSound
<1>2. ASSUME NEW place \in Places, Go(r, place), UNCHANGED <<up, lock, data, faults>>,
             Sound([s EXCEPT !.at = place], Release[r], recorded), place \in Locked => lock = r
      PROVE  IInv'
  <2>1. [s EXCEPT !.at = place] \in RunnerState /\ [s EXCEPT !.at = place].at = place
    BY <1>0 DEF RunnerState
  <2>2. runner' = [runner EXCEPT ![r] = [s EXCEPT !.at = place]]
    BY <1>2 DEF Go
  <2> QED BY <1>2, <2>1, <2>2, LocalStep DEF data
<1>3. CASE Poll(r)
  <2>1. CASE up /\ Go(r, "connect")
    BY <2>1, <1>0, <1>2, <1>3 DEF Poll, At, Sound, RunnerState, Places, Locked, Reading
  <2>2. CASE runner' = [runner EXCEPT ![r].attempts = @ + 1] /\ s.attempts < MaxAttempts
    <3>1. /\ [s EXCEPT !.attempts = @ + 1] \in RunnerState
          /\ Sound([s EXCEPT !.attempts = @ + 1], Release[r], recorded)
          /\ [s EXCEPT !.attempts = @ + 1].at = s.at
      BY <2>2, <1>0, MigrationConstants DEF Sound, RunnerState
    <3> QED BY <3>1, <2>2, <1>0, <1>3, LocalStep DEF Poll, data
  <2>3. CASE runner' = [runner EXCEPT ![r] = Failed(s)]
    BY <2>3, <1>1, <1>3, LocalStep DEF Poll, data, Locked
  <2> QED BY <1>3, <2>1, <2>2, <2>3 DEF Poll
<1>4. CASE Connect(r)
  <2>1. CASE Go(r, "lock")
    BY <2>1, <1>0, <1>2, <1>4 DEF Connect, At, Sound, RunnerState, Places, Locked, Reading
  <2>2. CASE runner' = [runner EXCEPT ![r] = Failed(s)]
    BY <2>2, <1>1, <1>4, LocalStep DEF Connect, data, Locked
  <2> QED BY <1>4, <2>1, <2>2 DEF Connect, Go
<1>5. CASE Lock(r)
  <2>1. /\ s.at = "lock" /\ s.next = 1 /\ lock = NoRunner /\ lock' = r
        /\ UNCHANGED <<up, schema, recorded, faults>>
    BY <1>0, <1>5 DEF Lock, At, Sound, data
  <2> DEFINE state == [s EXCEPT !.at = "create"]
  <2>2. state \in RunnerState /\ state.at = "create" /\ Sound(state, Release[r], recorded)
    BY <1>0, <2>1 DEF RunnerState, Places, Sound, Reading
  <2>3. runner' = [runner EXCEPT ![r] = state]
    BY <1>5 DEF Lock, Go
  <2> HIDE DEF state
  <2>4. runner' \in [Runners -> RunnerState]
    BY <1>0, <2>2, <2>3
  <2>5. TypeOK'
    BY <2>1, <2>4 DEF IInv, TypeOK
  <2>6. LockHeld'
    BY <1>0, <2>1, <2>3, MigrationConstants DEF IInv, LockHeld, At
  <2>7. RunnersSound'
    BY <1>0, <2>1, <2>2, <2>3 DEF IInv, RunnersSound
  <2> QED BY <2>1, <2>5, <2>6, <2>7 DEF IInv, RowsOfSchema, NoGaps
<1>6. CASE Create(r)
  BY <1>0, <1>2, <1>6 DEF Create, At, Sound, RunnerState, Places, Locked, Reading
<1>7. CASE Read(r)
  <2> DEFINE state == [s EXCEPT !.at = "next", !.seen = recorded]
  <2>1. /\ runner' = [runner EXCEPT ![r] = state] /\ state \in RunnerState
        /\ state.at = "next" /\ s.at = "read" /\ state.next = 1 /\ state.seen = recorded
    BY <1>0, <1>7 DEF Read, At, RunnerState, Places, IInv, TypeOK, Sound
  <2>2. Sound(state, Release[r], recorded)
    BY <2>1 DEF Sound, Reading
  <2> QED BY <1>0, <1>7, <2>1, <2>2, LocalStep DEF Read, data, Locked
<1>8. CASE NextFile(r)
  <2>1. /\ s.at = "next" /\ s.next \in Nat \ {0} /\ lock = r
        /\ recorded \subseteq s.seen \cup 1 .. (s.next - 1)
        /\ 1 .. (s.next - 1) \subseteq recorded /\ s.seen \subseteq recorded
    BY <1>0, <1>8 DEF NextFile, At, Sound, Reading, RunnerState, Locked
  <2>2. CASE s.next > Release[r] /\ Go(r, "unlock")
    <3>1. Sound([s EXCEPT !.at = "unlock"], Release[r], recorded)
      BY <1>0, <2>1, <2>2 DEF Sound, Reading, RunnerState
    <3> QED BY <1>2, <1>8, <2>1, <2>2, <3>1 DEF NextFile, Places
  <2>3. CASE s.next \in s.seen /\ runner' = [runner EXCEPT ![r].next = s.next + 1]
    <3> DEFINE state == [s EXCEPT !.next = s.next + 1]
    <3>1. state \in RunnerState /\ state.at = "next" /\ state.next = s.next + 1 /\ state.seen = s.seen
      BY <1>0, <2>1 DEF RunnerState
    <3>2. 1 .. ((s.next + 1) - 1) = (1 .. (s.next - 1)) \cup {s.next}
      BY <2>1
    <3>3. Sound(state, Release[r], recorded)
      BY <2>1, <2>3, <3>1, <3>2 DEF Sound, Reading
    <3> HIDE DEF state
    <3>4. runner' = [runner EXCEPT ![r] = state]
      BY <2>3 DEF state
    <3> QED BY <1>8, <2>1, <3>1, <3>3, <3>4, LocalStep DEF NextFile, data
  <2>4. CASE /\ s.next <= Release[r] /\ s.next \notin s.seen
             /\ runner' = [runner EXCEPT ![r].at = "apply", ![r].sql = FALSE, ![r].row = FALSE]
    <3> DEFINE state == [s EXCEPT !.at = "apply", !.sql = FALSE, !.row = FALSE]
    <3>1. /\ state \in RunnerState /\ state.at = "apply" /\ state.next = s.next /\ state.seen = s.seen
          /\ ~state.row
          /\ runner' = [runner EXCEPT ![r] = state]
      BY <1>0, <2>4 DEF RunnerState, Places
    <3>2. Sound(state, Release[r], recorded)
      BY <2>1, <2>4, <3>1 DEF Sound, Reading
    <3> QED BY <1>8, <2>1, <3>1, <3>2, LocalStep DEF NextFile, data
  <2> QED BY <1>8, <2>2, <2>3, <2>4 DEF NextFile
<1>9. CASE Apply(r)
  <2>1. s.at = "apply" /\ lock = r
    BY <1>0, <1>9 DEF Apply, At, Locked
  <2>2. CASE runner' = [runner EXCEPT ![r].at = "rollback", ![r].cause = TRUE]
    <3> DEFINE state == [s EXCEPT !.at = "rollback", !.cause = TRUE]
    <3>1. /\ state \in RunnerState /\ state.at = "rollback" /\ state.cause
          /\ runner' = [runner EXCEPT ![r] = state]
      BY <1>0, <2>2 DEF RunnerState, Places
    <3>2. Sound(state, Release[r], recorded)
      BY <3>1 DEF Sound, Reading
    <3> QED BY <1>9, <2>1, <3>1, <3>2, LocalStep DEF Apply, data
  <2>3. CASE runner' = [runner EXCEPT ![r].at = "record", ![r].sql = TRUE]
    <3> DEFINE state == [s EXCEPT !.at = "record", !.sql = TRUE]
    <3>1. /\ state \in RunnerState /\ state.at = "record" /\ state.sql /\ state.next = s.next
          /\ state.seen = s.seen /\ state.row = s.row
          /\ runner' = [runner EXCEPT ![r] = state]
      BY <1>0, <2>3 DEF RunnerState, Places
    <3>2. Sound(state, Release[r], recorded)
      BY <1>0, <2>1, <3>1 DEF Sound, Reading
    <3> QED BY <1>9, <2>1, <3>1, <3>2, LocalStep DEF Apply, data
  <2> QED BY <1>9, <2>2, <2>3 DEF Apply
<1>10. CASE Record(r)
  <2>1. s.at = "record" /\ lock = r /\ s.next \notin recorded
    BY <1>0, <1>10 DEF Record, At, Sound, Locked
  <2> DEFINE state == [s EXCEPT !.at = "commit", !.row = TRUE]
  <2>2. /\ state \in RunnerState /\ state.at = "commit" /\ state.sql = s.sql /\ state.row
        /\ state.next = s.next /\ state.seen = s.seen
        /\ runner' = [runner EXCEPT ![r] = state]
    BY <1>0, <1>10, <2>1 DEF Record, RunnerState, Places
  <2>3. Sound(state, Release[r], recorded)
    BY <1>0, <2>1, <2>2 DEF Sound, Reading
  <2> QED BY <1>10, <2>1, <2>2, <2>3, LocalStep DEF Record, data
<1>11. CASE Commit(r)
  BY <1>11, CommitKeeps
<1>12. CASE Rollback(r)
  BY <1>0, <1>2, <1>12 DEF Rollback, At, Sound, RunnerState, Places, Locked, Reading
<1>13. CASE Unlock(r)
  <2> DEFINE state == [Fresh(IF At(r, {"unlock"}) THEN "ok" ELSE "failed", s.runs)
                         EXCEPT !.cause = s.cause]
  <2>1. /\ s.at \in {"unlock", "unlockFailed"} /\ lock' = NoRunner
        /\ runner' = [runner EXCEPT ![r] = state]
        /\ UNCHANGED <<up, schema, recorded, faults>>
    BY <1>13 DEF Unlock, At, data
  <2>2. /\ state \in RunnerState /\ state.cause = s.cause
        /\ state.at = IF s.at = "unlock" THEN "ok" ELSE "failed"
    <3> DEFINE place == IF At(r, {"unlock"}) THEN "ok" ELSE "failed"
    <3>1. place \in Places /\ place = (IF s.at = "unlock" THEN "ok" ELSE "failed")
      BY DEF Places, At
    <3>2. s.runs \in Nat /\ s.cause \in BOOLEAN
      BY <1>0 DEF RunnerState
    <3> HIDE DEF place
    <3>3. Fresh(place, s.runs) \in RunnerState /\ Fresh(place, s.runs).at = place
      BY <3>1, <3>2, MigrationConstants DEF Fresh, RunnerState
    <3>4. state = [Fresh(place, s.runs) EXCEPT !.cause = s.cause]
      BY DEF place
    <3> QED BY <3>1, <3>2, <3>3, <3>4 DEF RunnerState
  <2>3. Sound(state, Release[r], recorded)
    <3>1. CASE s.at = "unlock"
      <4>1. s.next \in Nat /\ Release[r] < s.next /\ 1 .. (s.next - 1) \subseteq recorded
        BY <1>0, <3>1 DEF Sound, Reading, RunnerState
      <4>2. 1 .. Release[r] \subseteq recorded
        BY <4>1, <1>0
      <4> QED BY <2>2, <3>1, <4>2 DEF Sound, Reading
    <3>2. CASE s.at = "unlockFailed"
      BY <1>0, <2>2, <3>2 DEF Sound, Reading
    <3> QED BY <2>1, <3>1, <3>2
  <2>4. state.at \notin Locked
    BY <2>2 DEF Locked
  <2>5. \A q \in Runners : q # r => runner[q].at \notin Locked
    BY <2>1, OthersAreNotReading DEF At, Locked
  <2> HIDE DEF state
  <2>6. runner' \in [Runners -> RunnerState]
    BY <1>0, <2>1, <2>2
  <2>7. TypeOK'
    BY <2>1, <2>6 DEF IInv, TypeOK
  <2>8. LockHeld'
    BY <1>0, <2>1, <2>4, <2>5 DEF LockHeld, At
  <2>9. RunnersSound'
    BY <1>0, <2>1, <2>3 DEF IInv, RunnersSound
  <2> QED BY <2>1, <2>7, <2>8, <2>9 DEF IInv, RowsOfSchema, NoGaps
<1> QED BY <1>3, <1>4, <1>5, <1>6, <1>7, <1>8, <1>9, <1>10, <1>11, <1>12, <1>13 DEF Step

\* The invariant is inductive.
LEMMA InitEstablishes == Init => IInv
<1> SUFFICES ASSUME Init PROVE IInv
  OBVIOUS
<1>1. \A r \in Runners : runner[r] = Fresh("wait", 1)
  BY DEF Init
<1>2. Fresh("wait", 1).at = "wait"
  BY DEF Fresh
<1>3. \A r \in Runners : Fresh("wait", 1) \in RunnerState /\ Sound(Fresh("wait", 1), Release[r], recorded)
  BY MigrationConstants DEF Fresh, Sound, Reading, RunnerState, Places
<1>4. TypeOK
  BY <1>3, MigrationConstants DEF Init, TypeOK
<1>5. LockHeld /\ RunnersSound
  BY <1>1, <1>2, <1>3 DEF LockHeld, RunnersSound, At, Locked
<1> QED BY <1>4, <1>5 DEF Init, IInv, RowsOfSchema, NoGaps

LEMMA NextKeeps == IInv /\ [Next]_vars => IInv'
<1> SUFFICES ASSUME IInv, [Next]_vars PROVE IInv'
  OBVIOUS
<1>1. ASSUME NEW r \in Runners, Step(r) PROVE IInv'
  BY <1>1, StepKeeps
<1>2. ASSUME NEW r \in Runners, LoseConnection(r) PROVE IInv'
  BY <1>2, DropKeeps, MigrationConstants DEF LoseConnection, data, IInv, TypeOK
<1>3. ASSUME NEW r \in Runners, LoseConfirmation(r) PROVE IInv'
  BY <1>3, LostConfirmationKeeps
<1>4. ASSUME NEW r \in Runners, RunAgain(r) PROVE IInv'
  <2>1. runner[r] \in RunnerState /\ runner[r].runs + 1 \in Nat
    BY DEF IInv, TypeOK, RunnerState
  <2>2. /\ Fresh("wait", runner[r].runs + 1) \in RunnerState
        /\ Sound(Fresh("wait", runner[r].runs + 1), Release[r], recorded)
    BY <2>1, FreshIsSound, MigrationConstants
  <2>3. Fresh("wait", runner[r].runs + 1).at \notin Locked
    BY DEF Fresh, Locked
  <2> QED BY <1>4, <2>2, <2>3, LocalStep DEF RunAgain, data
<1>5. CASE StopPostgres
  <2> DEFINE lost == {r \in Runners : InSession(r)}
  <2>1. lost \in SUBSET Runners /\ Drop(lost) /\ UNCHANGED <<schema, recorded>> /\ up' = FALSE
    BY <1>5 DEF StopPostgres, data
  <2>2. faults' \in 0 .. MaxFaults
    BY <1>5, MigrationConstants DEF StopPostgres, IInv, TypeOK
  <2> HIDE DEF lost
  <2> QED BY <2>1, <2>2, DropKeeps
<1>6. CASE StartPostgres
  BY <1>6 DEF StartPostgres, data, IInv, TypeOK, LockHeld, RunnersSound, RowsOfSchema, NoGaps, At
<1>7. CASE UNCHANGED vars
  BY <1>7 DEF vars, data, IInv, TypeOK, LockHeld, RunnersSound, RowsOfSchema, NoGaps, At
<1> QED BY <1>1, <1>2, <1>3, <1>4, <1>5, <1>6, <1>7 DEF Next

LEMMA Invariance == Spec => []IInv
BY InitEstablishes, NextKeeps, PTL DEF Spec

-----------------------------------------------------------------------------
\* Type correctness: rows are names of migrations, a runner knows what it is doing.
THEOREM MigrationTypes == Spec => []TypeOK
<1>1. IInv => TypeOK
  BY DEF IInv
<1> QED BY <1>1, Invariance, PTL

\* A run that reports success leaves every migration of its release in force, however
\* many runners, crashes and restarts of Postgres there were.
THEOREM SuccessfulRunsAreComplete == Spec => []SuccessIsComplete
<1>1. IInv => SuccessIsComplete
  <2> SUFFICES ASSUME IInv, NEW r \in Runners, At(r, {"ok"}), NEW f \in 1 .. Release[r]
               PROVE  \E i \in DOMAIN schema : schema[i] = f
    BY DEF SuccessIsComplete
  <2>1. f \in recorded
    BY DEF IInv, RunnersSound, Sound, At
  <2>2. DOMAIN schema = 1 .. Len(schema)
    BY DEF IInv, TypeOK
  <2> QED BY <2>1, <2>2 DEF IInv, RowsOfSchema
<1> QED BY <1>1, Invariance, PTL

\* A run fails only for a reason of its own: no runner makes another one fail.
THEOREM RunsFailForCause == Spec => []FailsForCause
<1>1. IInv => FailsForCause
  BY DEF IInv, RunnersSound, Sound, FailsForCause, At
<1> QED BY <1>1, Invariance, PTL

\* Runners implement SchemaHistory: to the database, each of their steps is one whole
\* migration, the next one, or nothing.
THEOREM RunnersImplementHistory == Spec => ImplementsHistory
<1>1. Init => History!Init
  BY DEF Init, History!Init
<1>2. IInv /\ [Next]_vars => [History!Next]_<<schema, recorded>>
  <2> SUFFICES ASSUME IInv, [Next]_vars, ~UNCHANGED <<schema, recorded>>
               PROVE  History!Next
    OBVIOUS
  <2>1. PICK r \in Runners : At(r, {"commit"}) /\ Commits(r)
    <3>1. \A r \in Runners : Step(r) => Commit(r)
      BY DEF Step, Poll, Connect, Lock, Create, Read, NextFile, Apply, Record, Rollback, Unlock, data
    <3> QED BY <3>1 DEF Next, vars, data, Commit, LoseConnection, LoseConfirmation, RunAgain,
                        StopPostgres, StartPostgres
  <2> QED BY <2>1, CommitMigrates DEF History!Next
<1> QED BY <1>1, <1>2, Invariance, PTL DEF Spec, ImplementsHistory, History!Spec
=============================================================================
