------------------------------ MODULE Migrations ------------------------------
(***************************************************************************)
(* db/migrate.ts: runners that apply the files of db/migrations, several   *)
(* at once (instances that start together, an operator who runs it again), *)
(* perhaps of different releases, while Postgres may be down, stop, or     *)
(* drop a connection between any two statements.                           *)
(*                                                                         *)
(* A migration is its number in the lexical order of the file names.  A    *)
(* release has the migrations up to some number; one whose SQL fails does  *)
(* so every time.                                                          *)
(***************************************************************************)
EXTENDS Naturals, Sequences, FiniteSets

CONSTANTS
  Runners,
  Release,       \* [Runners -> Nat]: the last migration each runner has
  Broken,        \* the migrations whose SQL fails
  NoRunner,
  MaxAttempts,   \* bound on the polls of waitForPostgres before its deadline
  MaxRuns,       \* bound on the runs of a runner
  MaxFaults      \* bound on lost connections and stops of Postgres

VARIABLES
  up,            \* Postgres accepts connections
  lock,          \* the session that holds MIGRATION_LOCK_KEY
  schema,        \* the migrations in force, in the order they were applied
  recorded,      \* the rows of schema_migrations
  runner,        \* of each: where it is, its local variables and its transaction
  faults

vars == <<up, lock, schema, recorded, runner, faults>>
data == <<schema, recorded>>

Numbers == UNION {1 .. Release[r] : r \in Runners}

ASSUME MigrationConstants ==
  /\ NoRunner \notin Runners
  /\ Release \in [Runners -> Nat]
  /\ MaxAttempts \in Nat /\ MaxRuns \in Nat /\ MaxFaults \in Nat

At(r, places) == runner[r].at \in places
Go(r, place) == runner' = [runner EXCEPT ![r].at = place]

\* Between pool.connect and client.release the runner has a session.
InSession(r) == At(r, {"lock", "create", "read", "next", "apply", "record", "commit",
                       "rollback", "unlock", "unlockFailed"})

\* A process that is at some place, with fresh local variables; and one that is over.
Fresh(place, n) == [at |-> place, attempts |-> 0, runs |-> n, seen |-> {}, next |-> 1,
                    sql |-> FALSE, row |-> FALSE, cause |-> FALSE]
Failed(state) == [Fresh("failed", state.runs) EXCEPT !.cause = TRUE]

-----------------------------------------------------------------------------
(* waitForPostgres and pool.connect.                                         *)

\* Mutant of Poll: one attempt too many.
PollOnceMore(r) ==
  /\ At(r, {"wait"})
  /\ \/ up /\ Go(r, "connect")
     \/ /\ ~up /\ runner[r].attempts <= MaxAttempts
        /\ runner' = [runner EXCEPT ![r].attempts = @ + 1]
     \/ /\ ~up /\ runner[r].attempts > MaxAttempts
        /\ runner' = [runner EXCEPT ![r] = Failed(@)]
  /\ UNCHANGED <<up, lock, data, faults>>

Poll(r) ==
  /\ At(r, {"wait"})
  /\ \/ up /\ Go(r, "connect")
     \/ /\ ~up /\ runner[r].attempts < MaxAttempts
        /\ runner' = [runner EXCEPT ![r].attempts = @ + 1]
     \/ /\ ~up /\ runner[r].attempts = MaxAttempts
        /\ runner' = [runner EXCEPT ![r] = Failed(@)]
  /\ UNCHANGED <<up, lock, data, faults>>

Connect(r) ==
  /\ At(r, {"connect"})
  /\ runner' = IF up THEN [runner EXCEPT ![r].at = "lock"]
                     ELSE [runner EXCEPT ![r] = Failed(@)]
  /\ UNCHANGED <<up, lock, data, faults>>

-----------------------------------------------------------------------------
(* runMigrations, one action per statement.                                  *)

\* Mutant of Lock: no advisory lock is taken.
LockNothing(r) == At(r, {"lock"}) /\ Go(r, "create") /\ UNCHANGED <<up, lock, data, faults>>

\* pg_advisory_lock: waits for the session that holds it.
Lock(r) ==
  /\ At(r, {"lock"})
  /\ lock = NoRunner
  /\ lock' = r
  /\ Go(r, "create")
  /\ UNCHANGED <<up, data, faults>>

\* CREATE TABLE IF NOT EXISTS; an absent table and an empty one are the same here.
Create(r) == At(r, {"create"}) /\ Go(r, "read") /\ UNCHANGED <<up, lock, data, faults>>

\* Read once, under the lock.
Read(r) ==
  /\ At(r, {"read"})
  /\ runner' = [runner EXCEPT ![r].at = "next", ![r].seen = recorded]
  /\ UNCHANGED <<up, lock, data, faults>>

\* The next file: skipped, begun, or there is none.
NextFile(r) ==
  /\ At(r, {"next"})
  /\ LET f == runner[r].next
     IN  \/ f > Release[r] /\ Go(r, "unlock")
         \/ /\ f <= Release[r] /\ f \in runner[r].seen
            /\ runner' = [runner EXCEPT ![r].next = f + 1]
         \/ /\ f <= Release[r] /\ f \notin runner[r].seen
            /\ runner' = [runner EXCEPT ![r].at = "apply", ![r].sql = FALSE, ![r].row = FALSE]
  /\ UNCHANGED <<up, lock, data, faults>>

\* Mutant of Apply: the file's statements commit by themselves.
ApplyAutocommit(r) ==
  /\ At(r, {"apply"})
  /\ IF runner[r].next \in Broken
       THEN runner' = [runner EXCEPT ![r].at = "rollback", ![r].cause = TRUE] /\ UNCHANGED schema
       ELSE Go(r, "record") /\ schema' = Append(schema, runner[r].next)
  /\ UNCHANGED <<up, lock, recorded, faults>>

Apply(r) ==
  /\ At(r, {"apply"})
  /\ runner' = IF runner[r].next \in Broken
                 THEN [runner EXCEPT ![r].at = "rollback", ![r].cause = TRUE]
                 ELSE [runner EXCEPT ![r].at = "record", ![r].sql = TRUE]
  /\ UNCHANGED <<up, lock, data, faults>>

\* The INSERT; name is the primary key.
Record(r) ==
  /\ At(r, {"record"})
  /\ runner' = IF runner[r].next \in recorded
                 THEN [runner EXCEPT ![r].at = "rollback"]
                 ELSE [runner EXCEPT ![r].at = "commit", ![r].row = TRUE]
  /\ UNCHANGED <<up, lock, data, faults>>

\* What COMMIT makes of the open transaction.
Commits(r) ==
  /\ schema' = IF runner[r].sql THEN Append(schema, runner[r].next) ELSE schema
  /\ recorded' = IF runner[r].row THEN recorded \cup {runner[r].next} ELSE recorded

Commit(r) ==
  /\ At(r, {"commit"})
  /\ Commits(r)
  /\ runner' = [runner EXCEPT ![r].at = "next", ![r].next = @ + 1]
  /\ UNCHANGED <<up, lock, faults>>

\* Mutant of Rollback: a failed file is passed over.
RollbackAndGoOn(r) ==
  /\ At(r, {"rollback"})
  /\ runner' = [runner EXCEPT ![r].at = "next", ![r].next = @ + 1]
  /\ UNCHANGED <<up, lock, data, faults>>

\* ROLLBACK, and the throw that leaves the loop.
Rollback(r) ==
  /\ At(r, {"rollback"})
  /\ Go(r, "unlockFailed")
  /\ UNCHANGED <<up, lock, data, faults>>

\* finally: pg_advisory_unlock, and client.release.
Unlock(r) ==
  /\ At(r, {"unlock", "unlockFailed"})
  /\ lock' = NoRunner
  /\ runner' = [runner EXCEPT ![r] = [Fresh(IF At(r, {"unlock"}) THEN "ok" ELSE "failed", @.runs)
                                       EXCEPT !.cause = runner[r].cause]]
  /\ UNCHANGED <<up, data, faults>>

-----------------------------------------------------------------------------
(* Faults and the operator.                                                  *)

\* Mutant of Drop: the lock is kept in a table, and outlives the session.
DropKeepsLock(lost) ==
  /\ lock' = lock
  /\ runner' = [r \in Runners |-> IF r \in lost THEN Failed(runner[r]) ELSE runner[r]]

\* The sessions in lost end: Postgres rolls their transactions back and releases
\* their locks; every later statement of the runner throws.
Drop(lost) ==
  /\ lock' = IF lock \in lost THEN NoRunner ELSE lock
  /\ runner' = [r \in Runners |->
       IF r \in lost THEN Failed(runner[r]) ELSE runner[r]]

LoseConnection(r) ==
  /\ InSession(r) /\ faults < MaxFaults /\ faults' = faults + 1
  /\ Drop({r})
  /\ UNCHANGED <<up, data>>

\* The connection is lost when the COMMIT has been done but not yet confirmed.
LoseConfirmation(r) ==
  /\ At(r, {"commit"}) /\ faults < MaxFaults /\ faults' = faults + 1
  /\ Commits(r)
  /\ Drop({r})
  /\ UNCHANGED up

StopPostgres ==
  /\ up /\ faults < MaxFaults /\ faults' = faults + 1
  /\ up' = FALSE
  /\ Drop({r \in Runners : InSession(r)})
  /\ UNCHANGED data

StartPostgres == ~up /\ up' = TRUE /\ UNCHANGED <<lock, data, runner, faults>>

RunAgain(r) ==
  /\ At(r, {"ok", "failed"}) /\ runner[r].runs < MaxRuns
  /\ runner' = [runner EXCEPT ![r] = Fresh("wait", runner[r].runs + 1)]
  /\ UNCHANGED <<up, lock, data, faults>>

-----------------------------------------------------------------------------
Init ==
  /\ up \in BOOLEAN
  /\ lock = NoRunner
  /\ schema = <<>> /\ recorded = {}
  /\ runner = [r \in Runners |-> Fresh("wait", 1)]
  /\ faults = 0

Step(r) ==
  \/ Poll(r) \/ Connect(r) \/ Lock(r) \/ Create(r) \/ Read(r) \/ NextFile(r)
  \/ Apply(r) \/ Record(r) \/ Commit(r) \/ Rollback(r) \/ Unlock(r)

Next ==
  \/ \E r \in Runners : Step(r) \/ LoseConnection(r) \/ LoseConfirmation(r) \/ RunAgain(r)
  \/ StopPostgres \/ StartPostgres

Spec == Init /\ [][Next]_vars

\* A runner's next statement is executed, or fails; the lock goes to a session
\* that waits for it.  Runs, faults and starts of Postgres are owed to nobody.
FairSpec == Spec /\ \A r \in Runners : WF_vars(Step(r))

-----------------------------------------------------------------------------
(* Properties.                                                               *)

Places == {"wait", "connect", "lock", "create", "read", "next", "apply", "record",
           "commit", "rollback", "unlock", "unlockFailed", "ok", "failed"}

RunnerState ==
  [at : Places, attempts : 0 .. MaxAttempts, runs : Nat, seen : SUBSET Numbers, next : Nat \ {0},
   sql : BOOLEAN, row : BOOLEAN, cause : BOOLEAN]

TypeOK ==
  /\ up \in BOOLEAN
  /\ lock \in Runners \cup {NoRunner}
  /\ schema \in Seq(Numbers) /\ recorded \subseteq Numbers
  /\ runner \in [Runners -> RunnerState]
  /\ faults \in 0 .. MaxFaults

\* "A failed migration leaves no partial state and no record", "(lexical order)",
\* "a second run applies nothing" (migrate.ts): each step of the runners is one
\* whole migration of SchemaHistory, or does not touch the database.
History == INSTANCE SchemaHistory WITH Names <- Numbers
ImplementsHistory == History!Spec

\* A run that reports success leaves every migration of its release in force,
\* whoever applied it.
SuccessIsComplete ==
  \A r \in Runners : At(r, {"ok"}) => \A f \in 1 .. Release[r] : \E i \in DOMAIN schema : schema[i] = f

\* Runners do not make each other fail: a run fails only when Postgres was out of
\* reach, its connection was lost or its SQL is wrong ("a second runner blocks on the
\* lock, then sees everything the first one recorded and skips it").
FailsForCause == \A r \in Runners : At(r, {"failed"}) => runner[r].cause

\* Every run ends: "a crashed runner cannot wedge the others".
RunsEnd == \A r \in Runners : []<>At(r, {"ok", "failed"})
=============================================================================
