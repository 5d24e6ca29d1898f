---------------------------- MODULE MessageQueue ----------------------------
(***************************************************************************)
(* One queue of the ingest pipeline as src/queue/bullmq.ts uses BullMQ: a  *)
(* record per message id.  Ids are deterministic (messageIds in            *)
(* src/queue/queue.ts), so a queue is a function from ids to records and   *)
(* every operation below maps such a function to its next value.           *)
(*                                                                         *)
(* A delivery is held by a worker while the worker's lock lasts.  An       *)
(* active message without a holder is one whose worker died or let its     *)
(* lock lapse; BullMQ's stalled check hands it out again.                  *)
(***************************************************************************)
EXTENDS Naturals

CONSTANTS
  Workers,       \* everything that can hold a delivery
  NoWorker,      \* the holder of a message nobody holds
  MaxAttempts    \* deliveries before a message is exhausted (INGEST_MAX_ATTEMPTS)

MessageState == {"absent", "waiting", "active", "completed", "failed"}

Message == [state   : MessageState,
            made    : Nat,              \* failed deliveries so far (attemptsMade)
            holder  : Workers \cup {NoWorker},
            stalled : BOOLEAN]          \* redelivered once already after a lapsed lock

NoMessage == [state |-> "absent", made |-> 0, holder |-> NoWorker, stalled |-> FALSE]

Live(q, id) == q[id].state \in {"waiting", "active"}
Holds(q, id, w) == q[id].state = "active" /\ q[id].holder = w

\* Mutant of Enqueue: the add is not deduplicated by id.
EnqueueAlways(q, id) == [q EXCEPT ![id] = [NoMessage EXCEPT !.state = "waiting"]]

\* An add whose id still has a record, in any state, is ignored.
Enqueue(q, id) ==
  [q EXCEPT ![id] = IF @.state = "absent" THEN [NoMessage EXCEPT !.state = "waiting"] ELSE @]

\* What remove(id) may leave.  A held message stays: the rejection is caught.
\* One whose holder died goes if its lock has expired already and stays if not.
Removed(q, id) ==
  LET gone == [q EXCEPT ![id] = NoMessage]
  IN  IF q[id].state # "active" THEN {gone}
      ELSE IF q[id].holder # NoWorker THEN {q}
      ELSE {gone, q}

Deliver(q, id, w) == [q EXCEPT ![id] = [@ EXCEPT !.state = "active", !.holder = w]]

\* A worker whose lock lapsed can no longer settle the message.
Complete(q, id, w) ==
  IF Holds(q, id, w)
  THEN [q EXCEPT ![id] = [@ EXCEPT !.state = "completed", !.holder = NoWorker]]
  ELSE q

\* The last allowed failure leaves the record in the failed set.
Failed(m) == [m EXCEPT !.state  = IF m.made + 1 >= MaxAttempts THEN "failed" ELSE "waiting",
                       !.made   = m.made + 1,
                       !.holder = NoWorker]

Exhausts(q, id, w) == Holds(q, id, w) /\ Failed(q[id]).state = "failed"

Fail(q, id, w) == IF Holds(q, id, w) THEN [q EXCEPT ![id] = Failed(q[id])] ELSE q

\* The holder died, or was paused past its lock.
Unlock(q, id, w) ==
  IF Holds(q, id, w) THEN [q EXCEPT ![id] = [@ EXCEPT !.holder = NoWorker]] ELSE q

Stalled(q, id) == q[id].state = "active" /\ q[id].holder = NoWorker

\* The stalled check: hand the message out once more, give up the second time.
Redeliver(q, id) ==
  [q EXCEPT ![id] = [@ EXCEPT !.state = IF q[id].stalled THEN "failed" ELSE "waiting",
                              !.stalled = TRUE]]
=============================================================================
