--------------------------- MODULE ChunkProcessor ---------------------------
(***************************************************************************)
(* The chunk processor (src/ingest/processor.ts): one chunk per delivery,  *)
(* one action per awaited statement.  The transaction that upserts the     *)
(* products and marks the chunk DONE is one action; everything it reads    *)
(* beforehand (job_seq, the chunk file) never changes.                     *)
(***************************************************************************)
EXTENDS IngestState

ProcessorPC == {"idle", "claim", "process", "markFailed", "finish", "bump", "settle", "park"}

\* chunk: the delivery; ok: how the handler returns.
ProcessorState == [pc : ProcessorPC, chunk : Chunk, ok : BOOLEAN]

\* What may throw is a statement of the handler.
ASSUME ProcessorFaultsAssumption == ProcessorFaults \subseteq ProcessorPC \ {"idle", "settle", "park"}

IdleProcessor == [pc |-> "idle", chunk |-> 0, ok |-> TRUE]

ProcAt(p, pc) == processors[p].pc = pc
ProcGoto(p, pc) == processors' = [processors EXCEPT ![p].pc = pc]

Receive(p) ==
  /\ ProcAt(p, "idle")
  /\ \E c \in Chunk :
       /\ chunkQ[c].state = "waiting"
       /\ chunkQ' = MQ!Deliver(chunkQ, c, p)
       /\ processors' = [processors EXCEPT ![p] = [pc |-> "claim", chunk |-> c, ok |-> TRUE]]
  /\ UNCHANGED <<file, jobVars, chunkVars, chunkFiles, splitQ, deadLetter, dirty,
                 splitters, clients, left>>

Claimable(c) ==
  \/ chunkStatus[c] \in {"PENDING", "FAILED"}
  \/ chunkStatus[c] = "PROCESSING" /\ stale[c]

Claim(p) ==
  LET c == processors[p].chunk IN
  /\ ProcAt(p, "claim")
  /\ Claimable(c)
  /\ chunkStatus' = [chunkStatus EXCEPT ![c] = "PROCESSING"]
  /\ attempts' = [attempts EXCEPT ![c] = @ + 1]
  /\ stale' = [stale EXCEPT ![c] = FALSE]
  /\ ProcGoto(p, "process")
  /\ UNCHANGED <<file, jobVars, changed, chunkFiles, queueVars, dirty,
                 splitters, clients, left>>

\* Someone else has it, or had it: the delivery is acknowledged.
Skip(p) ==
  /\ ProcAt(p, "claim")
  /\ ~Claimable(processors[p].chunk)
  /\ ProcGoto(p, "settle")
  /\ UNCHANGED <<file, jobVars, chunkVars, chunkFiles, queueVars, dirty,
                 splitters, clients, left>>

\* The transaction.  DONE and the products are written together, so a chunk
\* that is DONE already finds every source_seq equal and changes no price;
\* the outcome of this run replaces the recorded one all the same.
Commit(p) ==
  LET c == processors[p].chunk
      moved == chunkStatus[c] # "DONE"
  IN
  /\ ProcAt(p, "process")
  /\ c \in chunkFiles
  /\ chunkStatus' = [chunkStatus EXCEPT ![c] = "DONE"]
  /\ stale' = [stale EXCEPT ![c] = FALSE]
  /\ changed' = [changed EXCEPT ![c] = moved]
  /\ dirty' = IF moved THEN dirty \cup {c} ELSE dirty
  /\ ProcGoto(p, "finish")
  /\ UNCHANGED <<file, jobVars, attempts, chunkFiles, queueVars, splitters, clients, left>>

\* Mutant of MarkFailed: the row goes back to PENDING for the retry.
MarkPending(p) ==
  LET c == processors[p].chunk
      held == chunkStatus[c] = "PROCESSING"
  IN
  /\ ProcAt(p, "markFailed")
  /\ chunkStatus' = [chunkStatus EXCEPT ![c] = IF held THEN "PENDING" ELSE @]
  /\ stale' = [stale EXCEPT ![c] = FALSE]
  /\ processors' = [processors EXCEPT ![p] = [@ EXCEPT !.pc = "finish", !.ok = FALSE]]
  /\ UNCHANGED <<file, jobVars, attempts, changed, chunkFiles, queueVars, dirty,
                 splitters, clients, left>>

\* Mutant of MarkFailed: whatever the row says by now, it is set to FAILED.
MarkFailedAnyway(p) ==
  /\ ProcAt(p, "markFailed")
  /\ chunkStatus' = [chunkStatus EXCEPT ![processors[p].chunk] = "FAILED"]
  /\ stale' = [stale EXCEPT ![processors[p].chunk] = FALSE]
  /\ processors' = [processors EXCEPT ![p] = [@ EXCEPT !.pc = "finish", !.ok = FALSE]]
  /\ UNCHANGED <<file, jobVars, attempts, changed, chunkFiles, queueVars, dirty,
                 splitters, clients, left>>

\* The error path of handle, outside the transaction that failed.
MarkFailed(p) ==
  LET c == processors[p].chunk
      held == chunkStatus[c] = "PROCESSING"
  IN
  /\ ProcAt(p, "markFailed")
  /\ chunkStatus' = [chunkStatus EXCEPT ![c] = IF held THEN "FAILED" ELSE @]
  /\ stale' = [stale EXCEPT ![c] = FALSE]
  /\ processors' = [processors EXCEPT ![p] = [@ EXCEPT !.pc = "finish", !.ok = FALSE]]
  /\ UNCHANGED <<file, jobVars, attempts, changed, chunkFiles, queueVars, dirty,
                 splitters, clients, left>>

\* Mutant of Finish: the processor that flips the job does not invalidate.
FinishWithoutBump(p) ==
  /\ ProcAt(p, "finish")
  /\ CheckJobCompletion
  /\ ProcGoto(p, "settle")
  /\ UNCHANGED <<file, nextChunk, chunkVars, chunkFiles, queueVars, dirty,
                 splitters, clients, left>>

Finish(p) ==
  /\ ProcAt(p, "finish")
  /\ CheckJobCompletion
  /\ ProcGoto(p, IF CanFinish THEN "bump" ELSE "settle")
  /\ UNCHANGED <<file, nextChunk, chunkVars, chunkFiles, queueVars, dirty,
                 splitters, clients, left>>

Bump(p) ==
  /\ ProcAt(p, "bump")
  /\ AfterJobFinished
  /\ ProcGoto(p, "settle")
  /\ UNCHANGED <<file, jobVars, chunkVars, chunkFiles, queueVars, splitters, clients, left>>

\* A statement of the handler throws.  Only process is inside the try.
Throw(p) ==
  /\ processors[p].pc \in ProcessorFaults
  /\ Spend("errors")
  /\ processors' = [processors EXCEPT ![p] =
       [@ EXCEPT !.pc = IF ProcAt(p, "process") THEN "markFailed" ELSE "settle", !.ok = FALSE]]
  /\ UNCHANGED <<file, jobVars, chunkVars, chunkFiles, queueVars, dirty, splitters, clients>>

\* The queue learns how the handler returned.
Settle(p) ==
  LET d == processors[p]
      exhausted == ~d.ok /\ MQ!Exhausts(chunkQ, d.chunk, p)
  IN
  /\ ProcAt(p, "settle")
  /\ chunkQ' = IF d.ok THEN MQ!Complete(chunkQ, d.chunk, p) ELSE MQ!Fail(chunkQ, d.chunk, p)
  /\ processors' = [processors EXCEPT
       ![p] = IF exhausted THEN [d EXCEPT !.pc = "park"] ELSE IdleProcessor]
  /\ UNCHANGED <<file, jobVars, chunkVars, chunkFiles, splitQ, deadLetter, dirty,
                 splitters, clients, left>>

\* The failed event of an exhausted delivery; its dead-letter add may be lost.
Park(p) ==
  /\ ProcAt(p, "park")
  /\ deadLetter' \in {deadLetter, deadLetter \cup {processors[p].chunk}}
  /\ processors' = [processors EXCEPT ![p] = IdleProcessor]
  /\ UNCHANGED <<file, jobVars, chunkVars, chunkFiles, splitQ, chunkQ, dirty,
                 splitters, clients, left>>

Crash(p) ==
  /\ ~ProcAt(p, "idle")
  /\ Spend("crashes")
  /\ chunkQ' = MQ!Unlock(chunkQ, processors[p].chunk, p)
  /\ processors' = [processors EXCEPT ![p] = IdleProcessor]
  /\ UNCHANGED <<file, jobVars, chunkVars, chunkFiles, splitQ, deadLetter, dirty,
                 splitters, clients>>

\* A paused process lets its lock lapse and later goes on where it stood.
Pause(p) ==
  /\ MQ!Holds(chunkQ, processors[p].chunk, p)
  /\ Spend("pauses")
  /\ chunkQ' = MQ!Unlock(chunkQ, processors[p].chunk, p)
  /\ UNCHANGED <<file, jobVars, chunkVars, chunkFiles, splitQ, deadLetter, dirty,
                 splitters, processors, clients>>

ChunkRedeliver(c) ==
  /\ MQ!Stalled(chunkQ, c)
  /\ chunkQ' = MQ!Redeliver(chunkQ, c)
  /\ UNCHANGED <<file, jobVars, chunkVars, chunkFiles, splitQ, deadLetter, dirty,
                 splitters, processors, clients, left>>

\* More than the invocation timeout has passed since the chunk was claimed.
GoStale(c) ==
  /\ chunkStatus[c] = "PROCESSING" /\ ~stale[c]
  /\ stale' = [stale EXCEPT ![c] = TRUE]
  /\ UNCHANGED <<file, jobVars, chunkStatus, attempts, changed, chunkFiles, queueVars, dirty,
                 splitters, processors, clients, left>>

ProcStep(p) ==
  \/ Receive(p) \/ Claim(p) \/ Skip(p) \/ Commit(p) \/ MarkFailed(p)
  \/ Finish(p) \/ Bump(p) \/ Settle(p) \/ Park(p)

ProcFault(p) == Throw(p) \/ Crash(p) \/ Pause(p)
=============================================================================
