------------------------------ MODULE Splitter ------------------------------
(***************************************************************************)
(* The splitter (src/ingest/splitter.ts): one action per awaited step of   *)
(* an invocation, so that two invocations, the processors and the API      *)
(* interleave between any two of them.                                     *)
(***************************************************************************)
EXTENDS IngestState

SplitterPC == {"idle", "claim", "read", "row", "offer", "checkpoint", "pause",
               "finish", "bump", "settle"}

\* msg: the delivery; idx: the chunk being written; ok: how the handler returns.
SplitterState == [pc : SplitterPC, msg : SplitId, idx : Nat, ok : BOOLEAN]

\* What may throw is a statement of the handler.
ASSUME SplitterFaultsAssumption == SplitterFaults \subseteq SplitterPC \ {"idle", "settle"}

IdleSplitter == [pc |-> "idle", msg |-> 0, idx |-> 0, ok |-> TRUE]

SplitAt(s, pc) == splitters[s].pc = pc
SplitGoto(s, pc) == splitters' = [splitters EXCEPT ![s].pc = pc]

SplitReceive(s) ==
  /\ SplitAt(s, "idle")
  /\ \E m \in SplitId :
       /\ splitQ[m].state = "waiting"
       /\ splitQ' = MQ!Deliver(splitQ, m, s)
       /\ splitters' = [splitters EXCEPT ![s] = [IdleSplitter EXCEPT !.pc = "claim", !.msg = m]]
  /\ UNCHANGED <<file, jobVars, chunkVars, chunkFiles, chunkQ, deadLetter, dirty,
                 processors, clients, left>>

Splittable == jobStatus \in {"PENDING", "SPLITTING"}

SplitClaim(s) ==
  /\ SplitAt(s, "claim")
  /\ Splittable
  /\ jobStatus' = "SPLITTING"
  /\ splitters' = [splitters EXCEPT ![s] = [@ EXCEPT !.pc = "read", !.idx = nextChunk]]
  /\ UNCHANGED <<file, nextChunk, chunkVars, chunkFiles, queueVars, dirty,
                 processors, clients, left>>

SplitSkip(s) ==
  /\ SplitAt(s, "claim")
  /\ ~Splittable
  /\ SplitGoto(s, "settle")
  /\ UNCHANGED <<file, jobVars, chunkVars, chunkFiles, queueVars, dirty,
                 processors, clients, left>>

\* Mutant of PutChunk: an empty last buffer is written as a chunk too.
PutChunkPastEnd(s) ==
  /\ SplitAt(s, "read")
  /\ splitters[s].idx <= Total(file)
  /\ chunkFiles' = chunkFiles \cup {splitters[s].idx}
  /\ SplitGoto(s, "row")
  /\ UNCHANGED <<file, jobVars, chunkVars, queueVars, dirty, processors, clients, left>>

\* Mutant of PutChunk: the message is offered before the row exists.
PutChunkThenOffer(s) ==
  /\ SplitAt(s, "read")
  /\ splitters[s].idx < Total(file)
  /\ chunkFiles' = chunkFiles \cup {splitters[s].idx}
  /\ SplitGoto(s, "offer")
  /\ UNCHANGED <<file, jobVars, chunkVars, queueVars, dirty, processors, clients, left>>

\* The records of one chunk are read and its file put (a rename: all or nothing).
PutChunk(s) ==
  /\ SplitAt(s, "read")
  /\ splitters[s].idx < Total(file)
  /\ chunkFiles' = chunkFiles \cup {splitters[s].idx}
  /\ SplitGoto(s, "row")
  /\ UNCHANGED <<file, jobVars, chunkVars, queueVars, dirty, processors, clients, left>>

\* Mutant of InsertChunkRow: the checkpoint moves before the message is offered.
InsertRowAndCheckpoint(s) ==
  /\ SplitAt(s, "row")
  /\ LET c == splitters[s].idx IN
       /\ chunkStatus' = [chunkStatus EXCEPT ![c] = IF @ = "none" THEN "PENDING" ELSE @]
       /\ nextChunk' = IF nextChunk > c + 1 THEN nextChunk ELSE c + 1
  /\ SplitGoto(s, "offer")
  /\ UNCHANGED <<file, jobStatus, attempts, stale, changed, chunkFiles, queueVars, dirty,
                 processors, clients, left>>

InsertChunkRow(s) ==
  /\ SplitAt(s, "row")
  /\ LET c == splitters[s].idx IN
       chunkStatus' = [chunkStatus EXCEPT ![c] = IF @ = "none" THEN "PENDING" ELSE @]
  /\ SplitGoto(s, "offer")
  /\ UNCHANGED <<file, jobVars, attempts, stale, changed, chunkFiles, queueVars, dirty,
                 processors, clients, left>>

OfferChunk(s) ==
  /\ SplitAt(s, "offer")
  /\ chunkQ' = MQ!Enqueue(chunkQ, splitters[s].idx)
  /\ SplitGoto(s, "checkpoint")
  /\ UNCHANGED <<file, jobVars, chunkVars, chunkFiles, splitQ, deadLetter, dirty,
                 processors, clients, left>>

Greatest(a, b) == IF a > b THEN a ELSE b

\* Only after a full chunk is the remaining time compared with the reserve.
Checkpoint(s) ==
  LET c == splitters[s].idx IN
  /\ SplitAt(s, "checkpoint")
  /\ nextChunk' = Greatest(nextChunk, c + 1)
  /\ \E pc \in {"read"} \cup (IF c < file.full THEN {"pause"} ELSE {}) :
       splitters' = [splitters EXCEPT ![s] = [@ EXCEPT !.pc = pc, !.idx = c + 1]]
  /\ UNCHANGED <<file, jobStatus, chunkVars, chunkFiles, queueVars, dirty,
                 processors, clients, left>>

\* Mutant of Continue: the continuation reuses the id of the running message.
ContinueSameId(s) ==
  /\ SplitAt(s, "pause")
  /\ splitQ' = MQ!Enqueue(splitQ, splitters[s].msg)
  /\ SplitGoto(s, "settle")
  /\ UNCHANGED <<file, jobVars, chunkVars, chunkFiles, chunkQ, deadLetter, dirty,
                 processors, clients, left>>

\* Out of time: a continuation is enqueued and the handler returns.
Continue(s) ==
  /\ SplitAt(s, "pause")
  /\ splitQ' = MQ!Enqueue(splitQ, splitters[s].idx)
  /\ SplitGoto(s, "settle")
  /\ UNCHANGED <<file, jobVars, chunkVars, chunkFiles, chunkQ, deadLetter, dirty,
                 processors, clients, left>>

EndOfFile(s) ==
  /\ SplitAt(s, "read")
  /\ file.ok
  /\ splitters[s].idx >= Total(file)
  /\ jobStatus' = IF jobStatus = "SPLITTING" THEN "SPLIT_DONE" ELSE jobStatus
  /\ SplitGoto(s, "finish")
  /\ UNCHANGED <<file, nextChunk, chunkVars, chunkFiles, queueVars, dirty,
                 processors, clients, left>>

\* Bad header or unparseable CSV.  The parser buffers, so the error may
\* surface before every chunk in front of it was written.
RejectFile(s) ==
  /\ SplitAt(s, "read")
  /\ ~file.ok
  /\ jobStatus' = "FAILED"
  /\ SplitGoto(s, "settle")
  /\ UNCHANGED <<file, nextChunk, chunkVars, chunkFiles, queueVars, dirty,
                 processors, clients, left>>

SplitFinish(s) ==
  /\ SplitAt(s, "finish")
  /\ CheckJobCompletion
  /\ SplitGoto(s, IF CanFinish THEN "bump" ELSE "settle")
  /\ UNCHANGED <<file, nextChunk, chunkVars, chunkFiles, queueVars, dirty,
                 processors, clients, left>>

SplitBump(s) ==
  /\ SplitAt(s, "bump")
  /\ AfterJobFinished
  /\ SplitGoto(s, "settle")
  /\ UNCHANGED <<file, jobVars, chunkVars, chunkFiles, queueVars,
                 processors, clients, left>>

\* A transient error: the job stays SPLITTING and the delivery is rejected.
SplitThrow(s) ==
  /\ splitters[s].pc \in SplitterFaults
  /\ Spend("errors")
  /\ splitters' = [splitters EXCEPT ![s] = [@ EXCEPT !.pc = "settle", !.ok = FALSE]]
  /\ UNCHANGED <<file, jobVars, chunkVars, chunkFiles, queueVars, dirty,
                 processors, clients>>

\* The queue learns how the handler returned; split has no dead-letter queue.
SplitSettle(s) ==
  LET d == splitters[s] IN
  /\ SplitAt(s, "settle")
  /\ splitQ' = IF d.ok THEN MQ!Complete(splitQ, d.msg, s) ELSE MQ!Fail(splitQ, d.msg, s)
  /\ splitters' = [splitters EXCEPT ![s] = IdleSplitter]
  /\ UNCHANGED <<file, jobVars, chunkVars, chunkFiles, chunkQ, deadLetter, dirty,
                 processors, clients, left>>

SplitCrash(s) ==
  /\ ~SplitAt(s, "idle")
  /\ Spend("crashes")
  /\ splitQ' = MQ!Unlock(splitQ, splitters[s].msg, s)
  /\ splitters' = [splitters EXCEPT ![s] = IdleSplitter]
  /\ UNCHANGED <<file, jobVars, chunkVars, chunkFiles, chunkQ, deadLetter, dirty,
                 processors, clients>>

\* A paused process lets its lock lapse and later goes on where it stood.
SplitPause(s) ==
  /\ MQ!Holds(splitQ, splitters[s].msg, s)
  /\ Spend("pauses")
  /\ splitQ' = MQ!Unlock(splitQ, splitters[s].msg, s)
  /\ UNCHANGED <<file, jobVars, chunkVars, chunkFiles, chunkQ, deadLetter, dirty,
                 splitters, processors, clients>>

SplitRedeliver(m) ==
  /\ MQ!Stalled(splitQ, m)
  /\ splitQ' = MQ!Redeliver(splitQ, m)
  /\ UNCHANGED <<file, jobVars, chunkVars, chunkFiles, chunkQ, deadLetter, dirty,
                 splitters, processors, clients, left>>

SplitStep(s) ==
  \/ SplitReceive(s) \/ SplitClaim(s) \/ SplitSkip(s)
  \/ PutChunk(s) \/ InsertChunkRow(s) \/ OfferChunk(s) \/ Checkpoint(s) \/ Continue(s)
  \/ EndOfFile(s) \/ RejectFile(s) \/ SplitFinish(s) \/ SplitBump(s) \/ SplitSettle(s)

SplitFault(s) == SplitThrow(s) \/ SplitCrash(s) \/ SplitPause(s)
=============================================================================
