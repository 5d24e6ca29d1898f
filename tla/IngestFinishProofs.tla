-------------------------- MODULE IngestFinishProofs -------------------------
(***************************************************************************)
(* Proofs about how an ingest job ends: somebody always has the completion *)
(* check ahead, a chunk that waits has a message, a chunk that used up its *)
(* attempts can be replayed, and what a final status says of the chunks    *)
(* and of the catalog's versions.                                          *)
(***************************************************************************)
EXTENDS IngestQueueProofs

-----------------------------------------------------------------------------
(***************************************************************************)
(* Who writes the job's status, and what a budget of zero rules out.       *)
(***************************************************************************)
\* The status of a job is written by an upload, the splitter, the completion
\* checks and the flip of a replay.
LEMMA JobStatusWriters ==
  ASSUME [Next]_vars
  PROVE  \/ UNCHANGED jobStatus
         \/ \E s \in Splitters : SplitClaim(s) \/ EndOfFile(s) \/ RejectFile(s) \/ SplitFinish(s)
         \/ \E p \in Processors : Finish(p)
         \/ \E r \in Clients : Upload(r) \/ ReplayFlip(r) \/ ReplayCheck(r)
<1>1. ASSUME NEW s \in Splitters, SplitStep(s) \/ SplitFault(s)
      PROVE  \/ UNCHANGED jobStatus
             \/ SplitClaim(s) \/ EndOfFile(s) \/ RejectFile(s) \/ SplitFinish(s)
  BY <1>1
  DEF SplitStep, SplitFault, SplitReceive, SplitSkip, PutChunk, InsertChunkRow, OfferChunk,
      Checkpoint, Continue, SplitBump, SplitSettle, SplitThrow, SplitCrash, SplitPause, jobVars
<1>2. ASSUME NEW p \in Processors, ProcStep(p) \/ ProcFault(p)
      PROVE  UNCHANGED jobStatus \/ Finish(p)
  BY <1>2
  DEF ProcStep, ProcFault, Receive, Claim, Skip, Commit, MarkFailed, Bump, Settle, Park,
      Throw, Crash, Pause, jobVars
<1>3. ASSUME NEW r \in Clients, ClientRequest(r) \/ ClientStep(r) \/ ClientFails(r)
      PROVE  UNCHANGED jobStatus \/ Upload(r) \/ ReplayFlip(r) \/ ReplayCheck(r)
  BY <1>3
  DEF ClientRequest, ClientStep, ClientFails, EnqueueSplit, ReplayFind, ReplaySelect,
      ReplayRemove, ReplayEnqueue, ReplayReset, ReplaySplitRemove, ReplaySplitEnqueue,
      ReplayBump, jobVars
<1> QED
  BY <1>1, <1>2, <1>3 DEF Next, vars, jobVars, SplitRedeliver, ChunkRedeliver, GoStale

\* A kind of fault that the budget does not hold never happens.
LEMMA NoneLeft ==
  ASSUME TypeOK, WithinBudget, NEW kind \in FaultKind, Faults[kind] = 0
  PROVE  left[kind] = 0
<1>1. left[kind] \in Nat /\ left[kind] <= 0
  BY DEF TypeOK, WithinBudget
<1> QED BY <1>1

-----------------------------------------------------------------------------
(***************************************************************************)
(* The derived completion.  There is no counter of chunks to go: whoever   *)
(* settles a chunk, ends the split or returns the job to SPLIT_DONE checks *)
(* afterwards, so a settled job is missed only if that check never runs.   *)
(***************************************************************************)
\* The completion check ends neither by a crash nor by an exception.  (The run
\* lost_completion shows what becomes of a job whose last check does.)
ChecksRun ==
  /\ Faults.crashes = 0
  /\ "finish" \notin SplitterFaults \cup ProcessorFaults
  /\ "check" \notin ClientFaults

HasFinisher ==
  \/ \E s \in Splitters : SplitAt(s, "finish")
  \/ \E p \in Processors : ProcAt(p, "finish")
  \/ \E r \in Clients : ClientAt(r, "check")

\* A check of a settled job gives it its final status.
LEMMA CheckEndsJob == CheckJobCompletion /\ CanFinish => jobStatus' # "SPLIT_DONE"
  BY DEF CheckJobCompletion, FinalStatus

\* Somebody with the check ahead keeps it ahead until the job has its status.
LEMMA FinisherStays ==
  ASSUME ChecksRun, TypeOK, left.crashes = 0, CanFinish, HasFinisher, [Next]_vars
  PROVE  HasFinisher' \/ ~CanFinish'
<1>1. ASSUME NEW s \in Splitters, SplitAt(s, "finish")
      PROVE  SplitAt(s, "finish")' \/ ~CanFinish'
  <2>1. CASE SplitFinish(s)
    BY <2>1, CheckEndsJob DEF SplitFinish, CanFinish
  <2>2. ~SplitThrow(s) /\ ~SplitCrash(s)
    BY <1>1 DEF SplitThrow, SplitCrash, Spend, SplitAt, ChecksRun
  <2> QED
    BY <1>1, <2>1, <2>2, SplitterMoves
    DEF SplitStep, SplitFault, SplitReceive, SplitClaim, SplitSkip, PutChunk, InsertChunkRow,
        OfferChunk, Checkpoint, Continue, EndOfFile, RejectFile, SplitBump, SplitSettle,
        SplitPause, SplitAt
<1>2. ASSUME NEW p \in Processors, ProcAt(p, "finish")
      PROVE  ProcAt(p, "finish")' \/ ~CanFinish'
  <2>1. CASE Finish(p)
    BY <2>1, CheckEndsJob DEF Finish, CanFinish
  <2>2. ~Throw(p) /\ ~Crash(p)
    BY <1>2 DEF Throw, Crash, Spend, ProcAt, ChecksRun
  <2> QED
    BY <1>2, <2>1, <2>2, ProcessorMoves
    DEF ProcStep, ProcFault, Receive, Claim, Skip, Commit, MarkFailed, Bump, Settle, Park,
        Pause, ProcAt
<1>3. ASSUME NEW r \in Clients, ClientAt(r, "check")
      PROVE  ClientAt(r, "check")' \/ ~CanFinish'
  <2>1. CASE ReplayCheck(r)
    BY <2>1, CheckEndsJob DEF ReplayCheck, CanFinish
  <2>2. ~ClientFails(r)
    BY <1>3 DEF ClientFails, ClientAt, ChecksRun
  <2> QED
    BY <1>3, <2>1, <2>2, ClientMoves
    DEF ClientRequest, ClientStep, Upload, EnqueueSplit, ReplayFind, ReplaySelect,
        ReplayRemove, ReplayEnqueue, ReplayReset, ReplaySplitRemove, ReplaySplitEnqueue,
        ReplayFlip, ReplayBump, ClientAt
<1> QED BY <1>1, <1>2, <1>3 DEF HasFinisher

\* A job becomes settled only by a step after which its actor has the check ahead.
LEMMA SettlerFinishes ==
  ASSUME TypeOK, ~CanFinish, CanFinish', [Next]_vars
  PROVE  HasFinisher'
<1> USE DEF TypeOK
<1>1. CASE jobStatus # "SPLIT_DONE"
  <2>1. jobStatus' = "SPLIT_DONE"
    BY DEF CanFinish
  <2>2. ASSUME NEW s \in Splitters, EndOfFile(s) PROVE SplitAt(s, "finish")'
    BY <2>2 DEF EndOfFile, SplitGoto, SplitAt, SplitterState
  <2>3. ASSUME NEW r \in Clients, ReplayFlip(r) PROVE ClientAt(r, "check")'
    BY <2>3 DEF ReplayFlip, ClientGoto, ClientAt, ClientState
  <2>4. ~CheckJobCompletion
    BY <1>1, <2>1 DEF CheckJobCompletion, CanFinish
  <2> QED
    BY <1>1, <2>1, <2>2, <2>3, <2>4, JobStatusWriters
    DEF HasFinisher, SplitClaim, RejectFile, SplitFinish, Finish, Upload, ReplayCheck
<1>2. CASE jobStatus = "SPLIT_DONE"
  <2>1. PICK c \in Rows : Outstanding(c)
    BY <1>2 DEF CanFinish
  <2>2. c \in Rows' /\ ~Outstanding(c)'
    <3>1. c \in Rows'
      BY <2>1, RowsGrow
    <3> QED BY <3>1 DEF CanFinish
  <2>3. c \in Chunk
    BY <2>1 DEF Rows
  <2>4. ~UNCHANGED <<chunkStatus, attempts, changed>>
    BY <2>1, <2>2 DEF Outstanding
  <2>5. ASSUME NEW s \in Splitters, InsertChunkRow(s) PROVE FALSE
    BY <2>1, <2>2, <2>3, <2>5 DEF InsertChunkRow, Outstanding, Rows
  <2>6. ASSUME NEW p \in Processors, Claim(p) PROVE FALSE
    BY <2>1, <2>2, <2>3, <2>6 DEF Claim, Outstanding
  <2>7. ASSUME NEW p \in Processors, Commit(p) \/ MarkFailed(p) PROVE ProcAt(p, "finish")'
    <3>1. CASE Commit(p)
      BY <3>1 DEF Commit, ProcGoto, ProcAt, ProcessorState
    <3>2. CASE MarkFailed(p)
      BY <3>2 DEF MarkFailed, ProcAt, ProcessorState
    <3> QED BY <2>7, <3>1, <3>2
  <2>8. ASSUME NEW r \in Clients, ReplayReset(r) PROVE FALSE
    BY <2>1, <2>2, <2>3, <2>8 DEF ReplayReset, Outstanding
  <2> QED BY <2>4, <2>5, <2>6, <2>7, <2>8, RowWriters DEF HasFinisher
<1> QED BY <1>1, <1>2

\* As long as the completion checks run, a settled job is never left behind:
\* whatever was retried, paused or replayed at the same time, and however late a
\* replay returned the job to SPLIT_DONE, somebody still has the check ahead.
THEOREM SettledJobsAreFinished ==
  ASSUME ChecksRun
  PROVE  Spec => []SettledJobHasFinisher
<1>1. Init => SettledJobHasFinisher
  BY DEF Init, SettledJobHasFinisher, CanFinish
<1>2. TypeOK /\ WithinBudget /\ SettledJobHasFinisher /\ [Next]_vars => SettledJobHasFinisher'
  <2> SUFFICES ASSUME TypeOK, WithinBudget, SettledJobHasFinisher, [Next]_vars, CanFinish'
               PROVE  HasFinisher'
    BY DEF SettledJobHasFinisher, HasFinisher
  <2>1. left.crashes = 0
    BY NoneLeft DEF ChecksRun, FaultKind
  <2> QED BY <2>1, FinisherStays, SettlerFinishes DEF SettledJobHasFinisher, HasFinisher
<1> QED BY <1>1, <1>2, PipelineTypes, PipelineIsWithinBudget, PTL DEF Spec

-----------------------------------------------------------------------------
(***************************************************************************)
(* Waiting chunks and exhausted ones.  A message is acknowledged or given  *)
(* up by a processor, and a processor that gets past its claim has left    *)
(* the row in a state other than PENDING.  Two things stand in the way of  *)
(* that: a claim that throws, and a message given up by the stalled check  *)
(* because it lost two workers before either could claim.                  *)
(***************************************************************************)
\* No replay, at most one lock lost, and the claim is not what throws.
ClaimsRun ==
  /\ Faults.replays = 0
  /\ Faults.crashes + Faults.pauses <= 1
  /\ "claim" \notin ProcessorFaults

\* A processor has claimed the chunk at least once.
Started(c) == chunkStatus[c] \notin {"none", "PENDING"}

WorkerHasStarted ==
  \A p \in Processors : processors[p].pc \notin {"idle", "claim"} => Started(processors[p].chunk)

SettledIsStarted ==
  \A c \in Chunk : chunkQ[c].state \in {"completed", "failed"} => Started(c)

\* Locks that may still lapse.
Lapses == left.crashes + left.pauses

\* The one message that may lose its worker does so once.
StallsOnce ==
  \A c \in Chunk : /\ MQ!Stalled(chunkQ, c) \/ chunkQ[c].stalled => Lapses = 0
                   /\ ~(MQ!Stalled(chunkQ, c) /\ chunkQ[c].stalled)

StartInv == WorkerHasStarted /\ SettledIsStarted /\ StallsOnce

\* Without a replay a chunk that was claimed never waits in PENDING again.
LEMMA StartedStays ==
  ASSUME TypeOK, NoReplayYet, [Next]_vars, NEW c \in Chunk, Started(c)
  PROVE  Started(c)'
<1> USE DEF TypeOK, Started
<1>1. CASE UNCHANGED chunkStatus
  BY <1>1
<1>2. ASSUME NEW s \in Splitters, InsertChunkRow(s) PROVE Started(c)'
  BY <1>2 DEF InsertChunkRow
<1>3. ASSUME NEW p \in Processors, Claim(p) \/ Commit(p) \/ MarkFailed(p) PROVE Started(c)'
  BY <1>3 DEF Claim, Commit, MarkFailed
<1>4. ASSUME NEW r \in Clients PROVE ~ReplayReset(r)
  BY DEF NoReplayYet, ReplayReset, ClientAt
<1> QED BY <1>1, <1>2, <1>3, <1>4, RowWriters

\* A processor that moves past its claim has started its chunk.
LEMMA MoverHasStarted ==
  ASSUME ClaimsRun, IInv, Grounded, NoReplayYet, StartInv, [Next]_vars, NEW p \in Processors,
         processors'[p].pc \notin {"idle", "claim"}
  PROVE  Started(processors[p].chunk)' /\ processors'[p].chunk = processors[p].chunk
<1>1. processors[p] \in ProcessorState /\ processors \in [Processors -> ProcessorState]
  BY DEF IInv, TypeOK
<1>2. PICK c \in Chunk : c = processors[p].chunk
  BY <1>1 DEF ProcessorState
<1>3. Started(c) => Started(c)'
  BY StartedStays DEF IInv
<1>4. processors[p].pc \notin {"idle", "claim"} => Started(c)
  BY <1>2 DEF StartInv, WorkerHasStarted
<1>5. CASE processors'[p] = processors[p]
  BY <1>2, <1>3, <1>4, <1>5 DEF Started
<1>6. CASE Claim(p)
  <2>1. chunkStatus'[c] = "PROCESSING"
    BY <1>2, <1>6 DEF Claim, IInv, TypeOK
  <2>2. processors'[p].chunk = c
    BY <1>1, <1>2, <1>6 DEF Claim, ProcGoto, ProcessorState
  <2> QED BY <1>2, <2>1, <2>2 DEF Started
<1>7. CASE Skip(p)
  <2>1. c \in Rows /\ ~Claimable(c)
    BY <1>2, <1>7 DEF Skip, ProcAt, Grounded, ProcessorHasRow
  <2>2. Started(c)
    BY <2>1 DEF Started, Claimable, Rows
  <2>3. processors'[p].chunk = c
    BY <1>1, <1>2, <1>7 DEF Skip, ProcGoto, ProcessorState
  <2> QED BY <1>2, <1>3, <2>2, <2>3 DEF Started
<1>8. CASE Commit(p) \/ Finish(p) \/ Bump(p)
  <2>1. processors'[p].chunk = c /\ processors[p].pc \notin {"idle", "claim"}
    BY <1>1, <1>2, <1>8 DEF Commit, Finish, Bump, ProcGoto, ProcAt, ProcessorState
  <2> QED BY <1>2, <1>3, <1>4, <2>1 DEF Started
<1>9. CASE MarkFailed(p) \/ Throw(p)
  <2>1. processors'[p].chunk = c
    <3>1. CASE MarkFailed(p)
      BY <1>1, <1>2, <3>1 DEF MarkFailed, ProcessorState
    <3>2. CASE Throw(p)
      BY <1>1, <1>2, <3>2 DEF Throw, ProcessorState
    <3> QED BY <1>9, <3>1, <3>2
  <2>2. processors[p].pc \notin {"idle", "claim"}
    BY <1>9, ProcessorFaultsAssumption DEF MarkFailed, Throw, ProcAt, ClaimsRun
  <2> QED BY <1>2, <1>3, <1>4, <2>1, <2>2 DEF Started
<1>10. CASE Settle(p)
  <2>1. processors'[p].chunk = c /\ processors[p].pc = "settle"
    BY <1>1, <1>2, <1>10 DEF Settle, ProcAt, IdleProcessor, ProcessorState
  <2> QED BY <1>2, <1>3, <1>4, <2>1 DEF Started
<1>11. ASSUME Receive(p) \/ Park(p) \/ Crash(p) PROVE FALSE
  BY <1>1, <1>11 DEF Receive, Park, Crash, IdleProcessor
<1> QED
  BY <1>5, <1>6, <1>7, <1>8, <1>9, <1>10, <1>11, ProcessorMoves
  DEF IInv, ProcStep, ProcFault, Pause

\* A message is settled by the processor that returns, or given up by the
\* stalled check the second time.
LEMMA NewlySettled ==
  ASSUME IInv, NoReplayYet, [Next]_vars, NEW c \in Chunk,
         chunkQ[c].state \notin {"completed", "failed"},
         chunkQ'[c].state \in {"completed", "failed"}
  PROVE  \/ \E p \in Processors : Settle(p) /\ processors[p].chunk = c
         \/ MQ!Stalled(chunkQ, c) /\ chunkQ[c].stalled
<1> USE DEF IInv, TypeOK
<1>1. ASSUME NEW s \in Splitters, OfferChunk(s) PROVE FALSE
  BY <1>1 DEF OfferChunk, MQ!Enqueue, MQ!NoMessage
<1>2. ASSUME NEW r \in Clients PROVE ~ReplayRemove(r) /\ ~ReplayEnqueue(r)
  BY DEF NoReplayYet, ReplayRemove, ReplayEnqueue, ClientAt
<1>3. ASSUME NEW p \in Processors, Receive(p) PROVE FALSE
  BY <1>3 DEF Receive, MQ!Deliver, MQ!Message
<1>4. ASSUME NEW p \in Processors, Settle(p) PROVE processors[p].chunk = c
  BY <1>4 DEF Settle, MQ!Complete, MQ!Fail, MQ!Failed
<1>5. ASSUME NEW p \in Processors, Crash(p) \/ Pause(p) PROVE FALSE
  <2>1. chunkQ' = MQ!Unlock(chunkQ, processors[p].chunk, p)
    BY <1>5 DEF Crash, Pause
  <2> QED BY <2>1 DEF MQ!Unlock, MQ!Message
<1>6. ASSUME NEW d \in Chunk, ChunkRedeliver(d)
      PROVE  MQ!Stalled(chunkQ, c) /\ chunkQ[c].stalled
  BY <1>6 DEF ChunkRedeliver, MQ!Redeliver, MQ!Message
<1> QED BY <1>1, <1>2, <1>3, <1>4, <1>5, <1>6, ChunkQueueWriters

\* Fewer and fewer locks may lapse, and one fewer once one has.
LEMMA LapsesShrink ==
  ASSUME TypeOK, [Next]_vars
  PROVE  /\ Lapses \in Nat /\ Lapses' \in Nat /\ Lapses' <= Lapses
         /\ \A p \in Processors : Crash(p) \/ Pause(p) => Lapses' = Lapses - 1
<1>1. /\ left.crashes \in Nat /\ left.pauses \in Nat
      /\ left'.crashes \in Nat /\ left'.pauses \in Nat
      /\ left'.crashes <= left.crashes /\ left'.pauses <= left.pauses
  BY BudgetShrinks, StepKeepsBudgetType DEF TypeOK, FaultKind
<1>2. ASSUME NEW p \in Processors, Crash(p)
      PROVE  left'.crashes = left.crashes - 1 /\ left'.pauses = left.pauses
  BY <1>2 DEF Crash, Spend, TypeOK, FaultKind
<1>3. ASSUME NEW p \in Processors, Pause(p)
      PROVE  left'.pauses = left.pauses - 1 /\ left'.crashes = left.crashes
  BY <1>3 DEF Pause, Spend, TypeOK, FaultKind
<1> QED BY <1>1, <1>2, <1>3 DEF Lapses

\* A message that lost its worker is redelivered before another one does.
LEMMA StepStallsOnce ==
  ASSUME ClaimsRun, IInv, NoReplayYet, WithinBudget, StallsOnce, [Next]_vars
  PROVE  StallsOnce'
<1> USE DEF IInv, TypeOK
<1>1. SUFFICES ASSUME NEW c \in Chunk
               PROVE  /\ MQ!Stalled(chunkQ', c) \/ chunkQ'[c].stalled => Lapses' = 0
                      /\ ~(MQ!Stalled(chunkQ', c) /\ chunkQ'[c].stalled)
  BY DEF StallsOnce, MQ!Stalled
<1> DEFINE Fine == /\ MQ!Stalled(chunkQ', c) \/ chunkQ'[c].stalled => Lapses' = 0
                   /\ ~(MQ!Stalled(chunkQ', c) /\ chunkQ'[c].stalled)
<1>2. /\ MQ!Stalled(chunkQ, c) \/ chunkQ[c].stalled => Lapses' = 0
      /\ ~(MQ!Stalled(chunkQ, c) /\ chunkQ[c].stalled)
  BY LapsesShrink DEF StallsOnce
<1>3. CASE UNCHANGED chunkQ
  BY <1>2, <1>3 DEF MQ!Stalled
<1>4. ASSUME NEW s \in Splitters, OfferChunk(s) PROVE Fine
  BY <1>2, <1>4 DEF OfferChunk, MQ!Enqueue, MQ!NoMessage, MQ!Stalled
<1>5. ASSUME NEW r \in Clients PROVE ~ReplayRemove(r) /\ ~ReplayEnqueue(r)
  BY DEF NoReplayYet, ReplayRemove, ReplayEnqueue, ClientAt
<1>6. ASSUME NEW p \in Processors, Receive(p) PROVE Fine
  BY <1>2, <1>6, NoWorkerAssumption DEF Receive, MQ!Deliver, MQ!Stalled, MQ!Message
<1>7. ASSUME NEW p \in Processors, Settle(p) PROVE Fine
  BY <1>2, <1>7 DEF Settle, MQ!Complete, MQ!Fail, MQ!Failed, MQ!Stalled, MQ!Message
<1>8. ASSUME NEW p \in Processors, Crash(p) \/ Pause(p) PROVE Fine
  <2>1. chunkQ' = MQ!Unlock(chunkQ, processors[p].chunk, p)
    BY <1>8 DEF Crash, Pause
  <2>2. Lapses \in Nat /\ Lapses' = Lapses - 1 /\ Lapses' \in Nat
    BY <1>8, LapsesShrink
  <2>3. Lapses <= 1
    <3>1. /\ left.crashes <= Faults.crashes /\ left.pauses <= Faults.pauses
          /\ left.crashes \in Nat /\ left.pauses \in Nat
          /\ Faults.crashes \in Nat /\ Faults.pauses \in Nat
      BY FaultsAssumption DEF WithinBudget, FaultKind
    <3> QED BY <3>1 DEF ClaimsRun, Lapses
  <2>4. Lapses # 0 /\ Lapses' = 0
    BY <2>2, <2>3
  <2>5. ~chunkQ[c].stalled
    BY <2>4 DEF StallsOnce
  <2>6. ~chunkQ'[c].stalled
    BY <2>1, <2>5 DEF MQ!Unlock, MQ!Message
  <2> QED BY <2>4, <2>6
<1>9. ASSUME NEW d \in Chunk, ChunkRedeliver(d) PROVE Fine
  BY <1>2, <1>9 DEF ChunkRedeliver, MQ!Redeliver, MQ!Stalled, MQ!Message
<1> QED BY <1>3, <1>4, <1>5, <1>6, <1>7, <1>8, <1>9, ChunkQueueWriters

\* Every step keeps started what was started.
LEMMA StepKeepsStarted ==
  ASSUME ClaimsRun
  PROVE  IInv /\ Grounded /\ NoReplayYet /\ WithinBudget /\ StartInv /\ [Next]_vars => StartInv'
<1> SUFFICES ASSUME IInv, Grounded, NoReplayYet, WithinBudget, StartInv, [Next]_vars
             PROVE  StartInv'
  OBVIOUS
<1>1. WorkerHasStarted'
  BY MoverHasStarted DEF WorkerHasStarted, Started
<1>2. SettledIsStarted'
  <2> SUFFICES ASSUME NEW c \in Chunk, chunkQ'[c].state \in {"completed", "failed"}
               PROVE  Started(c)'
    BY DEF SettledIsStarted
  <2>1. CASE chunkQ[c].state \in {"completed", "failed"}
    BY <2>1, StartedStays DEF StartInv, SettledIsStarted, IInv
  <2>2. ASSUME NEW p \in Processors, Settle(p), processors[p].chunk = c PROVE Started(c)'
    BY <2>2, StartedStays DEF StartInv, WorkerHasStarted, Settle, ProcAt, IInv
  <2> QED BY <2>1, <2>2, NewlySettled DEF StartInv, StallsOnce
<1> QED BY <1>1, <1>2, StepStallsOnce DEF StartInv

\* With that budget every reachable state is as StartInv says.
LEMMA PipelineIsStarted ==
  ASSUME ClaimsRun
  PROVE  Spec => []StartInv
<1>1. Init => NoReplayYet
  BY DEF Init, NoReplayYet, IdleClient, ClaimsRun
<1>2. Init => StartInv
  BY DEF Init, StartInv, WorkerHasStarted, SettledIsStarted, StallsOnce, MQ!Stalled,
         MQ!NoMessage, IdleProcessor
<1>3. Spec => []NoReplayYet
  BY <1>1, NoReplayBegins, PipelineTypes, PTL DEF Spec
<1> QED
  BY <1>2, <1>3, StepKeepsStarted, PipelineInvariant, PipelineIsGrounded,
     PipelineIsWithinBudget, PTL DEF Spec

\* A delivery that used up its attempts, or lost its worker, leaves a row that
\* replay-failed selects or that somebody still works on, never one that just
\* looks as if it were waiting.
THEOREM ExhaustedCanBeReplayed ==
  ASSUME ClaimsRun
  PROVE  Spec => []ExhaustedIsReplayable
<1>1. StartInv => ExhaustedIsReplayable
  BY DEF StartInv, SettledIsStarted, Started, ExhaustedIsReplayable
<1> QED BY <1>1, PipelineIsStarted, PTL

\* A chunk that waits to be processed has a message that is waiting or in work.
THEOREM WaitingChunksAreQueued ==
  ASSUME ClaimsRun
  PROVE  Spec => []PendingIsQueued
<1>1. IInv /\ StartInv /\ CheckpointIsCovered => PendingIsQueued
  <2> SUFFICES ASSUME IInv, StartInv, CheckpointIsCovered,
                      NEW c \in 0 .. nextChunk - 1, chunkStatus[c] = "PENDING"
               PROVE  MQ!Live(chunkQ, c)
    BY DEF PendingIsQueued
  <2>1. c \in Chunk /\ chunkQ[c].state # "absent"
    BY DEF CheckpointIsCovered, Rows
  <2>2. chunkQ[c].state \notin {"completed", "failed"}
    BY <2>1 DEF StartInv, SettledIsStarted, Started
  <2> QED BY <2>1, <2>2 DEF MQ!Live, IInv, TypeOK, MQ!Message, MQ!MessageState
<1>2. Faults.replays = 0
  BY DEF ClaimsRun
<1> QED BY <1>1, <1>2, PipelineIsStarted, CheckpointCovered, PipelineInvariant, PTL

-----------------------------------------------------------------------------
(***************************************************************************)
(* What a final status says.  In a run of errors and retries only, a chunk *)
(* is claimed once per delivery, so one that has failed MaxAttempts times  *)
(* has no delivery left, nobody claims it again, and PARTIAL stays true.   *)
(* For the same reason nothing is committed after the finisher has bumped. *)
(***************************************************************************)
\* No lock lapses and nobody replays; any statement may throw.
ErrorsOnly == Faults.crashes = 0 /\ Faults.pauses = 0 /\ Faults.replays = 0

Quiet == left.crashes = 0 /\ left.pauses = 0 /\ NoReplayYet

NothingStalls == \A c \in Chunk : ~MQ!Stalled(chunkQ, c)

WorkerProcesses ==
  \A p \in Processors : processors[p].pc \in {"process", "markFailed"} =>
                          chunkStatus[processors[p].chunk] = "PROCESSING"

\* A chunk has been claimed at most once per failed delivery, and once more by
\* the processor that has it.
WaitingIsMade ==
  \A c \in Chunk : /\ chunkQ[c].state = "absent" => attempts[c] = 0
                   /\ chunkQ[c].state = "waiting" => attempts[c] <= chunkQ[c].made

WorkerIsMade ==
  \A p \in Processors :
    LET c == processors[p].chunk IN
    /\ processors[p].pc = "claim" => attempts[c] <= chunkQ[c].made
    /\ processors[p].pc \notin {"idle", "park"} => attempts[c] <= chunkQ[c].made + 1

LiveIsNotExhausted == \A c \in Chunk : MQ!Live(chunkQ, c) => chunkQ[c].made < MaxAttempts

DeliveryInv ==
  /\ WorkerHolds /\ NothingStalls /\ WorkerProcesses
  /\ WaitingIsMade /\ WorkerIsMade /\ LiveIsNotExhausted

\* What the budget rules out.
LEMMA QuietSteps ==
  ASSUME Quiet
  PROVE  /\ \A s \in Splitters : ~SplitCrash(s) /\ ~SplitPause(s)
         /\ \A p \in Processors : ~Crash(p) /\ ~Pause(p)
         /\ \A r \in Clients : /\ ~ReplayRemove(r) /\ ~ReplayEnqueue(r) /\ ~ReplayReset(r)
                               /\ ~ReplayFlip(r) /\ ~ReplayCheck(r) /\ ~ReplayBump(r)
  BY DEF Quiet, NoReplayYet, SplitCrash, SplitPause, Crash, Pause, Spend, ReplayRemove,
         ReplayEnqueue, ReplayReset, ReplayFlip, ReplayCheck, ReplayBump, ClientAt

\* Only its holder touches the row of a chunk that is in work.
LEMMA RowOfWorkerStays ==
  ASSUME IInv, Grounded, Quiet, WorkerHolds, [Next]_vars, NEW p \in Processors,
         processors[p].pc \notin {"idle", "park"},
         ~Claim(p), ~Commit(p), ~MarkFailed(p)
  PROVE  LET c == processors[p].chunk IN
         chunkStatus'[c] = chunkStatus[c] /\ attempts'[c] = attempts[c]
<1>1. PICK c \in Chunk : c = processors[p].chunk /\ c \in Rows
  BY DEF IInv, TypeOK, ProcessorState, Grounded, ProcessorHasRow
<1>2. ASSUME NEW q \in Processors, Claim(q) \/ Commit(q) \/ MarkFailed(q)
      PROVE  processors[q].chunk # c
  <2>1. processors[q].pc \notin {"idle", "park"} /\ q # p
    BY <1>2 DEF Claim, Commit, MarkFailed, ProcAt
  <2> QED BY <1>1, <2>1 DEF WorkerHolds, MQ!Holds
<1>3. ASSUME NEW q \in Processors, Claim(q) \/ Commit(q) \/ MarkFailed(q)
      PROVE  chunkStatus'[c] = chunkStatus[c] /\ attempts'[c] = attempts[c]
  BY <1>2, <1>3 DEF Claim, Commit, MarkFailed, IInv, TypeOK
<1>4. ASSUME NEW s \in Splitters, InsertChunkRow(s)
      PROVE  chunkStatus'[c] = chunkStatus[c] /\ attempts'[c] = attempts[c]
  BY <1>1, <1>4 DEF InsertChunkRow, Rows, IInv, TypeOK
<1> QED BY <1>1, <1>3, <1>4, RowWriters, QuietSteps

\* A processor that is to write its outcome finds its chunk PROCESSING.
LEMMA WorkersKeepProcessing ==
  ASSUME IInv, Grounded, Quiet, DeliveryInv, [Next]_vars
  PROVE  WorkerProcesses'
<1> SUFFICES ASSUME NEW p \in Processors, processors'[p].pc \in {"process", "markFailed"}
             PROVE  chunkStatus'[processors'[p].chunk] = "PROCESSING"
  BY DEF WorkerProcesses
<1>1. processors[p] \in ProcessorState /\ processors \in [Processors -> ProcessorState]
  BY DEF IInv, TypeOK
<1>2. CASE Claim(p)
  <2>1. PICK c \in Chunk : c = processors[p].chunk
    BY <1>1 DEF ProcessorState
  <2>2. processors'[p].chunk = c
    BY <1>1, <1>2, <2>1 DEF Claim, ProcGoto, ProcessorState
  <2> QED BY <1>2, <2>1, <2>2 DEF Claim, IInv, TypeOK
<1>3. CASE /\ processors[p].pc \in {"process", "markFailed"}
           /\ processors'[p].chunk = processors[p].chunk
           /\ ~Commit(p) /\ ~MarkFailed(p)
  BY <1>3, RowOfWorkerStays DEF DeliveryInv, WorkerProcesses, Claim, ProcAt
<1>4. CASE processors'[p] = processors[p]
  <2>1. ~Commit(p)
    BY <1>1, <1>4 DEF Commit, ProcGoto, ProcAt, ProcessorState
  <2>2. ~MarkFailed(p)
    BY <1>1, <1>4 DEF MarkFailed, ProcAt, ProcessorState
  <2> QED BY <1>3, <1>4, <2>1, <2>2
<1>5. CASE Throw(p)
  <2>1. processors'[p].chunk = processors[p].chunk
    BY <1>1, <1>5 DEF Throw, ProcessorState
  <2>2. processors'[p].pc \in {"markFailed", "settle"}
    BY <1>1, <1>5 DEF Throw, ProcessorState
  <2>3. processors[p].pc # "process" => processors'[p].pc = "settle"
    BY <1>1, <1>5 DEF Throw, ProcAt, ProcessorState
  <2>4. processors[p].pc = "process"
    BY <2>3
  <2>5. ~Commit(p)
    BY <1>1, <2>2 DEF Commit, ProcGoto, ProcAt, ProcessorState
  <2>6. ~MarkFailed(p)
    BY <2>4 DEF MarkFailed, ProcAt
  <2> QED BY <1>3, <2>1, <2>4, <2>5, <2>6
<1>6. ASSUME Skip(p) \/ Commit(p) \/ Finish(p) \/ Bump(p) PROVE FALSE
  BY <1>1, <1>6 DEF Skip, Commit, Finish, Bump, ProcGoto, ProcessorState
<1>7. ASSUME MarkFailed(p) PROVE FALSE
  BY <1>1, <1>7 DEF MarkFailed, ProcessorState
<1>8. ASSUME Receive(p) \/ Park(p) PROVE FALSE
  BY <1>1, <1>8 DEF Receive, Park, IdleProcessor
<1>9. ASSUME Settle(p) PROVE FALSE
  BY <1>1, <1>9 DEF Settle, IdleProcessor, ProcessorState
<1> QED
  BY <1>2, <1>4, <1>5, <1>6, <1>7, <1>8, <1>9, ProcessorMoves, QuietSteps
  DEF IInv, ProcStep, ProcFault

\* Without lapses a message changes in four ways only.
LEMMA QuietQueueWriters ==
  ASSUME Quiet, NothingStalls, [Next]_vars
  PROVE  \/ UNCHANGED chunkQ
         \/ \E s \in Splitters : OfferChunk(s)
         \/ \E p \in Processors : Receive(p) \/ Settle(p)
  BY ChunkQueueWriters, QuietSteps DEF NothingStalls, ChunkRedeliver

\* The attempts of a chunk move with its claims only.
LEMMA AttemptsMove ==
  ASSUME IInv, [Next]_vars, NEW c \in Chunk
  PROVE  \/ attempts'[c] = attempts[c]
         \/ \E p \in Processors : /\ Claim(p) /\ processors[p].chunk = c
                                  /\ attempts'[c] = attempts[c] + 1
<1> USE DEF IInv, TypeOK
<1>1. ASSUME NEW p \in Processors, Claim(p)
      PROVE  \/ attempts'[c] = attempts[c]
             \/ processors[p].chunk = c /\ attempts'[c] = attempts[c] + 1
  BY <1>1 DEF Claim
<1>2. ASSUME NEW p \in Processors, Commit(p) \/ MarkFailed(p) PROVE attempts'[c] = attempts[c]
  BY <1>2 DEF Commit, MarkFailed
<1>3. ASSUME NEW s \in Splitters, InsertChunkRow(s) PROVE attempts'[c] = attempts[c]
  BY <1>3 DEF InsertChunkRow
<1>4. ASSUME NEW r \in Clients, ReplayReset(r) PROVE attempts'[c] = attempts[c]
  BY <1>4 DEF ReplayReset
<1> QED BY <1>1, <1>2, <1>3, <1>4, RowWriters

\* A held message stays in work until its holder settles.
LEMMA NothingComesToStall ==
  ASSUME IInv, Grounded, Quiet, DeliveryInv, [Next]_vars
  PROVE  NothingStalls'
<1> USE DEF IInv, TypeOK, MQ!Stalled
<1>1. SUFFICES ASSUME NEW c \in Chunk PROVE ~MQ!Stalled(chunkQ', c)
  BY DEF NothingStalls
<1>2. ~MQ!Stalled(chunkQ, c)
  BY DEF DeliveryInv, NothingStalls
<1>3. ASSUME NEW s \in Splitters, OfferChunk(s) PROVE ~MQ!Stalled(chunkQ', c)
  BY <1>2, <1>3 DEF OfferChunk, MQ!Enqueue, MQ!NoMessage
<1>4. ASSUME NEW p \in Processors, Receive(p) PROVE ~MQ!Stalled(chunkQ', c)
  BY <1>2, <1>4, NoWorkerAssumption DEF Receive, MQ!Deliver, MQ!Message
<1>5. ASSUME NEW p \in Processors, Settle(p) PROVE ~MQ!Stalled(chunkQ', c)
  BY <1>2, <1>5 DEF Settle, MQ!Complete, MQ!Fail, MQ!Failed, MQ!Message
<1> QED BY <1>2, <1>3, <1>4, <1>5, QuietQueueWriters DEF DeliveryInv

\* A message that waits has failed as often as its chunk was claimed.
LEMMA WaitingStaysMade ==
  ASSUME IInv, Grounded, Quiet, DeliveryInv, [Next]_vars
  PROVE  WaitingIsMade'
<1> USE DEF IInv, TypeOK
<1>1. SUFFICES ASSUME NEW c \in Chunk, chunkQ'[c].state \in {"absent", "waiting"}
               PROVE  /\ chunkQ'[c].state = "absent" => attempts'[c] = 0
                      /\ chunkQ'[c].state = "waiting" => attempts'[c] <= chunkQ'[c].made
  BY DEF WaitingIsMade
<1> DEFINE Fine == /\ chunkQ'[c].state = "absent" => attempts'[c] = 0
                   /\ chunkQ'[c].state = "waiting" => attempts'[c] <= chunkQ'[c].made
<1>2. attempts'[c] = attempts[c]
  <2>1. ASSUME NEW p \in Processors, Claim(p), processors[p].chunk = c PROVE FALSE
    <3>1. MQ!Holds(chunkQ, c, p)
      BY <2>1 DEF DeliveryInv, WorkerHolds, Claim, ProcAt
    <3>2. UNCHANGED chunkQ
      BY <2>1 DEF Claim, queueVars
    <3> QED BY <1>1, <3>1, <3>2 DEF MQ!Holds
  <2> QED BY <2>1, AttemptsMove
<1>3. /\ chunkQ[c].state = "absent" => attempts[c] = 0
      /\ chunkQ[c].state = "waiting" => attempts[c] <= chunkQ[c].made
  BY DEF DeliveryInv, WaitingIsMade
<1>4. CASE UNCHANGED chunkQ
  BY <1>2, <1>3, <1>4
<1>5. ASSUME NEW s \in Splitters, OfferChunk(s) PROVE Fine
  <2>1. splitters[s].idx \in Chunk
    BY <1>5 DEF OfferChunk, SplitAt, SplitterIsCovered, Rows
  <2>2. CASE splitters[s].idx = c /\ chunkQ[c].state = "absent"
    BY <1>2, <1>3, <1>5, <2>2 DEF OfferChunk, MQ!Enqueue, MQ!NoMessage
  <2>3. CASE ~(splitters[s].idx = c /\ chunkQ[c].state = "absent")
    <3>1. chunkQ'[c] = chunkQ[c]
      BY <1>5, <2>3 DEF OfferChunk, MQ!Enqueue
    <3> QED BY <1>2, <1>3, <3>1
  <2> QED BY <2>2, <2>3
<1>6. ASSUME NEW p \in Processors, Receive(p) PROVE Fine
  <2>1. chunkQ'[c] = chunkQ[c]
    BY <1>1, <1>6 DEF Receive, MQ!Deliver, MQ!Message
  <2> QED BY <1>2, <1>3, <2>1
<1>7. ASSUME NEW p \in Processors, Settle(p) PROVE Fine
  <2>1. CASE processors[p].chunk # c
    <3>1. chunkQ'[c] = chunkQ[c]
      BY <1>7, <2>1 DEF Settle, MQ!Complete, MQ!Fail
    <3> QED BY <1>2, <1>3, <3>1
  <2>2. CASE processors[p].chunk = c
    <3>1. MQ!Holds(chunkQ, c, p) /\ attempts[c] <= chunkQ[c].made + 1
      BY <1>7, <2>2 DEF DeliveryInv, WorkerHolds, WorkerIsMade, Settle, ProcAt
    <3>2. CASE processors[p].ok
      <4>1. chunkQ'[c].state = "completed"
        BY <1>7, <2>2, <3>1, <3>2 DEF Settle, MQ!Complete, MQ!Message
      <4> QED BY <1>1, <4>1
    <3>3. CASE ~processors[p].ok
      <4>1. chunkQ'[c] = MQ!Failed(chunkQ[c])
        BY <1>7, <2>2, <3>1, <3>3 DEF Settle, MQ!Fail
      <4>2. chunkQ'[c].made = chunkQ[c].made + 1 /\ chunkQ'[c].state # "absent"
        BY <4>1 DEF MQ!Failed, MQ!Message
      <4> QED BY <1>2, <3>1, <4>2
    <3> QED BY <3>2, <3>3
  <2> QED BY <2>1, <2>2
<1> QED BY <1>4, <1>5, <1>6, <1>7, QuietQueueWriters DEF DeliveryInv

\* Until it settles nobody changes the message a processor holds.
LEMMA RecordOfWorkerStays ==
  ASSUME IInv, Quiet, DeliveryInv, [Next]_vars, NEW p \in Processors,
         processors[p].pc \notin {"idle", "park"}, ~Settle(p)
  PROVE  LET c == processors[p].chunk IN chunkQ'[c] = chunkQ[c]
<1> USE DEF IInv, TypeOK
<1>1. PICK c \in Chunk : c = processors[p].chunk /\ MQ!Holds(chunkQ, c, p)
  BY DEF ProcessorState, DeliveryInv, WorkerHolds
<1>2. ASSUME NEW s \in Splitters, OfferChunk(s) PROVE chunkQ'[c] = chunkQ[c]
  BY <1>1, <1>2 DEF OfferChunk, MQ!Enqueue, MQ!Holds
<1>3. ASSUME NEW q \in Processors, Receive(q) PROVE chunkQ'[c] = chunkQ[c]
  BY <1>1, <1>3 DEF Receive, MQ!Deliver, MQ!Holds
<1>4. ASSUME NEW q \in Processors, Settle(q) PROVE chunkQ'[c] = chunkQ[c]
  <2>1. q # p /\ processors[q].pc = "settle"
    BY <1>4 DEF Settle, ProcAt
  <2>2. processors[q].chunk # c
    BY <1>1, <2>1 DEF DeliveryInv, WorkerHolds, MQ!Holds
  <2> QED BY <1>4, <2>2 DEF Settle, MQ!Complete, MQ!Fail
<1> QED BY <1>1, <1>2, <1>3, <1>4, QuietQueueWriters DEF DeliveryInv

\* A processor at work has claimed its chunk at most once more than deliveries failed.
LEMMA WorkerStaysMade ==
  ASSUME IInv, Grounded, Quiet, DeliveryInv, [Next]_vars
  PROVE  WorkerIsMade'
<1>1. SUFFICES ASSUME NEW p \in Processors, processors'[p].pc \notin {"idle", "park"}
               PROVE  LET c == processors'[p].chunk IN
                      /\ processors'[p].pc = "claim" => attempts'[c] <= chunkQ'[c].made
                      /\ attempts'[c] <= chunkQ'[c].made + 1
  BY DEF WorkerIsMade
<1>2. processors[p] \in ProcessorState /\ processors \in [Processors -> ProcessorState]
  BY DEF IInv, TypeOK
<1>3. PICK c \in Chunk : c = processors[p].chunk
  BY <1>2 DEF ProcessorState
<1>4. CASE Receive(p)
  <2>1. PICK d \in Chunk :
          /\ chunkQ[d].state = "waiting"
          /\ chunkQ' = MQ!Deliver(chunkQ, d, p)
          /\ processors' = [processors EXCEPT ![p] = [pc |-> "claim", chunk |-> d, ok |-> TRUE]]
          /\ UNCHANGED chunkVars
    BY <1>4 DEF Receive
  <2>2. attempts'[d] <= chunkQ[d].made /\ attempts'[d] \in Nat /\ chunkQ[d].made \in Nat
    BY <2>1 DEF DeliveryInv, WaitingIsMade, chunkVars, IInv, TypeOK, MQ!Message
  <2>3. chunkQ'[d].made = chunkQ[d].made
    BY <2>1 DEF MQ!Deliver, IInv, TypeOK, MQ!Message
  <2>4. processors'[p].chunk = d
    BY <1>2, <2>1
  <2> QED BY <2>2, <2>3, <2>4
<1>5. ~Settle(p) /\ ~Park(p)
  BY <1>1, <1>2 DEF Settle, Park, IdleProcessor, ProcessorState
<1>6. ASSUME processors[p].pc \notin {"idle", "park"}
      PROVE  /\ chunkQ'[c] = chunkQ[c] /\ attempts[c] \in Nat /\ chunkQ[c].made \in Nat
             /\ processors[p].pc = "claim" => attempts[c] <= chunkQ[c].made
             /\ attempts[c] <= chunkQ[c].made + 1
             /\ ~Claim(p) => attempts'[c] = attempts[c]
  <2>1. chunkQ'[c] = chunkQ[c] /\ attempts[c] \in Nat /\ chunkQ[c].made \in Nat
    BY <1>3, <1>5, <1>6, RecordOfWorkerStays DEF IInv, TypeOK, MQ!Message
  <2>2. /\ processors[p].pc = "claim" => attempts[c] <= chunkQ[c].made
        /\ attempts[c] <= chunkQ[c].made + 1
    BY <1>3, <1>6 DEF DeliveryInv, WorkerIsMade
  <2>3. ASSUME NEW q \in Processors, Claim(q), processors[q].chunk = c PROVE q = p
    BY <1>3, <1>6, <2>3 DEF Claim, ProcAt, DeliveryInv, WorkerHolds, MQ!Holds
  <2> QED BY <2>1, <2>2, <2>3, AttemptsMove
<1>7. CASE Claim(p)
  <2>1. processors'[p].pc = "process" /\ processors'[p].chunk = c /\ processors[p].pc = "claim"
    BY <1>2, <1>3, <1>7 DEF Claim, ProcGoto, ProcAt, ProcessorState
  <2>2. attempts'[c] = attempts[c] + 1
    BY <1>3, <1>7 DEF Claim, IInv, TypeOK
  <2> QED BY <1>6, <2>1, <2>2
<1>8. CASE processors'[p] = processors[p] /\ ~Claim(p)
  BY <1>1, <1>3, <1>6, <1>8
<1>9. CASE Skip(p) \/ Commit(p) \/ Finish(p) \/ Bump(p)
  <2>1. /\ processors'[p].pc # "claim" /\ processors'[p].chunk = c
        /\ processors[p].pc \notin {"idle", "park"}
    BY <1>2, <1>3, <1>9 DEF Skip, Commit, Finish, Bump, ProcGoto, ProcAt, ProcessorState
  <2>2. ~Claim(p)
    BY <1>9 DEF Skip, Commit, Finish, Bump, Claim, ProcAt
  <2> QED BY <1>6, <2>1, <2>2
<1>10. CASE MarkFailed(p)
  <2>1. /\ processors'[p].pc # "claim" /\ processors'[p].chunk = c
        /\ processors[p].pc = "markFailed"
    BY <1>2, <1>3, <1>10 DEF MarkFailed, ProcAt, ProcessorState
  <2>2. ~Claim(p)
    BY <2>1 DEF Claim, ProcAt
  <2> QED BY <1>6, <2>1, <2>2
<1>11. CASE Throw(p)
  <2>1. processors'[p].pc # "claim" /\ processors'[p].chunk = c
    BY <1>2, <1>3, <1>11 DEF Throw, ProcessorState
  <2>2. processors[p].pc \notin {"idle", "park"}
    BY <1>11, ProcessorFaultsAssumption DEF Throw
  <2>3. ASSUME Claim(p) PROVE processors'[p].ok = processors[p].ok /\ processors'[p].pc = "process"
    BY <1>2, <2>3 DEF Claim, ProcGoto, ProcessorState
  <2>4. processors'[p].pc \in {"markFailed", "settle"}
    BY <1>2, <1>11 DEF Throw, ProcessorState
  <2> QED BY <1>6, <2>1, <2>2, <2>3, <2>4
<1>12. CASE processors'[p] = processors[p]
  <2>1. ~Claim(p)
    BY <1>2, <1>12 DEF Claim, ProcGoto, ProcAt, ProcessorState
  <2> QED BY <1>8, <1>12, <2>1
<1> QED
  BY <1>4, <1>5, <1>7, <1>9, <1>10, <1>11, <1>12, ProcessorMoves, QuietSteps
  DEF IInv, ProcStep, ProcFault

\* A message that may be delivered has an attempt left.
LEMMA LiveStaysUnexhausted ==
  ASSUME IInv, Quiet, DeliveryInv, [Next]_vars
  PROVE  LiveIsNotExhausted'
<1> USE DEF IInv, TypeOK, MQ!Live
<1>1. SUFFICES ASSUME NEW c \in Chunk, MQ!Live(chunkQ', c)
               PROVE  chunkQ'[c].made < MaxAttempts
  BY DEF LiveIsNotExhausted
<1>2. MQ!Live(chunkQ, c) => chunkQ[c].made < MaxAttempts
  BY DEF DeliveryInv, LiveIsNotExhausted
<1>3. CASE UNCHANGED chunkQ
  BY <1>1, <1>2, <1>3
<1>4. ASSUME NEW s \in Splitters, OfferChunk(s) PROVE chunkQ'[c].made < MaxAttempts
  BY <1>1, <1>2, <1>4, MaxAttemptsAssumption DEF OfferChunk, MQ!Enqueue, MQ!NoMessage
<1>5. ASSUME NEW p \in Processors, Receive(p) PROVE chunkQ'[c].made < MaxAttempts
  BY <1>1, <1>2, <1>5 DEF Receive, MQ!Deliver, MQ!Message
<1>6. ASSUME NEW p \in Processors, Settle(p) PROVE chunkQ'[c].made < MaxAttempts
  <2>1. CASE chunkQ'[c] = chunkQ[c]
    BY <1>1, <1>2, <2>1
  <2>2. CASE chunkQ'[c] = [chunkQ[c] EXCEPT !.state = "completed", !.holder = NoWorker]
    BY <1>1, <2>2 DEF MQ!Message
  <2>3. CASE chunkQ'[c] = MQ!Failed(chunkQ[c])
    <3>1. /\ chunkQ'[c].made = chunkQ[c].made + 1
          /\ chunkQ[c].made + 1 >= MaxAttempts => chunkQ'[c].state = "failed"
      BY <2>3 DEF MQ!Failed, MQ!Message
    <3>2. chunkQ[c].made \in Nat
      BY DEF MQ!Message
    <3> QED BY <1>1, <3>1, <3>2, MaxAttemptsAssumption
  <2> QED BY <1>6, <2>1, <2>2, <2>3 DEF Settle, MQ!Complete, MQ!Fail
<1> QED BY <1>3, <1>4, <1>5, <1>6, QuietQueueWriters DEF DeliveryInv

\* Every step keeps the account of deliveries.
LEMMA StepKeepsDeliveries ==
  IInv /\ Grounded /\ Quiet /\ DeliveryInv /\ [Next]_vars => DeliveryInv'
<1> SUFFICES ASSUME IInv, Grounded, Quiet, DeliveryInv, [Next]_vars PROVE DeliveryInv'
  OBVIOUS
<1>1. WorkerHolds'
  <2>1. left'.pauses <= left.pauses /\ left'.pauses \in Nat /\ left.pauses = 0
    BY BudgetShrinks, StepKeepsBudgetType DEF IInv, FaultKind, Quiet
  <2>2. left'.pauses = left.pauses
    BY <2>1
  <2> QED BY <2>2, WorkersKeepHolding DEF DeliveryInv
<1> QED
  BY <1>1, NothingComesToStall, WorkersKeepProcessing, WaitingStaysMade, WorkerStaysMade,
     LiveStaysUnexhausted DEF DeliveryInv

-----------------------------------------------------------------------------
\* A chunk that failed for good.
GivenUp(c) == chunkStatus[c] = "FAILED" /\ attempts[c] >= MaxAttempts

RowsAreOfFile == Rows \subseteq FileChunks

FinalIsSettled == jobStatus \in {"COMPLETED", "PARTIAL"} => \A c \in Rows : ~Outstanding(c)

PartialGaveUp == jobStatus = "PARTIAL" => \E c \in FileChunks : GivenUp(c)

OutcomeInv == RowsAreOfFile /\ FinalIsSettled /\ PartialGaveUp

\* A chunk that failed for good stays so: nobody has a delivery to claim it with.
LEMMA GivenUpStays ==
  ASSUME IInv, Quiet, DeliveryInv, [Next]_vars, NEW c \in Chunk, GivenUp(c)
  PROVE  GivenUp(c)'
<1> USE DEF IInv, TypeOK
<1>1. ASSUME NEW p \in Processors, Claim(p), processors[p].chunk = c PROVE FALSE
  <2>1. MQ!Holds(chunkQ, c, p) /\ attempts[c] <= chunkQ[c].made
    BY <1>1 DEF Claim, ProcAt, DeliveryInv, WorkerHolds, WorkerIsMade
  <2>2. chunkQ[c].made < MaxAttempts
    BY <2>1 DEF DeliveryInv, LiveIsNotExhausted, MQ!Live, MQ!Holds
  <2>3. chunkQ[c].made \in Nat /\ attempts[c] \in Nat /\ MaxAttempts \in Nat
    BY MaxAttemptsAssumption DEF MQ!Message
  <2> QED BY <2>1, <2>2, <2>3 DEF GivenUp
<1>2. attempts'[c] = attempts[c]
  BY <1>1, AttemptsMove
<1>3. ASSUME NEW p \in Processors, Claim(p) PROVE chunkStatus'[c] = chunkStatus[c]
  BY <1>1, <1>3 DEF Claim
<1>4. ASSUME NEW p \in Processors, Commit(p) \/ MarkFailed(p)
      PROVE  chunkStatus'[c] = chunkStatus[c]
  <2>1. processors[p].chunk # c
    BY <1>4 DEF Commit, MarkFailed, ProcAt, DeliveryInv, WorkerProcesses, GivenUp
  <2> QED BY <1>4, <2>1 DEF Commit, MarkFailed
<1>5. ASSUME NEW s \in Splitters, InsertChunkRow(s) PROVE chunkStatus'[c] = chunkStatus[c]
  BY <1>5 DEF InsertChunkRow, GivenUp
<1> QED BY <1>2, <1>3, <1>4, <1>5, RowWriters, QuietSteps DEF GivenUp

\* A chunk is settled when it is DONE or failed for good, and then stays settled.
LEMMA SettledStays ==
  ASSUME IInv, Quiet, DeliveryInv, [Next]_vars, NEW c \in Chunk, ~Outstanding(c)
  PROVE  ~Outstanding(c)'
<1>1. CASE chunkStatus[c] = "DONE"
  BY <1>1, RowsStay DEF ChunksGrow, Outstanding, IInv
<1>2. CASE chunkStatus[c] # "DONE"
  BY <1>2, GivenUpStays DEF Outstanding, GivenUp
<1> QED BY <1>1, <1>2

\* The rows of a job are those of its file's chunks.
LEMMA RowsStayOfFile ==
  ASSUME IInv, Grounded, RowsAreOfFile, [Next]_vars
  PROVE  RowsAreOfFile'
<1>1. file' = file
  BY RowsStay DEF IInv
<1>2. ASSUME NEW c \in Rows' PROVE c \in FileChunks
  <2>1. CASE c \in Rows
    BY <2>1 DEF RowsAreOfFile
  <2>2. ASSUME NEW s \in Splitters, InsertChunkRow(s), splitters[s].idx = c
        PROVE  c \in FileChunks
    <3>1. c < Total(file) /\ Total(file) \in Nat /\ c \in Nat
      BY <2>2, TotalBound, MaxChunksAssumption
      DEF InsertChunkRow, SplitAt, IInv, TypeOK, SplitterState, SplitterIsCovered
    <3> QED BY <3>1 DEF FileChunks
  <2> QED BY <2>1, <2>2, NewRowIsInserted DEF IInv, Grounded
<1> QED BY <1>1, <1>2 DEF RowsAreOfFile, FileChunks

\* The rows of a job that is past its split are all there.
LEMMA NoNewRow ==
  ASSUME IInv, Grounded, RowsAreOfFile, [Next]_vars,
         jobStatus \in {"SPLIT_DONE", "COMPLETED", "PARTIAL"}
  PROVE  Rows' \subseteq Rows
<1>1. FileChunks \subseteq Rows
  BY DEF IInv, CompletionIsNotEarly
<1>2. FileChunks' = FileChunks
  BY RowsStay DEF FileChunks, IInv
<1> QED BY <1>1, <1>2, RowsStayOfFile DEF RowsAreOfFile

\* Without a replay a final status is for good, and one that is new was set by
\* a check that found every row settled.
LEMMA FinalMove ==
  ASSUME IInv, Quiet, [Next]_vars
  PROVE  /\ jobStatus \in {"COMPLETED", "PARTIAL"} => jobStatus' = jobStatus
         /\ jobStatus' \in {"COMPLETED", "PARTIAL"} =>
              \/ jobStatus' = jobStatus
              \/ jobStatus' = FinalStatus /\ CanFinish /\ UNCHANGED chunkVars
<1>1. CASE UNCHANGED jobStatus
  BY <1>1
<1>2. JobMove
  BY StepIsMove
<1>3. ASSUME NEW s \in Splitters, SplitClaim(s) \/ EndOfFile(s)
      PROVE  /\ jobStatus \in {"COMPLETED", "PARTIAL"} => jobStatus' = jobStatus
             /\ jobStatus' \in {"COMPLETED", "PARTIAL"} => jobStatus' = jobStatus
  BY <1>3 DEF SplitClaim, Splittable, EndOfFile
<1>4. ASSUME NEW s \in Splitters, RejectFile(s)
      PROVE  jobStatus' = "FAILED" /\ jobStatus \notin {"COMPLETED", "PARTIAL"}
  BY <1>4 DEF RejectFile, IInv, CompletionIsNotEarly
<1>5. ASSUME CheckJobCompletion
      PROVE  \/ jobStatus' = jobStatus
             \/ jobStatus' = FinalStatus /\ jobStatus = "SPLIT_DONE"
  BY <1>5 DEF CheckJobCompletion, CanFinish
<1>6. ASSUME NEW r \in Clients, Upload(r)
      PROVE  \/ jobStatus' = jobStatus
             \/ jobStatus = "none" /\ jobStatus' = "PENDING"
  BY <1>6 DEF Upload
<1> QED
  BY <1>1, <1>2, <1>3, <1>4, <1>5, <1>6, JobStatusWriters, QuietSteps
  DEF JobMove, SplitFinish, Finish

\* What a final status says stays true.
LEMMA StepKeepsOutcome ==
  IInv /\ Grounded /\ Quiet /\ DeliveryInv /\ OutcomeInv /\ [Next]_vars => OutcomeInv'
<1> SUFFICES ASSUME IInv, Grounded, Quiet, DeliveryInv, OutcomeInv, [Next]_vars
             PROVE  OutcomeInv'
  OBVIOUS
<1>1. RowsAreOfFile'
  BY RowsStayOfFile DEF OutcomeInv
<1>2. FileChunks' = FileChunks /\ FileChunks \subseteq Chunk
  <2>1. file' = file
    BY RowsStay DEF IInv
  <2>2. Total(file) \in 0 .. MaxChunks
    BY TotalBound DEF IInv, TypeOK
  <2> QED BY <2>1, <2>2, MaxChunksAssumption DEF FileChunks, Chunk
<1>3. FinalIsSettled'
  <2> SUFFICES ASSUME jobStatus' \in {"COMPLETED", "PARTIAL"}, NEW c \in Rows'
               PROVE  ~Outstanding(c)'
    BY DEF FinalIsSettled
  <2>1. c \in Rows /\ c \in Chunk
    BY NoNewRow, FinalMove DEF OutcomeInv, CanFinish, Rows
  <2>2. ~Outstanding(c)
    BY <2>1, FinalMove DEF OutcomeInv, FinalIsSettled, CanFinish
  <2> QED BY <2>1, <2>2, SettledStays
<1>4. PartialGaveUp'
  <2> SUFFICES ASSUME jobStatus' = "PARTIAL"
               PROVE  \E c \in FileChunks : GivenUp(c)'
    BY <1>2 DEF PartialGaveUp
  <2>1. \E c \in FileChunks : GivenUp(c)
    <3>1. CASE jobStatus = "PARTIAL"
      BY <3>1 DEF OutcomeInv, PartialGaveUp
    <3>2. CASE jobStatus' = FinalStatus /\ CanFinish
      <4>1. PICK c \in Rows : chunkStatus[c] = "FAILED"
        BY <3>2 DEF FinalStatus
      <4> QED BY <3>2, <4>1 DEF CanFinish, Outstanding, GivenUp, OutcomeInv, RowsAreOfFile
    <3> QED BY <3>1, <3>2, FinalMove
  <2> QED BY <1>2, <2>1, GivenUpStays
<1> QED BY <1>1, <1>3, <1>4 DEF OutcomeInv

\* In a run of errors and retries every reachable state is accounted for.
LEMMA PipelineIsAccountedFor ==
  ASSUME ErrorsOnly
  PROVE  Spec => [](Quiet /\ DeliveryInv /\ OutcomeInv)
<1>1. Init => NoReplayYet
  BY DEF Init, NoReplayYet, IdleClient, ErrorsOnly
<1>2. Spec => []NoReplayYet
  BY <1>1, NoReplayBegins, PipelineTypes, PTL DEF Spec
<1>3. TypeOK /\ WithinBudget /\ NoReplayYet => Quiet
  BY NoneLeft DEF Quiet, ErrorsOnly, FaultKind
<1>4. Init => DeliveryInv
  BY MaxAttemptsAssumption
  DEF Init, DeliveryInv, WorkerHolds, NothingStalls, WorkerProcesses, WaitingIsMade,
      WorkerIsMade, LiveIsNotExhausted, MQ!Stalled, MQ!Live, MQ!NoMessage, IdleProcessor
<1>5. Init => OutcomeInv
  BY DEF Init, OutcomeInv, RowsAreOfFile, FinalIsSettled, PartialGaveUp, Rows
<1>6. Spec => []Quiet
  BY <1>2, <1>3, PipelineTypes, PipelineIsWithinBudget, PTL
<1>7. Spec => []DeliveryInv
  BY <1>4, <1>6, StepKeepsDeliveries, PipelineInvariant, PipelineIsGrounded, PTL DEF Spec
<1> QED
  BY <1>5, <1>6, <1>7, StepKeepsOutcome, PipelineInvariant, PipelineIsGrounded, PTL DEF Spec

\* PARTIAL is never said in vain: as long as chunks only fail and are retried, a
\* job that is PARTIAL has a chunk that failed as often as a chunk may, and
\* nobody will claim that chunk again.
THEOREM PartialIsDeserved ==
  ASSUME ErrorsOnly
  PROVE  Spec => []PartialHasFailedChunk
<1>1. OutcomeInv => PartialHasFailedChunk
  BY DEF OutcomeInv, PartialGaveUp, GivenUp, PartialHasFailedChunk
<1> QED BY <1>1, PipelineIsAccountedFor, PTL

-----------------------------------------------------------------------------
(***************************************************************************)
(* The invalidation.  Whoever flips the job bumps next, and by then every  *)
(* chunk is settled: no commit can come between the flip and the bump, so  *)
(* the categories found on the rows are all that changed.                  *)
(***************************************************************************)
\* The bump after the flip ends neither by a crash nor by an exception.
BumpsRun == ErrorsOnly /\ "bump" \notin SplitterFaults \cup ProcessorFaults

DirtyIsChanged == \A c \in dirty : changed[c]

\* Only commits add to what a bump is owed for, and only bumps take away.
LEMMA DirtyWriters ==
  ASSUME [Next]_vars
  PROVE  \/ UNCHANGED dirty
         \/ \E p \in Processors : Commit(p)
         \/ AfterJobFinished /\ UNCHANGED chunkVars
<1>1. ASSUME NEW s \in Splitters, SplitStep(s) \/ SplitFault(s)
      PROVE  UNCHANGED dirty \/ SplitBump(s)
  BY <1>1
  DEF SplitStep, SplitFault, SplitReceive, SplitClaim, SplitSkip, PutChunk, InsertChunkRow,
      OfferChunk, Checkpoint, Continue, EndOfFile, RejectFile, SplitFinish, SplitSettle,
      SplitThrow, SplitCrash, SplitPause
<1>2. ASSUME NEW p \in Processors, ProcStep(p) \/ ProcFault(p)
      PROVE  UNCHANGED dirty \/ Commit(p) \/ Bump(p)
  BY <1>2
  DEF ProcStep, ProcFault, Receive, Claim, Skip, MarkFailed, Finish, Settle, Park, Throw,
      Crash, Pause
<1>3. ASSUME NEW r \in Clients, ClientRequest(r) \/ ClientStep(r) \/ ClientFails(r)
      PROVE  UNCHANGED dirty \/ ReplayBump(r)
  BY <1>3
  DEF ClientRequest, ClientStep, ClientFails, Upload, EnqueueSplit, ReplayFind, ReplaySelect,
      ReplayRemove, ReplayEnqueue, ReplayReset, ReplaySplitRemove, ReplaySplitEnqueue,
      ReplayFlip, ReplayCheck
<1> QED
  BY <1>1, <1>2, <1>3
  DEF Next, vars, SplitRedeliver, ChunkRedeliver, GoStale, SplitBump, Bump, ReplayBump

\* What is dirty is recorded on the rows, where the bump will look for it.
LEMMA DirtyStaysChanged ==
  ASSUME IInv, Quiet, DeliveryInv, DirtyIsChanged, [Next]_vars
  PROVE  DirtyIsChanged'
<1> USE DEF IInv, TypeOK, DirtyIsChanged
<1>1. ASSUME NEW p \in Processors, Commit(p) PROVE DirtyIsChanged'
  <2>1. PICK c \in Chunk : c = processors[p].chunk
    BY DEF ProcessorState
  <2>2. chunkStatus[c] # "DONE"
    BY <1>1, <2>1 DEF Commit, ProcAt, DeliveryInv, WorkerProcesses
  <2>3. dirty' = dirty \cup {c} /\ changed' = [changed EXCEPT ![c] = TRUE]
    BY <1>1, <2>1, <2>2 DEF Commit
  <2> QED BY <2>3
<1>2. ASSUME \A p \in Processors : ~Commit(p) PROVE DirtyIsChanged'
  <2>1. dirty' \subseteq dirty
    BY <1>2, DirtyWriters DEF AfterJobFinished
  <2>2. UNCHANGED changed
    BY <1>2, RowWriters, QuietSteps DEF InsertChunkRow, Claim, MarkFailed
  <2> QED BY <2>1, <2>2
<1> QED BY <1>1, <1>2

\* A bump leaves nothing dirty.
LEMMA BumpCleans ==
  ASSUME IInv, DirtyIsChanged, AfterJobFinished
  PROVE  dirty' = {}
  BY DEF AfterJobFinished, DirtyIsChanged, IInv, TypeOK

\* Whoever is about to bump does so, or is still about to.
LEMMA BumperBumps ==
  ASSUME BumpsRun, IInv, Quiet, Bumping, ~Bumping', [Next]_vars
  PROVE  AfterJobFinished
<1>1. ASSUME NEW s \in Splitters, SplitAt(s, "bump") PROVE AfterJobFinished
  <2>1. splitters'[s] # splitters[s]
    BY <1>1 DEF Bumping, SplitAt
  <2>2. ~SplitThrow(s)
    BY <1>1 DEF SplitThrow, SplitAt, BumpsRun
  <2>3. SplitBump(s)
    BY <1>1, <2>1, <2>2, SplitterMoves, QuietSteps
    DEF IInv, SplitStep, SplitFault, SplitReceive, SplitClaim, SplitSkip, PutChunk,
        InsertChunkRow, OfferChunk, Checkpoint, Continue, EndOfFile, RejectFile, SplitFinish,
        SplitSettle, SplitAt
  <2> QED BY <2>3 DEF SplitBump
<1>2. ASSUME NEW p \in Processors, ProcAt(p, "bump") PROVE AfterJobFinished
  <2>1. processors'[p] # processors[p]
    BY <1>2 DEF Bumping, ProcAt
  <2>2. ~Throw(p)
    BY <1>2 DEF Throw, ProcAt, BumpsRun
  <2>3. Bump(p)
    BY <1>2, <2>1, <2>2, ProcessorMoves, QuietSteps
    DEF IInv, ProcStep, ProcFault, Receive, Claim, Skip, Commit, MarkFailed, Finish, Settle,
        Park, ProcAt
  <2> QED BY <2>3 DEF Bump
<1>3. ASSUME NEW r \in Clients PROVE ~ClientAt(r, "bump")
  BY DEF Quiet, NoReplayYet, ClientAt
<1> QED BY <1>1, <1>2, <1>3 DEF Bumping

\* Whoever flips the job is about to bump.
LEMMA FlipperBumps ==
  ASSUME IInv, Quiet, [Next]_vars,
         jobStatus' \in {"COMPLETED", "PARTIAL"}, jobStatus' # jobStatus
  PROVE  Bumping'
<1>1. CanFinish
  BY FinalMove
<1>2. ASSUME NEW s \in Splitters, SplitFinish(s) PROVE SplitAt(s, "bump")'
  BY <1>1, <1>2 DEF SplitFinish, SplitGoto, SplitAt, IInv, TypeOK, SplitterState
<1>3. ASSUME NEW p \in Processors, Finish(p) PROVE ProcAt(p, "bump")'
  BY <1>1, <1>3 DEF Finish, ProcGoto, ProcAt, IInv, TypeOK, ProcessorState
<1>4. ASSUME NEW s \in Splitters, SplitClaim(s) \/ EndOfFile(s) \/ RejectFile(s) PROVE FALSE
  BY <1>4 DEF SplitClaim, EndOfFile, RejectFile
<1>5. ASSUME NEW r \in Clients, Upload(r) PROVE FALSE
  BY <1>5 DEF Upload
<1> QED BY <1>2, <1>3, <1>4, <1>5, JobStatusWriters, QuietSteps DEF Bumping

\* Every step keeps a finished job invalidated.
LEMMA StepKeepsInvalidated ==
  ASSUME BumpsRun
  PROVE  /\ IInv /\ Grounded /\ Quiet /\ DeliveryInv /\ OutcomeInv
         /\ DirtyIsChanged /\ FinishedJobIsInvalidated /\ [Next]_vars
         => FinishedJobIsInvalidated'
<1> SUFFICES ASSUME IInv, Grounded, Quiet, DeliveryInv, OutcomeInv, DirtyIsChanged,
                    FinishedJobIsInvalidated, [Next]_vars,
                    jobStatus' \in {"COMPLETED", "PARTIAL"}, ~Bumping'
             PROVE  dirty' = {}
  BY DEF FinishedJobIsInvalidated
<1>1. jobStatus \in {"COMPLETED", "PARTIAL"}
  BY FlipperBumps
<1>2. CASE Bumping
  BY <1>2, BumperBumps, BumpCleans
<1>3. CASE ~Bumping
  <2>1. dirty = {}
    BY <1>1, <1>3 DEF FinishedJobIsInvalidated
  <2>2. ASSUME NEW p \in Processors, Commit(p) PROVE FALSE
    <3>1. PICK c \in Rows : c = processors[p].chunk
      BY <2>2 DEF Grounded, ProcessorHasRow, Commit, ProcAt
    <3>2. Outstanding(c)
      BY <2>2, <3>1 DEF Commit, ProcAt, DeliveryInv, WorkerProcesses, Outstanding
    <3> QED BY <1>1, <3>2 DEF OutcomeInv, FinalIsSettled
  <2> QED BY <2>1, <2>2, DirtyWriters DEF AfterJobFinished
<1> QED BY <1>2, <1>3

\* As long as chunks only fail and are retried, a job that has its final status
\* leaves no price behind an old version: once its finisher has bumped, no
\* category of the job has a change that no bump followed.
THEOREM FinishedJobsAreInvalidated ==
  ASSUME BumpsRun
  PROVE  Spec => []FinishedJobIsInvalidated
<1>1. Init => DirtyIsChanged /\ FinishedJobIsInvalidated
  BY DEF Init, DirtyIsChanged, FinishedJobIsInvalidated
<1>2. ErrorsOnly
  BY DEF BumpsRun
<1>3. Spec => []DirtyIsChanged
  BY <1>1, <1>2, DirtyStaysChanged, PipelineIsAccountedFor, PipelineInvariant, PTL DEF Spec
<1> QED
  BY <1>1, <1>2, <1>3, StepKeepsInvalidated, PipelineIsAccountedFor, PipelineInvariant,
     PipelineIsGrounded, PTL DEF Spec
=============================================================================
