------------------------ MODULE IngestPipelineProofs ------------------------
(***************************************************************************)
(* Proofs about IngestPipeline, for every number of splitters, processors, *)
(* clients, chunks, attempts and faults.                                   *)
(***************************************************************************)
EXTENDS IngestPipeline, TLAPS

(***************************************************************************)
(* The inductive invariant.  CompletionIsNotEarly alone is not inductive:  *)
(* a splitter at the end of the file may declare SPLIT_DONE only because   *)
(* every chunk in front of it has a row, which in turn rests on the        *)
(* checkpoint it resumed from.                                             *)
(***************************************************************************)
SplitterIsCovered ==
  \A s \in Splitters :
    /\ splitters[s].pc \in {"read", "row", "offer", "checkpoint", "pause"} =>
         splitters[s].idx <= Total(file) /\ \A c \in 0 .. splitters[s].idx - 1 : c \in Rows
    /\ splitters[s].pc \in {"row", "offer", "checkpoint"} => splitters[s].idx < Total(file)
    /\ splitters[s].pc \in {"offer", "checkpoint"} => splitters[s].idx \in Rows

CheckpointHasRows ==
  nextChunk <= Total(file) /\ \A c \in 0 .. nextChunk - 1 : c \in Rows

IInv == TypeOK /\ SplitterIsCovered /\ CheckpointHasRows /\ CompletionIsNotEarly

-----------------------------------------------------------------------------
(***************************************************************************)
(* The queue operations keep a queue a queue.                              *)
(***************************************************************************)
\* An empty record is a message record.
LEMMA NoMessageType == MQ!NoMessage \in MQ!Message
  BY DEF MQ!NoMessage, MQ!Message, MQ!MessageState

\* Enqueueing any id leaves a function from the same ids to message records.
LEMMA EnqueueType ==
  ASSUME NEW S, NEW q \in [S -> MQ!Message], NEW id
  PROVE  MQ!Enqueue(q, id) \in [S -> MQ!Message]
  BY DEF MQ!Enqueue, MQ!NoMessage, MQ!Message, MQ!MessageState

\* So does every outcome of a removal.
LEMMA RemovedType ==
  ASSUME NEW S, NEW q \in [S -> MQ!Message], NEW id, NEW r \in MQ!Removed(q, id)
  PROVE  r \in [S -> MQ!Message]
  BY NoMessageType DEF MQ!Removed

\* So does handing a message to a worker.
LEMMA DeliverType ==
  ASSUME NEW S, NEW q \in [S -> MQ!Message], NEW id \in S,
         NEW w \in Splitters \cup Processors
  PROVE  MQ!Deliver(q, id, w) \in [S -> MQ!Message]
  BY DEF MQ!Deliver, MQ!Message, MQ!MessageState

\* So does settling one, either way, and losing its holder.
LEMMA SettleType ==
  ASSUME NEW S, NEW q \in [S -> MQ!Message], NEW id \in S, NEW w
  PROVE  /\ MQ!Complete(q, id, w) \in [S -> MQ!Message]
         /\ MQ!Fail(q, id, w) \in [S -> MQ!Message]
         /\ MQ!Unlock(q, id, w) \in [S -> MQ!Message]
<1>1. q[id] \in MQ!Message
  OBVIOUS
<1>2. [q[id] EXCEPT !.state = "completed", !.holder = NoWorker] \in MQ!Message
  BY <1>1 DEF MQ!Message, MQ!MessageState
<1>3. MQ!Failed(q[id]) \in MQ!Message
  <2>1. q[id].made + 1 \in Nat
    BY <1>1 DEF MQ!Message
  <2> QED
    BY <1>1, <2>1 DEF MQ!Failed, MQ!Message, MQ!MessageState
<1>4. [q[id] EXCEPT !.holder = NoWorker] \in MQ!Message
  BY <1>1 DEF MQ!Message, MQ!MessageState
<1>5. MQ!Complete(q, id, w) \in [S -> MQ!Message]
  BY <1>2 DEF MQ!Complete
<1>6. MQ!Fail(q, id, w) \in [S -> MQ!Message]
  BY <1>3 DEF MQ!Fail
<1>7. MQ!Unlock(q, id, w) \in [S -> MQ!Message]
  BY <1>4 DEF MQ!Unlock
<1> QED
  BY <1>5, <1>6, <1>7

\* So does the stalled check.
LEMMA RedeliverType ==
  ASSUME NEW S, NEW q \in [S -> MQ!Message], NEW id \in S
  PROVE  MQ!Redeliver(q, id) \in [S -> MQ!Message]
<1>1. q[id] \in MQ!Message
  OBVIOUS
<1>2. ASSUME NEW st \in {"failed", "waiting"}
      PROVE  [q[id] EXCEPT !.state = st, !.stalled = TRUE] \in MQ!Message
  BY <1>1 DEF MQ!Message, MQ!MessageState
<1> QED
  BY <1>2 DEF MQ!Redeliver

-----------------------------------------------------------------------------
(***************************************************************************)
(* Facts about the parts of the state.                                     *)
(***************************************************************************)
\* No file has more chunks than the bound.
LEMMA TotalBound ==
  ASSUME NEW f \in Files
  PROVE  Total(f) \in 0 .. MaxChunks
  BY FilesAssumption, MaxChunksAssumption DEF File, Total

\* An idle invocation or client has a record of its type.
LEMMA IdleTypes ==
  /\ IdleSplitter \in SplitterState
  /\ IdleProcessor \in ProcessorState
  /\ IdleClient \in ClientState
  BY MaxChunksAssumption
  DEF IdleSplitter, SplitterState, SplitterPC, SplitId, IdleProcessor, ProcessorState,
      ProcessorPC, Chunk, IdleClient, ClientState, ClientPC, JobStatus

\* Moving a splitter on keeps the splitters' records typed.
LEMMA SplitGotoType ==
  ASSUME TypeOK, NEW s \in Splitters, NEW pc \in SplitterPC, SplitGoto(s, pc)
  PROVE  splitters' \in [Splitters -> SplitterState]
  BY DEF TypeOK, SplitGoto, SplitterState

\* Likewise a processor.
LEMMA ProcGotoType ==
  ASSUME TypeOK, NEW p \in Processors, NEW pc \in ProcessorPC, ProcGoto(p, pc)
  PROVE  processors' \in [Processors -> ProcessorState]
  BY DEF TypeOK, ProcGoto, ProcessorState

\* Likewise a client.
LEMMA ClientGotoType ==
  ASSUME TypeOK, NEW r \in Clients, NEW pc \in ClientPC, ClientGoto(r, pc)
  PROVE  clients' \in [Clients -> ClientState]
  BY DEF TypeOK, ClientGoto, ClientState

\* A replay goes on at one of its own steps with the chunks it has left.
LEMMA ReplayGotoType ==
  ASSUME TypeOK, NEW r \in Clients, NEW todo \in SUBSET Chunk, ReplayGoto(r, todo)
  PROVE  clients' \in [Clients -> ClientState]
<1>1. ReplayNext(clients[r].seen, todo) \in ClientPC
  BY DEF ReplayNext, ClientPC
<1>2. [clients[r] EXCEPT !.pc = ReplayNext(clients[r].seen, todo), !.todo = todo] \in ClientState
  BY <1>1 DEF TypeOK, ClientState
<1> QED
  BY <1>2, IdleTypes DEF TypeOK, ReplayGoto

\* A fault or request taken from the budget leaves a budget.
LEMMA SpendType ==
  ASSUME TypeOK, NEW kind \in FaultKind, Spend(kind)
  PROVE  left' \in [FaultKind -> Nat]
  BY DEF TypeOK, Spend

\* The completion check sets one of the job's states.
LEMMA CompletionType ==
  ASSUME TypeOK, CheckJobCompletion
  PROVE  jobStatus' \in JobStatus
  BY DEF TypeOK, CheckJobCompletion, FinalStatus, JobStatus

-----------------------------------------------------------------------------
(***************************************************************************)
(* Every step keeps the types.                                             *)
(***************************************************************************)
\* A step of a splitter keeps the types.
LEMMA SplitterKeepsTypes ==
  ASSUME IInv, NEW s \in Splitters, SplitStep(s) \/ SplitFault(s)
  PROVE  TypeOK'
<1> USE MaxChunksAssumption
<1> USE DEF IInv, TypeOK, jobVars, chunkVars, queueVars, SplitterPC
<1>1. CASE SplitReceive(s)
  <2>1. PICK m \in SplitId :
          /\ splitQ' = MQ!Deliver(splitQ, m, s)
          /\ splitters' = [splitters EXCEPT
                             ![s] = [IdleSplitter EXCEPT !.pc = "claim", !.msg = m]]
    BY <1>1 DEF SplitReceive
  <2>2. [IdleSplitter EXCEPT !.pc = "claim", !.msg = m] \in SplitterState
    BY IdleTypes DEF SplitterState
  <2> QED
    BY <1>1, <2>1, <2>2, DeliverType DEF SplitReceive
<1>2. CASE SplitClaim(s)
  <2>1. nextChunk \in Nat
    OBVIOUS
  <2>2. [splitters[s] EXCEPT !.pc = "read", !.idx = nextChunk] \in SplitterState
    BY <2>1 DEF SplitterState
  <2> QED
    BY <1>2, <2>2 DEF SplitClaim, JobStatus
<1>3. CASE SplitSkip(s)
  BY <1>3, SplitGotoType DEF SplitSkip
<1>4. CASE PutChunk(s)
  <2>1. splitters[s].idx \in Chunk
    BY <1>4, TotalBound DEF PutChunk, Chunk, SplitterState
  <2> QED
    BY <1>4, <2>1, SplitGotoType DEF PutChunk
<1>5. CASE InsertChunkRow(s)
  BY <1>5, SplitGotoType DEF InsertChunkRow, ChunkStatus
<1>6. CASE OfferChunk(s)
  BY <1>6, SplitGotoType, EnqueueType DEF OfferChunk
<1>7. CASE Checkpoint(s)
  <2> DEFINE c == splitters[s].idx
  <2>1. c \in Nat /\ c < Total(file) /\ Total(file) \in 0 .. MaxChunks
    BY <1>7, TotalBound DEF Checkpoint, SplitAt, SplitterState, SplitterIsCovered
  <2>2. nextChunk' \in 0 .. MaxChunks
    BY <1>7, <2>1 DEF Checkpoint, Greatest
  <2>3. ASSUME NEW pc \in {"read", "pause"}
        PROVE  [splitters[s] EXCEPT !.pc = pc, !.idx = c + 1] \in SplitterState
    <3>1. c + 1 \in Nat /\ splitters[s] \in SplitterState
      BY <2>1
    <3> QED
      BY <3>1 DEF SplitterState
  <2>4. splitters' \in [Splitters -> SplitterState]
    BY <1>7, <2>3 DEF Checkpoint
  <2> QED
    BY <1>7, <2>2, <2>4 DEF Checkpoint
<1>8. CASE Continue(s)
  BY <1>8, SplitGotoType, EnqueueType DEF Continue
<1>9. CASE EndOfFile(s)
  BY <1>9, SplitGotoType DEF EndOfFile, JobStatus
<1>10. CASE RejectFile(s)
  BY <1>10, SplitGotoType DEF RejectFile, JobStatus
<1>11. CASE SplitFinish(s)
  BY <1>11, SplitGotoType, CompletionType DEF SplitFinish
<1>12. CASE SplitBump(s)
  BY <1>12, SplitGotoType DEF SplitBump, AfterJobFinished
<1>13. CASE SplitSettle(s)
  BY <1>13, SettleType, IdleTypes DEF SplitSettle, SplitterState
<1>14. CASE SplitThrow(s)
  <2>1. left' \in [FaultKind -> Nat]
    BY <1>14, SpendType DEF SplitThrow, FaultKind
  <2>2. splitters' \in [Splitters -> SplitterState]
    <3>1. [splitters[s] EXCEPT !.pc = "settle", !.ok = FALSE] \in SplitterState
      BY DEF SplitterState, SplitterPC
    <3>2. splitters' = [splitters EXCEPT ![s] = [splitters[s] EXCEPT !.pc = "settle", !.ok = FALSE]]
      BY <1>14 DEF SplitThrow
    <3> QED BY <3>1, <3>2
  <2> QED BY <1>14, <2>1, <2>2 DEF SplitThrow
<1>15. CASE SplitCrash(s)
  BY <1>15, SpendType, SettleType, IdleTypes DEF SplitCrash, SplitterState, FaultKind
<1>16. CASE SplitPause(s)
  BY <1>16, SpendType, SettleType DEF SplitPause, SplitterState, FaultKind
<1> QED
  BY <1>1, <1>2, <1>3, <1>4, <1>5, <1>6, <1>7, <1>8, <1>9, <1>10, <1>11, <1>12, <1>13, <1>14, <1>15, <1>16 DEF SplitStep, SplitFault

\* A step of a processor keeps the types.
LEMMA ProcessorKeepsTypes ==
  ASSUME IInv, NEW p \in Processors, ProcStep(p) \/ ProcFault(p)
  PROVE  TypeOK'
<1> USE DEF IInv, TypeOK, jobVars, chunkVars, queueVars, ProcessorPC
<1>1. CASE Receive(p)
  <2>1. PICK c \in Chunk :
          /\ chunkQ' = MQ!Deliver(chunkQ, c, p)
          /\ processors' = [processors EXCEPT ![p] = [pc |-> "claim", chunk |-> c, ok |-> TRUE]]
    BY <1>1 DEF Receive
  <2>2. [pc |-> "claim", chunk |-> c, ok |-> TRUE] \in ProcessorState
    BY DEF ProcessorState
  <2> QED
    BY <1>1, <2>1, <2>2, DeliverType DEF Receive
<1>2. CASE Claim(p)
  <2>1. processors[p].chunk \in Chunk
    BY DEF ProcessorState
  <2>2. attempts' \in [Chunk -> Nat]
    BY <1>2, <2>1 DEF Claim
  <2> QED
    BY <1>2, <2>2, ProcGotoType DEF Claim, ChunkStatus
<1>3. CASE Skip(p)
  BY <1>3, ProcGotoType DEF Skip
<1>4. CASE Commit(p)
  <2>1. processors[p].chunk \in Chunk
    BY DEF ProcessorState
  <2>2. /\ chunkStatus' \in [Chunk -> ChunkStatus]
        /\ stale' \in [Chunk -> BOOLEAN]
        /\ changed' \in [Chunk -> BOOLEAN]
        /\ dirty' \subseteq Chunk
    BY <1>4, <2>1 DEF Commit, ChunkStatus
  <2> QED
    BY <1>4, <2>2, ProcGotoType DEF Commit
<1>5. CASE MarkFailed(p)
  <2>1. [processors[p] EXCEPT !.pc = "finish", !.ok = FALSE] \in ProcessorState
    BY DEF ProcessorState
  <2> QED
    BY <1>5, <2>1 DEF MarkFailed, ChunkStatus
<1>6. CASE Finish(p)
  BY <1>6, ProcGotoType, CompletionType DEF Finish
<1>7. CASE Bump(p)
  BY <1>7, ProcGotoType DEF Bump, AfterJobFinished
<1>8. CASE Settle(p)
  <2>1. [processors[p] EXCEPT !.pc = "park"] \in ProcessorState
    BY DEF ProcessorState
  <2>2. processors' \in [Processors -> ProcessorState]
    BY <1>8, <2>1, IdleTypes DEF Settle
  <2>3. processors[p].chunk \in Chunk
    BY DEF ProcessorState
  <2> QED
    BY <1>8, <2>2, <2>3, SettleType DEF Settle
<1>9. CASE Park(p)
  BY <1>9, IdleTypes DEF Park, ProcessorState, ProcAt
<1>10. CASE Throw(p)
  <2>1. ASSUME NEW pc \in {"markFailed", "settle"}
        PROVE  [processors[p] EXCEPT !.pc = pc, !.ok = FALSE] \in ProcessorState
    BY DEF ProcessorState
  <2>2. processors' \in [Processors -> ProcessorState]
    BY <1>10, <2>1 DEF Throw
  <2> QED
    BY <1>10, <2>2, SpendType DEF Throw, FaultKind
<1>11. CASE Crash(p)
  BY <1>11, SpendType, SettleType, IdleTypes DEF Crash, ProcessorState, FaultKind
<1>12. CASE Pause(p)
  BY <1>12, SpendType, SettleType DEF Pause, ProcessorState, FaultKind
<1> QED
  BY <1>1, <1>2, <1>3, <1>4, <1>5, <1>6, <1>7, <1>8, <1>9, <1>10, <1>11,
     <1>12
  DEF ProcStep, ProcFault

\* A step of a client keeps the types.
LEMMA ClientKeepsTypes ==
  ASSUME IInv, NEW r \in Clients, ClientRequest(r) \/ ClientStep(r) \/ ClientFails(r)
  PROVE  TypeOK'
<1> USE MaxChunksAssumption
<1> USE DEF IInv, TypeOK, jobVars, chunkVars, queueVars, ClientPC
<1>1. CASE Upload(r)
  BY <1>1, SpendType, ClientGotoType DEF Upload, JobStatus, FaultKind
<1>2. CASE EnqueueSplit(r)
  BY <1>2, EnqueueType, ClientGotoType DEF EnqueueSplit
<1>3. CASE ReplayFind(r)
  BY <1>3, SpendType DEF ReplayFind, ClientState, SplitId, FaultKind
<1>4. CASE ReplaySelect(r)
  BY <1>4, ReplayGotoType DEF ReplaySelect, Stuck
<1>5. CASE ReplayRemove(r)
  BY <1>5, RemovedType, ClientGotoType DEF ReplayRemove
<1>6. CASE ReplayEnqueue(r)
  BY <1>6, EnqueueType, ClientGotoType DEF ReplayEnqueue
<1>7. CASE ReplayReset(r)
  BY <1>7, ReplayGotoType DEF ReplayReset, ChunkStatus, ClientState
<1>8. CASE ReplaySplitRemove(r)
  BY <1>8, RemovedType, ClientGotoType DEF ReplaySplitRemove
<1>9. CASE ReplaySplitEnqueue(r)
  BY <1>9, EnqueueType, IdleTypes DEF ReplaySplitEnqueue
<1>10. CASE ReplayFlip(r)
  BY <1>10, ClientGotoType DEF ReplayFlip, JobStatus
<1>11. CASE ReplayCheck(r)
  BY <1>11, CompletionType, IdleTypes DEF ReplayCheck, ClientState
<1>12. CASE ReplayBump(r)
  BY <1>12, IdleTypes DEF ReplayBump, AfterJobFinished
<1>13. CASE ClientFails(r)
  BY <1>13, SpendType, IdleTypes DEF ClientFails, FaultKind
<1> QED
  BY <1>1, <1>2, <1>3, <1>4, <1>5, <1>6, <1>7, <1>8, <1>9, <1>10, <1>11,
     <1>12, <1>13
  DEF ClientRequest, ClientStep

\* So does every step, the queues' own and stuttering included.
LEMMA StepKeepsTypes ==
  ASSUME IInv, [Next]_vars
  PROVE  TypeOK'
<1> USE DEF IInv, TypeOK, vars, jobVars, chunkVars, queueVars
<1>1. ASSUME NEW m \in SplitId, SplitRedeliver(m)
      PROVE  TypeOK'
  BY <1>1, RedeliverType DEF SplitRedeliver
<1>2. ASSUME NEW c \in Chunk, ChunkRedeliver(c)
      PROVE  TypeOK'
  BY <1>2, RedeliverType DEF ChunkRedeliver
<1>3. ASSUME NEW c \in Chunk, GoStale(c)
      PROVE  TypeOK'
  BY <1>3 DEF GoStale
<1>4. CASE UNCHANGED vars
  BY <1>4
<1> QED
  BY <1>1, <1>2, <1>3, <1>4, SplitterKeepsTypes, ProcessorKeepsTypes, ClientKeepsTypes DEF Next

-----------------------------------------------------------------------------
(***************************************************************************)
(* What no step may take back, and what a step may do to the job.          *)
(***************************************************************************)
\* A chunk row is never lost, DONE is for good, and attempts only count up.
ChunksGrow ==
  \A c \in Chunk : /\ c \in Rows => c \in Rows'
                   /\ chunkStatus[c] = "DONE" => chunkStatus'[c] = "DONE"
                   /\ attempts'[c] >= attempts[c]

\* Rows stay, whoever steps; and the uploaded file does not change.
LEMMA RowsStay ==
  ASSUME TypeOK, [Next]_vars
  PROVE  ChunksGrow /\ file' = file
<1> USE DEF TypeOK, ChunksGrow, Rows, chunkVars
<1>1. CASE UNCHANGED chunkVars /\ file' = file
  BY <1>1
<1>2. ASSUME NEW s \in Splitters, SplitStep(s) \/ SplitFault(s)
      PROVE  ChunksGrow /\ file' = file
  <2>1. CASE InsertChunkRow(s)
    BY <2>1 DEF InsertChunkRow
  <2> QED
    BY <1>1, <1>2, <2>1
    DEF SplitStep, SplitFault, SplitReceive, SplitClaim, SplitSkip, PutChunk, OfferChunk,
        Checkpoint, Continue, EndOfFile, RejectFile, SplitFinish, SplitBump, SplitSettle,
        SplitThrow, SplitCrash, SplitPause
<1>3. ASSUME NEW p \in Processors, ProcStep(p) \/ ProcFault(p)
      PROVE  ChunksGrow /\ file' = file
  <2>1. CASE Claim(p)
    BY <2>1 DEF Claim, Claimable
  <2>2. CASE Commit(p)
    BY <2>2 DEF Commit
  <2>3. CASE MarkFailed(p)
    BY <2>3 DEF MarkFailed
  <2> QED
    BY <1>1, <1>3, <2>1, <2>2, <2>3
    DEF ProcStep, ProcFault, Receive, Skip, Finish, Bump, Settle, Park, Throw, Crash, Pause
<1>4. ASSUME NEW r \in Clients, ClientRequest(r) \/ ClientStep(r) \/ ClientFails(r)
      PROVE  ChunksGrow /\ file' = file
  <2>1. CASE ReplayReset(r)
    BY <2>1 DEF ReplayReset
  <2> QED
    BY <1>1, <1>4, <2>1
    DEF ClientRequest, ClientStep, ClientFails, Upload, EnqueueSplit, ReplayFind,
        ReplaySelect, ReplayRemove, ReplayEnqueue, ReplaySplitRemove, ReplaySplitEnqueue,
        ReplayFlip, ReplayCheck, ReplayBump
<1>5. ASSUME NEW m \in SplitId, SplitRedeliver(m)
      PROVE  ChunksGrow /\ file' = file
  BY <1>1, <1>5 DEF SplitRedeliver
<1>6. ASSUME NEW c \in Chunk, ChunkRedeliver(c) \/ GoStale(c)
      PROVE  ChunksGrow /\ file' = file
  BY <1>1, <1>6 DEF ChunkRedeliver, GoStale
<1>7. CASE UNCHANGED vars
  BY <1>1, <1>7 DEF vars
<1> QED
  BY <1>2, <1>3, <1>4, <1>5, <1>6, <1>7 DEF Next

\* The moves a job's status may make, each with what the mover knew: an upload
\* or a claim of the split, the end of the file, its rejection, the completion
\* check, and the flip of a replay.
JobMove ==
  \/ jobStatus' = jobStatus
  \/ jobStatus' \in {"PENDING", "SPLITTING"} /\ jobStatus \in {"none", "PENDING", "SPLITTING"}
  \/ jobStatus' = "SPLIT_DONE" /\ jobStatus = "SPLITTING" /\ file.ok /\ FileChunks \subseteq Rows
  \/ jobStatus' = "FAILED" /\ ~file.ok
  \/ jobStatus' = FinalStatus /\ CanFinish /\ UNCHANGED chunkVars
  \/ jobStatus' = "SPLIT_DONE" /\ jobStatus = "PARTIAL"

\* A completion check makes one of these moves.
LEMMA CompletionIsMove ==
  ASSUME CheckJobCompletion, UNCHANGED chunkVars
  PROVE  JobMove
  BY DEF CheckJobCompletion, JobMove

\* Every step makes one of these moves.
LEMMA StepIsMove ==
  ASSUME IInv, [Next]_vars
  PROVE  JobMove
<1>1. CASE UNCHANGED jobStatus
  BY <1>1 DEF JobMove
<1>2. ASSUME NEW s \in Splitters, SplitStep(s) \/ SplitFault(s)
      PROVE  JobMove
  <2>1. CASE SplitClaim(s)
    BY <2>1 DEF SplitClaim, Splittable, JobMove
  <2>2. CASE EndOfFile(s)
    <3>1. FileChunks \subseteq Rows
      <4>1. \A c \in 0 .. splitters[s].idx - 1 : c \in Rows
        BY <2>2 DEF EndOfFile, SplitAt, IInv, SplitterIsCovered
      <4>2. splitters[s].idx \in Nat /\ Total(file) \in Nat
        BY TotalBound, MaxChunksAssumption DEF IInv, TypeOK, SplitterState
      <4> QED
        BY <2>2, <4>1, <4>2 DEF EndOfFile, FileChunks
    <3> QED
      BY <2>2, <3>1 DEF EndOfFile, JobMove
  <2>3. CASE RejectFile(s)
    BY <2>3 DEF RejectFile, JobMove
  <2>4. CASE SplitFinish(s)
    BY <2>4, CompletionIsMove DEF SplitFinish
  <2> QED
    BY <1>1, <1>2, <2>1, <2>2, <2>3, <2>4
    DEF SplitStep, SplitFault, SplitReceive, SplitSkip, PutChunk, InsertChunkRow, OfferChunk,
        Checkpoint, Continue, SplitBump, SplitSettle, SplitThrow, SplitCrash, SplitPause,
        jobVars
<1>3. ASSUME NEW p \in Processors, ProcStep(p) \/ ProcFault(p)
      PROVE  JobMove
  <2>1. CASE Finish(p)
    BY <2>1, CompletionIsMove DEF Finish
  <2> QED
    BY <1>1, <1>3, <2>1
    DEF ProcStep, ProcFault, Receive, Claim, Skip, Commit, MarkFailed, Bump, Settle, Park,
        Throw, Crash, Pause, jobVars
<1>4. ASSUME NEW r \in Clients, ClientRequest(r) \/ ClientStep(r) \/ ClientFails(r)
      PROVE  JobMove
  <2>1. CASE Upload(r)
    BY <2>1 DEF Upload, JobMove
  <2>2. CASE ReplayFlip(r)
    BY <2>2 DEF ReplayFlip, JobMove
  <2>3. CASE ReplayCheck(r)
    BY <2>3, CompletionIsMove DEF ReplayCheck
  <2> QED
    BY <1>1, <1>4, <2>1, <2>2, <2>3
    DEF ClientRequest, ClientStep, ClientFails, EnqueueSplit, ReplayFind, ReplaySelect,
        ReplayRemove, ReplayEnqueue, ReplayReset, ReplaySplitRemove, ReplaySplitEnqueue,
        ReplayBump, jobVars
<1>5. ASSUME NEW m \in SplitId, SplitRedeliver(m)
      PROVE  JobMove
  BY <1>1, <1>5 DEF SplitRedeliver, jobVars
<1>6. ASSUME NEW c \in Chunk, ChunkRedeliver(c) \/ GoStale(c)
      PROVE  JobMove
  BY <1>1, <1>6 DEF ChunkRedeliver, GoStale, jobVars
<1>7. CASE UNCHANGED vars
  BY <1>1, <1>7 DEF vars, jobVars
<1> QED
  BY <1>2, <1>3, <1>4, <1>5, <1>6, <1>7 DEF Next

\* The two halves of CompletionIsNotEarly survive every such move: a finisher
\* that finds no chunk outstanding and none FAILED has found all of them DONE.
LEMMA CompletionStaysRight ==
  ASSUME IInv, [Next]_vars
  PROVE  CompletionIsNotEarly'
<1>1. ChunksGrow /\ file' = file /\ JobMove
  BY RowsStay, StepIsMove DEF IInv
<1>2. FileChunks \subseteq Chunk
  BY TotalBound, MaxChunksAssumption DEF IInv, TypeOK, FileChunks, Chunk
<1>3. \A c \in FileChunks : c \in Rows => c \in Rows'
  BY <1>1, <1>2 DEF ChunksGrow
<1>4. FileChunks' = FileChunks
  BY <1>1 DEF FileChunks, Total
<1>5. ASSUME jobStatus' \in {"SPLIT_DONE", "COMPLETED", "PARTIAL"}
      PROVE  file.ok /\ FileChunks \subseteq Rows
  BY <1>1, <1>5 DEF JobMove, IInv, CompletionIsNotEarly, CanFinish
<1>6. ASSUME jobStatus' = "COMPLETED"
      PROVE  \A c \in FileChunks : chunkStatus'[c] = "DONE"
  <2>1. CASE jobStatus = "COMPLETED"
    BY <1>1, <1>2, <2>1 DEF IInv, CompletionIsNotEarly, ChunksGrow
  <2>2. CASE jobStatus # "COMPLETED"
    <3>1. jobStatus' = FinalStatus /\ CanFinish /\ UNCHANGED chunkStatus
      BY <1>1, <1>6, <2>2 DEF JobMove, chunkVars
    <3>2. FileChunks \subseteq Rows
      BY <3>1 DEF CanFinish, IInv, CompletionIsNotEarly
    <3>3. \A c \in Rows : chunkStatus[c] = "DONE"
      BY <1>6, <3>1 DEF FinalStatus, CanFinish, Outstanding
    <3> QED
      BY <3>1, <3>2, <3>3
  <2> QED
    BY <2>1, <2>2
<1> QED
  BY <1>1, <1>3, <1>4, <1>5, <1>6 DEF CompletionIsNotEarly

-----------------------------------------------------------------------------
(***************************************************************************)
(* What the splitter and the checkpoint rest on.                           *)
(***************************************************************************)
\* What SplitterIsCovered says of one splitter.
Covered(s) ==
  /\ splitters[s].pc \in {"read", "row", "offer", "checkpoint", "pause"} =>
       splitters[s].idx <= Total(file) /\ \A c \in 0 .. splitters[s].idx - 1 : c \in Rows
  /\ splitters[s].pc \in {"row", "offer", "checkpoint"} => splitters[s].idx < Total(file)
  /\ splitters[s].pc \in {"offer", "checkpoint"} => splitters[s].idx \in Rows

\* A splitter that does not move stays covered.
LEMMA RestIsCovered ==
  ASSUME IInv, [Next]_vars, NEW s \in Splitters, splitters'[s] = splitters[s]
  PROVE  Covered(s)'
<1>1. ChunksGrow /\ file' = file
  BY RowsStay DEF IInv
<1>2. Covered(s)
  BY DEF IInv, SplitterIsCovered, Covered
<1>3. \A c \in Rows : c \in Rows'
  BY <1>1 DEF ChunksGrow, Rows
<1>4. splitters[s].idx \in Nat
  BY DEF IInv, TypeOK, SplitterState
<1> QED
  BY <1>1, <1>2, <1>3, <1>4 DEF Covered, Total

\* A splitter that moves is covered where it arrives.
LEMMA MoverIsCovered ==
  ASSUME IInv, [Next]_vars, NEW s \in Splitters, SplitStep(s) \/ SplitFault(s)
  PROVE  Covered(s)'
<1>1. ChunksGrow /\ file' = file
  BY RowsStay DEF IInv
<1>2. Covered(s)
  BY DEF IInv, SplitterIsCovered, Covered
<1>3. \A c \in Rows : c \in Rows'
  BY <1>1 DEF ChunksGrow, Rows
<1>4. splitters \in [Splitters -> SplitterState] /\ splitters[s].idx \in Nat
  BY DEF IInv, TypeOK, SplitterState
<1>5. Total(file)' = Total(file) /\ Total(file) \in 0 .. MaxChunks
  BY <1>1, TotalBound DEF Total, IInv, TypeOK
<1>6. CASE splitters'[s].pc \in {"idle", "claim", "finish", "bump", "settle"}
  BY <1>6 DEF Covered
<1>7. CASE SplitClaim(s)
  <2>1. splitters'[s] = [splitters[s] EXCEPT !.pc = "read", !.idx = nextChunk]
    BY <1>4, <1>7 DEF SplitClaim
  <2>2. splitters'[s].pc = "read" /\ splitters'[s].idx = nextChunk
    BY <1>4, <2>1 DEF SplitterState
  <2> QED
    BY <1>3, <1>5, <2>2 DEF Covered, IInv, CheckpointHasRows
<1>8. CASE PutChunk(s)
  BY <1>2, <1>3, <1>4, <1>5, <1>8 DEF PutChunk, SplitAt, SplitGoto, SplitterState, Covered
<1>9. CASE InsertChunkRow(s)
  <2>1. splitters'[s].pc = "offer" /\ splitters'[s].idx = splitters[s].idx
    BY <1>4, <1>9 DEF InsertChunkRow, SplitGoto, SplitterState
  <2>2. splitters[s].idx \in Chunk
    BY <1>2, <1>4, <1>5, <1>9, MaxChunksAssumption DEF InsertChunkRow, SplitAt, Covered, Chunk
  <2>3. splitters[s].idx \in Rows'
    BY <1>9, <2>2 DEF InsertChunkRow, Rows, IInv, TypeOK
  <2> QED
    BY <1>2, <1>3, <1>5, <1>9, <2>1, <2>3 DEF InsertChunkRow, SplitAt, Covered
<1>10. CASE OfferChunk(s)
  BY <1>2, <1>3, <1>4, <1>5, <1>10 DEF OfferChunk, SplitAt, SplitGoto, SplitterState, Covered
<1>11. CASE Checkpoint(s)
  <2> DEFINE i == splitters[s].idx
  <2>1. splitters'[s].pc \in {"read", "pause"} /\ splitters'[s].idx = i + 1
    BY <1>4, <1>11 DEF Checkpoint, SplitterState
  <2>2. i \in Rows /\ i < Total(file) /\ \A c \in 0 .. i - 1 : c \in Rows
    BY <1>2, <1>11 DEF Checkpoint, SplitAt, Covered
  <2>3. \A c \in 0 .. i : c \in Rows'
    BY <1>3, <1>4, <2>2
  <2> QED
    BY <1>4, <1>5, <2>1, <2>2, <2>3 DEF Covered
<1>12. CASE SplitPause(s)
  BY <1>12, RestIsCovered DEF SplitPause
<1>13. CASE SplitSkip(s) \/ Continue(s) \/ EndOfFile(s) \/ RejectFile(s) \/ SplitBump(s)
  BY <1>4, <1>6, <1>13
  DEF SplitSkip, Continue, EndOfFile, RejectFile, SplitBump, SplitGoto, SplitterState
<1>14. CASE SplitFinish(s)
  BY <1>4, <1>6, <1>14 DEF SplitFinish, SplitGoto, SplitterState
<1>15. CASE SplitSettle(s) \/ SplitCrash(s)
  BY <1>4, <1>6, <1>15 DEF SplitSettle, SplitCrash, IdleSplitter
<1>16. CASE SplitReceive(s)
  <2>1. splitters'[s].pc = "claim"
    BY <1>4, <1>16 DEF SplitReceive, IdleSplitter
  <2> QED
    BY <1>6, <2>1
<1>17. CASE SplitThrow(s)
  BY <1>4, <1>6, <1>17 DEF SplitThrow, SplitterState
<1> QED
  BY <1>7, <1>8, <1>9, <1>10, <1>11, <1>12, <1>13, <1>14, <1>15, <1>16, <1>17
  DEF SplitStep, SplitFault

\* Hence all of them are, after every step.
LEMMA SplittersStayCovered ==
  ASSUME IInv, [Next]_vars
  PROVE  SplitterIsCovered'
<1>1. CASE UNCHANGED splitters
  BY <1>1, RestIsCovered DEF SplitterIsCovered, Covered
<1>2. ASSUME NEW s \in Splitters, SplitStep(s) \/ SplitFault(s)
      PROVE  SplitterIsCovered'
  <2>1. ASSUME NEW t \in Splitters, t # s
        PROVE  splitters'[t] = splitters[t]
    BY <1>2, <2>1
    DEF SplitStep, SplitFault, SplitReceive, SplitClaim, SplitSkip, PutChunk, InsertChunkRow,
        OfferChunk, Checkpoint, Continue, EndOfFile, RejectFile, SplitFinish, SplitBump,
        SplitSettle, SplitThrow, SplitCrash, SplitPause, SplitGoto, IInv, TypeOK
  <2>2. \A t \in Splitters : Covered(t)'
    BY <1>2, <2>1, RestIsCovered, MoverIsCovered
  <2> QED
    BY <2>2 DEF SplitterIsCovered, Covered
<1>3. ASSUME NEW p \in Processors, ProcStep(p) \/ ProcFault(p)
      PROVE  UNCHANGED splitters
  BY <1>3
  DEF ProcStep, ProcFault, Receive, Claim, Skip, Commit, MarkFailed, Finish, Bump, Settle,
      Park, Throw, Crash, Pause
<1>4. ASSUME NEW r \in Clients, ClientRequest(r) \/ ClientStep(r) \/ ClientFails(r)
      PROVE  UNCHANGED splitters
  BY <1>4
  DEF ClientRequest, ClientStep, ClientFails, Upload, EnqueueSplit, ReplayFind, ReplaySelect,
      ReplayRemove, ReplayEnqueue, ReplayReset, ReplaySplitRemove, ReplaySplitEnqueue,
      ReplayFlip, ReplayCheck, ReplayBump
<1> QED
  BY <1>1, <1>2, <1>3, <1>4
  DEF Next, vars, SplitRedeliver, ChunkRedeliver, GoStale

\* A step leaves the checkpoint alone, or is a splitter's own checkpoint.
LEMMA CheckpointMove ==
  ASSUME [Next]_vars
  PROVE  UNCHANGED nextChunk \/ \E s \in Splitters : Checkpoint(s)
<1>1. ASSUME NEW s \in Splitters, SplitStep(s) \/ SplitFault(s)
      PROVE  UNCHANGED nextChunk \/ Checkpoint(s)
  BY <1>1
  DEF SplitStep, SplitFault, SplitReceive, SplitClaim, SplitSkip, PutChunk, InsertChunkRow,
      OfferChunk, Continue, EndOfFile, RejectFile, SplitFinish, SplitBump, SplitSettle,
      SplitThrow, SplitCrash, SplitPause, jobVars
<1>2. ASSUME NEW p \in Processors, ProcStep(p) \/ ProcFault(p)
      PROVE  UNCHANGED nextChunk
  BY <1>2
  DEF ProcStep, ProcFault, Receive, Claim, Skip, Commit, MarkFailed, Finish, Bump, Settle,
      Park, Throw, Crash, Pause, jobVars
<1>3. ASSUME NEW r \in Clients, ClientRequest(r) \/ ClientStep(r) \/ ClientFails(r)
      PROVE  UNCHANGED nextChunk
  BY <1>3
  DEF ClientRequest, ClientStep, ClientFails, Upload, EnqueueSplit, ReplayFind, ReplaySelect,
      ReplayRemove, ReplayEnqueue, ReplayReset, ReplaySplitRemove, ReplaySplitEnqueue,
      ReplayFlip, ReplayCheck, ReplayBump, jobVars
<1> QED
  BY <1>1, <1>2, <1>3 DEF Next, vars, SplitRedeliver, ChunkRedeliver, GoStale, jobVars

\* The checkpoint never goes back and only ever moves past chunks with rows.
LEMMA CheckpointStaysRight ==
  ASSUME IInv, [Next]_vars
  PROVE  CheckpointHasRows' /\ nextChunk' >= nextChunk
<1>1. ChunksGrow /\ file' = file
  BY RowsStay DEF IInv
<1>2. \A c \in Rows : c \in Rows'
  BY <1>1 DEF ChunksGrow, Rows
<1>3. nextChunk \in Nat /\ Total(file)' = Total(file) /\ Total(file) \in Nat
  BY <1>1, TotalBound, MaxChunksAssumption DEF IInv, TypeOK, Total
<1>4. CASE UNCHANGED nextChunk
  BY <1>2, <1>3, <1>4 DEF IInv, CheckpointHasRows
<1>5. ASSUME NEW s \in Splitters, Checkpoint(s)
      PROVE  CheckpointHasRows' /\ nextChunk' >= nextChunk
  <2> DEFINE i == splitters[s].idx
  <2>1. i \in Nat /\ i < Total(file) /\ i \in Rows /\ \A c \in 0 .. i - 1 : c \in Rows
    BY <1>5 DEF Checkpoint, SplitAt, IInv, SplitterIsCovered, TypeOK, SplitterState
  <2>2. nextChunk' \in {nextChunk, i + 1} /\ nextChunk' >= nextChunk
    BY <1>3, <1>5, <2>1 DEF Checkpoint, Greatest
  <2>3. \A c \in 0 .. i : c \in Rows'
    BY <1>2, <2>1
  <2>4. CASE nextChunk' = nextChunk
    BY <1>2, <1>3, <2>4 DEF IInv, CheckpointHasRows
  <2>5. CASE nextChunk' = i + 1
    <3>1. nextChunk' - 1 = i
      BY <2>1, <2>5
    <3> QED
      BY <1>3, <2>1, <2>2, <2>3, <2>5, <3>1 DEF CheckpointHasRows
  <2> QED
    BY <2>2, <2>4, <2>5
<1> QED
  BY <1>4, <1>5, CheckpointMove

-----------------------------------------------------------------------------
(***************************************************************************)
(* The theorems.                                                           *)
(***************************************************************************)
\* The invariant holds at the start.
LEMMA InitIsSafe == Init => IInv
<1> SUFFICES ASSUME Init PROVE IInv
  OBVIOUS
<1>1. TypeOK
  BY IdleTypes, NoMessageType, FaultsAssumption, MaxChunksAssumption
  DEF Init, TypeOK, JobStatus, ChunkStatus
<1>2. Total(file) \in Nat
  BY TotalBound, MaxChunksAssumption DEF Init
<1>3. SplitterIsCovered /\ CheckpointHasRows /\ CompletionIsNotEarly
  BY <1>2 DEF Init, SplitterIsCovered, CheckpointHasRows, CompletionIsNotEarly, IdleSplitter
<1> QED
  BY <1>1, <1>3 DEF IInv

\* Every step keeps it.
LEMMA StepIsSafe == IInv /\ [Next]_vars => IInv'
  BY StepKeepsTypes, SplittersStayCovered, CheckpointStaysRight, CompletionStaysRight DEF IInv

\* Every reachable state of the pipeline satisfies the inductive invariant.
THEOREM PipelineInvariant == Spec => []IInv
  BY InitIsSafe, StepIsSafe, PTL DEF Spec

\* Every reachable state of the pipeline is well typed: in particular no
\* splitter, however it was resumed, writes a chunk past the end of its file.
THEOREM PipelineTypes == Spec => []TypeOK
<1>1. IInv => TypeOK
  BY DEF IInv
<1> QED
  BY <1>1, PipelineInvariant, PTL

\* The derived completion check is never early, whatever crashes, lapsed locks,
\* redeliveries, retries and replays happen: a job past its split has a row for
\* every chunk of its file, and a COMPLETED job has every chunk DONE.
THEOREM CompletionNeverEarly == Spec => []CompletionIsNotEarly
<1>1. IInv => CompletionIsNotEarly
  BY DEF IInv
<1> QED
  BY <1>1, PipelineInvariant, PTL

\* No step takes back finished work.
THEOREM FinishedWorkKept == Spec => FinishedWorkIsKept
<1> DEFINE Kept == /\ jobStatus = "COMPLETED" => jobStatus' = "COMPLETED"
                   /\ jobStatus = "PARTIAL" => jobStatus' \in {"PARTIAL", "SPLIT_DONE"}
                   /\ nextChunk' >= nextChunk
                   /\ \A c \in Chunk : /\ chunkStatus[c] = "DONE" => chunkStatus'[c] = "DONE"
                                       /\ attempts'[c] >= attempts[c]
<1>1. ASSUME IInv, [Next]_vars
      PROVE  Kept
  <2>1. ChunksGrow /\ nextChunk' >= nextChunk /\ JobMove
    BY <1>1, RowsStay, CheckpointStaysRight, StepIsMove DEF IInv
  <2>2. jobStatus \in {"COMPLETED", "PARTIAL"} => file.ok
    BY <1>1 DEF IInv, CompletionIsNotEarly
  <2> QED
    BY <2>1, <2>2 DEF ChunksGrow, JobMove, CanFinish
<1>2. IInv /\ [Next]_vars => [Kept]_vars
  BY <1>1
<1>3. Spec => [][Kept]_vars
  BY <1>2, PipelineInvariant, PTL DEF Spec
<1> QED
  BY <1>3 DEF FinishedWorkIsKept
=============================================================================
