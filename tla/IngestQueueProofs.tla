-------------------------- MODULE IngestQueueProofs --------------------------
(***************************************************************************)
(* Proofs about the queues of IngestPipeline: what a message rests on,     *)
(* what the checkpoint lets a resumed splitter skip, who is at work on a   *)
(* chunk, and where an unfinished split is to be found.                    *)
(***************************************************************************)
EXTENDS IngestPipelineProofs, WellFoundedInduction, FiniteSetTheorems

-----------------------------------------------------------------------------
(***************************************************************************)
(* Who writes what.  Every later proof splits on the writers of a variable *)
(* and leaves the other actions to these lemmas.                           *)
(***************************************************************************)
\* An invocation of the splitter moves by its own steps only.
LEMMA SplitterMoves ==
  ASSUME TypeOK, [Next]_vars, NEW s \in Splitters
  PROVE  splitters'[s] = splitters[s] \/ SplitStep(s) \/ SplitFault(s)
<1>1. ASSUME NEW t \in Splitters, SplitStep(t) \/ SplitFault(t), t # s
      PROVE  splitters'[s] = splitters[s]
  BY <1>1
  DEF SplitStep, SplitFault, SplitReceive, SplitClaim, SplitSkip, PutChunk, InsertChunkRow,
      OfferChunk, Checkpoint, Continue, EndOfFile, RejectFile, SplitFinish, SplitBump,
      SplitSettle, SplitThrow, SplitCrash, SplitPause, SplitGoto, TypeOK
<1>2. ASSUME NEW p \in Processors, ProcStep(p) \/ ProcFault(p)
      PROVE  UNCHANGED splitters
  BY <1>2
  DEF ProcStep, ProcFault, Receive, Claim, Skip, Commit, MarkFailed, Finish, Bump, Settle,
      Park, Throw, Crash, Pause
<1>3. ASSUME NEW r \in Clients, ClientRequest(r) \/ ClientStep(r) \/ ClientFails(r)
      PROVE  UNCHANGED splitters
  BY <1>3
  DEF ClientRequest, ClientStep, ClientFails, Upload, EnqueueSplit, ReplayFind, ReplaySelect,
      ReplayRemove, ReplayEnqueue, ReplayReset, ReplaySplitRemove, ReplaySplitEnqueue,
      ReplayFlip, ReplayCheck, ReplayBump
<1> QED
  BY <1>1, <1>2, <1>3 DEF Next, vars, SplitRedeliver, ChunkRedeliver, GoStale

\* So does an invocation of the processor.
LEMMA ProcessorMoves ==
  ASSUME TypeOK, [Next]_vars, NEW p \in Processors
  PROVE  processors'[p] = processors[p] \/ ProcStep(p) \/ ProcFault(p)
<1>1. ASSUME NEW q \in Processors, ProcStep(q) \/ ProcFault(q), q # p
      PROVE  processors'[p] = processors[p]
  BY <1>1
  DEF ProcStep, ProcFault, Receive, Claim, Skip, Commit, MarkFailed, Finish, Bump, Settle,
      Park, Throw, Crash, Pause, ProcGoto, TypeOK
<1>2. ASSUME NEW s \in Splitters, SplitStep(s) \/ SplitFault(s)
      PROVE  UNCHANGED processors
  BY <1>2
  DEF SplitStep, SplitFault, SplitReceive, SplitClaim, SplitSkip, PutChunk, InsertChunkRow,
      OfferChunk, Checkpoint, Continue, EndOfFile, RejectFile, SplitFinish, SplitBump,
      SplitSettle, SplitThrow, SplitCrash, SplitPause
<1>3. ASSUME NEW r \in Clients, ClientRequest(r) \/ ClientStep(r) \/ ClientFails(r)
      PROVE  UNCHANGED processors
  BY <1>3
  DEF ClientRequest, ClientStep, ClientFails, Upload, EnqueueSplit, ReplayFind, ReplaySelect,
      ReplayRemove, ReplayEnqueue, ReplayReset, ReplaySplitRemove, ReplaySplitEnqueue,
      ReplayFlip, ReplayCheck, ReplayBump
<1> QED
  BY <1>1, <1>2, <1>3 DEF Next, vars, SplitRedeliver, ChunkRedeliver, GoStale

\* So does a request of the API.
LEMMA ClientMoves ==
  ASSUME TypeOK, [Next]_vars, NEW r \in Clients
  PROVE  clients'[r] = clients[r] \/ ClientRequest(r) \/ ClientStep(r) \/ ClientFails(r)
<1>1. ASSUME NEW q \in Clients, ClientRequest(q) \/ ClientStep(q) \/ ClientFails(q), q # r
      PROVE  clients'[r] = clients[r]
  BY <1>1
  DEF ClientRequest, ClientStep, ClientFails, Upload, EnqueueSplit, ReplayFind, ReplaySelect,
      ReplayRemove, ReplayEnqueue, ReplayReset, ReplaySplitRemove, ReplaySplitEnqueue,
      ReplayFlip, ReplayCheck, ReplayBump, ClientGoto, ReplayGoto, TypeOK
<1>2. ASSUME NEW s \in Splitters, SplitStep(s) \/ SplitFault(s)
      PROVE  UNCHANGED clients
  BY <1>2
  DEF SplitStep, SplitFault, SplitReceive, SplitClaim, SplitSkip, PutChunk, InsertChunkRow,
      OfferChunk, Checkpoint, Continue, EndOfFile, RejectFile, SplitFinish, SplitBump,
      SplitSettle, SplitThrow, SplitCrash, SplitPause
<1>3. ASSUME NEW p \in Processors, ProcStep(p) \/ ProcFault(p)
      PROVE  UNCHANGED clients
  BY <1>3
  DEF ProcStep, ProcFault, Receive, Claim, Skip, Commit, MarkFailed, Finish, Bump, Settle,
      Park, Throw, Crash, Pause
<1> QED
  BY <1>1, <1>2, <1>3 DEF Next, vars, SplitRedeliver, ChunkRedeliver, GoStale

\* The chunk queue: offers, the processors' own deliveries, replays, the stalled check.
LEMMA ChunkQueueWriters ==
  ASSUME [Next]_vars
  PROVE  \/ UNCHANGED chunkQ
         \/ \E s \in Splitters : OfferChunk(s)
         \/ \E p \in Processors : Receive(p) \/ Settle(p) \/ Crash(p) \/ Pause(p)
         \/ \E r \in Clients : ReplayRemove(r) \/ ReplayEnqueue(r)
         \/ \E c \in Chunk : ChunkRedeliver(c)
<1>1. ASSUME NEW s \in Splitters, SplitStep(s) \/ SplitFault(s)
      PROVE  UNCHANGED chunkQ \/ OfferChunk(s)
  BY <1>1
  DEF SplitStep, SplitFault, SplitReceive, SplitClaim, SplitSkip, PutChunk, InsertChunkRow,
      Checkpoint, Continue, EndOfFile, RejectFile, SplitFinish, SplitBump, SplitSettle,
      SplitThrow, SplitCrash, SplitPause, queueVars
<1>2. ASSUME NEW p \in Processors, ProcStep(p) \/ ProcFault(p)
      PROVE  UNCHANGED chunkQ \/ Receive(p) \/ Settle(p) \/ Crash(p) \/ Pause(p)
  BY <1>2
  DEF ProcStep, ProcFault, Claim, Skip, Commit, MarkFailed, Finish, Bump, Park, Throw, queueVars
<1>3. ASSUME NEW r \in Clients, ClientRequest(r) \/ ClientStep(r) \/ ClientFails(r)
      PROVE  UNCHANGED chunkQ \/ ReplayRemove(r) \/ ReplayEnqueue(r)
  BY <1>3
  DEF ClientRequest, ClientStep, ClientFails, Upload, EnqueueSplit, ReplayFind, ReplaySelect,
      ReplayReset, ReplaySplitRemove, ReplaySplitEnqueue, ReplayFlip, ReplayCheck,
      ReplayBump, queueVars
<1> QED
  BY <1>1, <1>2, <1>3 DEF Next, vars, SplitRedeliver, GoStale, queueVars

\* The split queue: likewise.
LEMMA SplitQueueWriters ==
  ASSUME [Next]_vars
  PROVE  \/ UNCHANGED splitQ
         \/ \E s \in Splitters : \/ SplitReceive(s) \/ Continue(s) \/ SplitSettle(s)
                                 \/ SplitCrash(s) \/ SplitPause(s)
         \/ \E r \in Clients : EnqueueSplit(r) \/ ReplaySplitRemove(r) \/ ReplaySplitEnqueue(r)
         \/ \E m \in SplitId : SplitRedeliver(m)
<1>1. ASSUME NEW s \in Splitters, SplitStep(s) \/ SplitFault(s)
      PROVE  \/ UNCHANGED splitQ
             \/ SplitReceive(s) \/ Continue(s) \/ SplitSettle(s) \/ SplitCrash(s) \/ SplitPause(s)
  BY <1>1
  DEF SplitStep, SplitFault, SplitClaim, SplitSkip, PutChunk, InsertChunkRow, OfferChunk,
      Checkpoint, EndOfFile, RejectFile, SplitFinish, SplitBump, SplitThrow, queueVars
<1>2. ASSUME NEW p \in Processors, ProcStep(p) \/ ProcFault(p)
      PROVE  UNCHANGED splitQ
  BY <1>2
  DEF ProcStep, ProcFault, Receive, Claim, Skip, Commit, MarkFailed, Finish, Bump, Settle,
      Park, Throw, Crash, Pause, queueVars
<1>3. ASSUME NEW r \in Clients, ClientRequest(r) \/ ClientStep(r) \/ ClientFails(r)
      PROVE  UNCHANGED splitQ \/ EnqueueSplit(r) \/ ReplaySplitRemove(r) \/ ReplaySplitEnqueue(r)
  BY <1>3
  DEF ClientRequest, ClientStep, ClientFails, Upload, ReplayFind, ReplaySelect, ReplayRemove,
      ReplayEnqueue, ReplayReset, ReplayFlip, ReplayCheck, ReplayBump, queueVars
<1> QED
  BY <1>1, <1>2, <1>3 DEF Next, vars, ChunkRedeliver, GoStale, queueVars

\* The chunk rows, their staleness apart.
LEMMA RowWriters ==
  ASSUME [Next]_vars
  PROVE  \/ UNCHANGED <<chunkStatus, attempts, changed>>
         \/ \E s \in Splitters : InsertChunkRow(s)
         \/ \E p \in Processors : Claim(p) \/ Commit(p) \/ MarkFailed(p)
         \/ \E r \in Clients : ReplayReset(r)
<1>1. ASSUME NEW s \in Splitters, SplitStep(s) \/ SplitFault(s)
      PROVE  UNCHANGED chunkVars \/ InsertChunkRow(s)
  BY <1>1
  DEF SplitStep, SplitFault, SplitReceive, SplitClaim, SplitSkip, PutChunk, OfferChunk,
      Checkpoint, Continue, EndOfFile, RejectFile, SplitFinish, SplitBump, SplitSettle,
      SplitThrow, SplitCrash, SplitPause
<1>2. ASSUME NEW p \in Processors, ProcStep(p) \/ ProcFault(p)
      PROVE  UNCHANGED chunkVars \/ Claim(p) \/ Commit(p) \/ MarkFailed(p)
  BY <1>2
  DEF ProcStep, ProcFault, Receive, Skip, Finish, Bump, Settle, Park, Throw, Crash, Pause
<1>3. ASSUME NEW r \in Clients, ClientRequest(r) \/ ClientStep(r) \/ ClientFails(r)
      PROVE  UNCHANGED chunkVars \/ ReplayReset(r)
  BY <1>3
  DEF ClientRequest, ClientStep, ClientFails, Upload, EnqueueSplit, ReplayFind, ReplaySelect,
      ReplayRemove, ReplayEnqueue, ReplaySplitRemove, ReplaySplitEnqueue, ReplayFlip,
      ReplayCheck, ReplayBump
<1> QED
  BY <1>1, <1>2, <1>3 DEF Next, vars, chunkVars, SplitRedeliver, ChunkRedeliver, GoStale

\* The chunk files.
LEMMA FileWriters ==
  ASSUME [Next]_vars
  PROVE  UNCHANGED chunkFiles \/ \E s \in Splitters : PutChunk(s)
<1>1. ASSUME NEW s \in Splitters, SplitStep(s) \/ SplitFault(s)
      PROVE  UNCHANGED chunkFiles \/ PutChunk(s)
  BY <1>1
  DEF SplitStep, SplitFault, SplitReceive, SplitClaim, SplitSkip, InsertChunkRow, OfferChunk,
      Checkpoint, Continue, EndOfFile, RejectFile, SplitFinish, SplitBump, SplitSettle,
      SplitThrow, SplitCrash, SplitPause
<1>2. ASSUME NEW p \in Processors, ProcStep(p) \/ ProcFault(p)
      PROVE  UNCHANGED chunkFiles
  BY <1>2
  DEF ProcStep, ProcFault, Receive, Claim, Skip, Commit, MarkFailed, Finish, Bump, Settle,
      Park, Throw, Crash, Pause
<1>3. ASSUME NEW r \in Clients, ClientRequest(r) \/ ClientStep(r) \/ ClientFails(r)
      PROVE  UNCHANGED chunkFiles
  BY <1>3
  DEF ClientRequest, ClientStep, ClientFails, Upload, EnqueueSplit, ReplayFind, ReplaySelect,
      ReplayRemove, ReplayEnqueue, ReplayReset, ReplaySplitRemove, ReplaySplitEnqueue,
      ReplayFlip, ReplayCheck, ReplayBump
<1> QED
  BY <1>1, <1>2, <1>3 DEF Next, vars, SplitRedeliver, ChunkRedeliver, GoStale

-----------------------------------------------------------------------------
(***************************************************************************)
(* What a message rests on.  A row is inserted after its file is put, a    *)
(* message offered after its row is inserted, and a replay offers only     *)
(* messages of chunks it found rows of; rows and files are never deleted.  *)
(***************************************************************************)
SplitterHasFile ==
  \A s \in Splitters : splitters[s].pc \in {"row", "offer", "checkpoint"} =>
                         splitters[s].idx \in chunkFiles

ReplayIsOfRows ==
  \A r \in Clients : /\ clients[r].todo \subseteq Rows
                     /\ clients[r].pc \in {"remove", "enqueue", "reset"} => clients[r].todo # {}

ProcessorHasRow == \A p \in Processors : processors[p].pc # "idle" => processors[p].chunk \in Rows

RowsHaveFiles == Rows \subseteq chunkFiles

MessagesHaveRows == \A c \in Chunk : chunkQ[c].state # "absent" => c \in Rows

Grounded ==
  SplitterHasFile /\ ReplayIsOfRows /\ ProcessorHasRow /\ RowsHaveFiles /\ MessagesHaveRows

\* A replay that has chunks left is at one of them.
LEMMA CurrentIsTodo ==
  ASSUME TypeOK, ReplayIsOfRows, NEW r \in Clients,
         clients[r].pc \in {"remove", "enqueue", "reset"}
  PROVE  Current(r) \in clients[r].todo /\ Current(r) \in Rows
<1> DEFINE T == clients[r].todo
<1>1. T \subseteq Nat /\ T # {} /\ T \subseteq Rows
  BY DEF TypeOK, ClientState, Chunk, ReplayIsOfRows
<1>2. PICK c \in T : \A d \in T : ~(<<d, c>> \in OpToRel(<, Nat))
  BY <1>1, NatLessThanWellFounded, WFMin
<1>3. ASSUME NEW d \in T PROVE c <= d
  <2>1. <<d, c>> \notin OpToRel(<, Nat)
    BY <1>2
  <2>2. ~(d < c)
    BY <1>1, <2>1 DEF OpToRel
  <2> QED BY <1>1, <2>2
<1>4. Current(r) \in T
  BY <1>3 DEF Current
<1> QED BY <1>1, <1>4

\* Rows stay, so what was a row still is.
LEMMA RowsGrow ==
  ASSUME TypeOK, [Next]_vars
  PROVE  Rows \subseteq Rows'
  BY RowsStay DEF ChunksGrow, Rows

\* Files stay.
LEMMA FilesGrow ==
  ASSUME [Next]_vars
  PROVE  chunkFiles \subseteq chunkFiles'
  BY FileWriters DEF PutChunk

\* Only the splitter adds a row, that of the chunk it is writing.
LEMMA NewRowIsInserted ==
  ASSUME TypeOK, ProcessorHasRow, [Next]_vars, NEW c \in Rows', c \notin Rows
  PROVE  \E s \in Splitters : InsertChunkRow(s) /\ splitters[s].idx = c
<1>1. c \in Chunk /\ chunkStatus[c] = "none" /\ chunkStatus'[c] # "none"
  BY DEF Rows
<1>2. ASSUME NEW p \in Processors, Claim(p) \/ Commit(p) \/ MarkFailed(p) PROVE FALSE
  <2>1. processors[p].chunk = c
    BY <1>1, <1>2 DEF Claim, Commit, MarkFailed, TypeOK
  <2>2. processors[p].pc # "idle"
    BY <1>2 DEF Claim, Commit, MarkFailed, ProcAt
  <2> QED BY <2>1, <2>2 DEF ProcessorHasRow
<1>3. ASSUME NEW r \in Clients, ReplayReset(r) PROVE FALSE
  BY <1>1, <1>3 DEF ReplayReset, TypeOK
<1>4. ASSUME NEW s \in Splitters, InsertChunkRow(s) PROVE splitters[s].idx = c
  BY <1>1, <1>4 DEF InsertChunkRow, TypeOK
<1> QED BY <1>1, <1>2, <1>3, <1>4, RowWriters

\* A message comes into being when a splitter or a replay enqueues it.
LEMMA NewMessageIsEnqueued ==
  ASSUME IInv, [Next]_vars, NEW c \in Chunk,
         chunkQ[c].state = "absent", chunkQ'[c].state # "absent"
  PROVE  \/ \E s \in Splitters : OfferChunk(s) /\ splitters[s].idx = c
         \/ \E r \in Clients : ReplayEnqueue(r) /\ Current(r) = c
<1> USE DEF IInv, TypeOK
<1>1. ASSUME NEW s \in Splitters, OfferChunk(s) PROVE splitters[s].idx = c
  BY <1>1 DEF OfferChunk, MQ!Enqueue
<1>2. ASSUME NEW r \in Clients, ReplayEnqueue(r) PROVE Current(r) = c
  BY <1>2 DEF ReplayEnqueue, MQ!Enqueue
<1>3. ASSUME NEW r \in Clients, ReplayRemove(r) PROVE FALSE
  BY <1>3 DEF ReplayRemove, MQ!Removed, MQ!NoMessage
<1>4. ASSUME NEW p \in Processors, Receive(p) \/ Settle(p) \/ Crash(p) \/ Pause(p) PROVE FALSE
  BY <1>4
  DEF Receive, Settle, Crash, Pause, MQ!Deliver, MQ!Complete, MQ!Fail, MQ!Unlock, MQ!Holds
<1>5. ASSUME NEW d \in Chunk, ChunkRedeliver(d) PROVE FALSE
  BY <1>5 DEF ChunkRedeliver, MQ!Redeliver, MQ!Stalled
<1> QED BY <1>1, <1>2, <1>3, <1>4, <1>5, ChunkQueueWriters

\* A splitter that moves has put the file of the chunk it goes on with.
LEMMA SplitterKeepsFile ==
  ASSUME IInv, SplitterHasFile, [Next]_vars, NEW s \in Splitters,
         splitters'[s].pc \in {"row", "offer", "checkpoint"}
  PROVE  splitters'[s].idx \in chunkFiles'
<1>1. splitters[s] \in SplitterState /\ splitters \in [Splitters -> SplitterState]
  BY DEF IInv, TypeOK
<1>2. CASE splitters'[s] = splitters[s]
  BY <1>2, FilesGrow DEF SplitterHasFile
<1>3. CASE PutChunk(s)
  BY <1>1, <1>3 DEF PutChunk, SplitGoto, SplitterState
<1>4. CASE InsertChunkRow(s) \/ OfferChunk(s)
  BY <1>1, <1>4 DEF InsertChunkRow, OfferChunk, SplitGoto, SplitAt, SplitterState, SplitterHasFile
<1>5. ASSUME SplitReceive(s) PROVE FALSE
  BY <1>1, <1>5 DEF SplitReceive, IdleSplitter
<1>6. ASSUME SplitClaim(s) \/ Checkpoint(s) PROVE FALSE
  <2>1. PICK pc \in {"read", "pause"}, idx \in Nat :
          splitters' = [splitters EXCEPT ![s] = [splitters[s] EXCEPT !.pc = pc, !.idx = idx]]
    <3>1. CASE SplitClaim(s)
      <4>1. nextChunk \in Nat
        BY DEF IInv, TypeOK
      <4> QED BY <3>1, <4>1 DEF SplitClaim
    <3>2. CASE Checkpoint(s)
      <4>1. splitters[s].idx + 1 \in Nat
        BY <1>1 DEF SplitterState
      <4> QED BY <3>2, <4>1 DEF Checkpoint
    <3> QED BY <1>6, <3>1, <3>2
  <2>2. splitters'[s].pc = pc
    BY <1>1, <2>1 DEF SplitterState
  <2> QED BY <2>2
<1>7. ASSUME SplitSkip(s) \/ Continue(s) \/ EndOfFile(s) \/ RejectFile(s) PROVE FALSE
  BY <1>1, <1>7 DEF SplitSkip, Continue, EndOfFile, RejectFile, SplitGoto, SplitterState
<1>8. ASSUME SplitFinish(s) \/ SplitBump(s) PROVE FALSE
  BY <1>1, <1>8 DEF SplitFinish, SplitBump, SplitGoto, SplitterState
<1>9. ASSUME SplitSettle(s) \/ SplitCrash(s) PROVE FALSE
  BY <1>1, <1>9 DEF SplitSettle, SplitCrash, IdleSplitter
<1>10. ASSUME SplitThrow(s) PROVE FALSE
  BY <1>1, <1>10 DEF SplitThrow, SplitterState
<1> QED
  BY <1>2, <1>3, <1>4, <1>5, <1>6, <1>7, <1>8, <1>9, <1>10, SplitterMoves
  DEF IInv, SplitStep, SplitFault, SplitPause

\* A processor that moves keeps its chunk, or receives a message, which has a row.
LEMMA ProcessorKeepsRow ==
  ASSUME IInv, Grounded, [Next]_vars, NEW p \in Processors, processors'[p].pc # "idle"
  PROVE  processors'[p].chunk \in Rows'
<1>1. processors[p] \in ProcessorState /\ processors \in [Processors -> ProcessorState]
  BY DEF IInv, TypeOK
<1>2. Rows \subseteq Rows'
  BY RowsGrow DEF IInv
<1>3. processors[p].pc # "idle" => processors[p].chunk \in Rows
  BY DEF Grounded, ProcessorHasRow
<1>4. CASE processors'[p].chunk = processors[p].chunk /\ processors[p].pc # "idle"
  BY <1>2, <1>3, <1>4
<1>5. CASE Receive(p)
  <2>1. PICK c \in Chunk :
          /\ chunkQ[c].state = "waiting"
          /\ processors' = [processors EXCEPT ![p] = [pc |-> "claim", chunk |-> c, ok |-> TRUE]]
    BY <1>5 DEF Receive
  <2> QED BY <1>1, <1>2, <2>1 DEF Grounded, MessagesHaveRows
<1>6. CASE Claim(p) \/ Skip(p) \/ Commit(p) \/ Finish(p) \/ Bump(p)
  BY <1>1, <1>4, <1>6 DEF Claim, Skip, Commit, Finish, Bump, ProcGoto, ProcAt, ProcessorState
<1>7. CASE MarkFailed(p) \/ Throw(p)
  <2>1. PICK pc, ok :
          processors' = [processors EXCEPT ![p] = [processors[p] EXCEPT !.pc = pc, !.ok = ok]]
    <3>1. CASE MarkFailed(p)
      BY <3>1 DEF MarkFailed
    <3>2. CASE Throw(p)
      BY <3>2 DEF Throw
    <3> QED BY <1>7, <3>1, <3>2
  <2>2. processors'[p].chunk = processors[p].chunk
    BY <1>1, <2>1 DEF ProcessorState
  <2>3. processors[p].pc # "idle"
    BY <1>7, ProcessorFaultsAssumption DEF MarkFailed, Throw, ProcAt
  <2> QED BY <1>4, <2>2, <2>3
<1>8. CASE Settle(p) \/ Park(p) \/ Crash(p)
  BY <1>1, <1>4, <1>8 DEF Settle, Park, Crash, ProcAt, ProcessorState, IdleProcessor
<1>9. CASE processors'[p] = processors[p]
  BY <1>4, <1>9
<1> QED
  BY <1>5, <1>6, <1>7, <1>8, <1>9, ProcessorMoves DEF IInv, ProcStep, ProcFault, Pause

\* What the loop of a replay has left are chunks with rows, while it runs.
LEMMA ReplayGoesOn ==
  ASSUME TypeOK, NEW r \in Clients, NEW todo \in SUBSET Rows, ReplayGoto(r, todo)
  PROVE  /\ clients'[r].todo \subseteq Rows
         /\ clients'[r].pc \in {"remove", "enqueue", "reset"} => clients'[r].todo # {}
<1>1. clients[r] \in ClientState /\ clients \in [Clients -> ClientState]
  BY DEF TypeOK
<1>2. CASE ReplayNext(clients[r].seen, todo) = "idle"
  BY <1>1, <1>2 DEF ReplayGoto, IdleClient
<1>3. CASE ReplayNext(clients[r].seen, todo) # "idle"
  <2>1. clients'[r] = [clients[r] EXCEPT !.pc = ReplayNext(clients[r].seen, todo), !.todo = todo]
    BY <1>1, <1>3 DEF ReplayGoto
  <2>2. clients'[r].pc = ReplayNext(clients[r].seen, todo) /\ clients'[r].todo = todo
    BY <1>1, <2>1 DEF ClientState
  <2> QED BY <2>2 DEF ReplayNext
<1> QED BY <1>2, <1>3

\* A replay that moves still works on chunks with rows.
LEMMA ReplayKeepsRows ==
  ASSUME IInv, Grounded, [Next]_vars, NEW r \in Clients
  PROVE  /\ clients'[r].todo \subseteq Rows'
         /\ clients'[r].pc \in {"remove", "enqueue", "reset"} => clients'[r].todo # {}
<1>1. clients[r] \in ClientState /\ clients \in [Clients -> ClientState] /\ TypeOK
  BY DEF IInv, TypeOK
<1>2. Rows \subseteq Rows'
  BY RowsGrow DEF IInv
<1>3. /\ clients[r].todo \subseteq Rows
      /\ clients[r].pc \in {"remove", "enqueue", "reset"} => clients[r].todo # {}
  BY DEF Grounded, ReplayIsOfRows
<1>4. CASE clients'[r] = clients[r]
  BY <1>2, <1>3, <1>4
<1>5. CASE ReplaySelect(r)
  <2>1. Stuck \subseteq Rows
    BY DEF Stuck, Rows
  <2> QED BY <1>1, <1>2, <1>5, <2>1, ReplayGoesOn DEF ReplaySelect
<1>6. CASE ReplayReset(r)
  BY <1>1, <1>2, <1>3, <1>6, ReplayGoesOn DEF ReplayReset
<1>7. CASE ReplayRemove(r) \/ ReplayEnqueue(r)
  BY <1>1, <1>2, <1>3, <1>7 DEF ReplayRemove, ReplayEnqueue, ClientAt, ClientGoto, ClientState
<1>8. CASE ReplaySplitRemove(r) \/ ReplayFlip(r) \/ Upload(r)
  BY <1>1, <1>2, <1>3, <1>8
  DEF ReplaySplitRemove, ReplayFlip, Upload, ClientAt, ClientGoto, ClientState
<1>9. CASE EnqueueSplit(r) \/ ReplayFind(r)
  BY <1>1, <1>2, <1>3, <1>9 DEF EnqueueSplit, ReplayFind, ClientAt, ClientGoto, ClientState
<1>10. CASE ReplaySplitEnqueue(r) \/ ReplayBump(r) \/ ClientFails(r)
  BY <1>1, <1>10 DEF ReplaySplitEnqueue, ReplayBump, ClientFails, IdleClient
<1>11. CASE ReplayCheck(r)
  BY <1>1, <1>2, <1>3, <1>11 DEF ReplayCheck, ClientState, IdleClient
<1> QED
  BY <1>1, <1>4, <1>5, <1>6, <1>7, <1>8, <1>9, <1>10, <1>11, ClientMoves
  DEF ClientRequest, ClientStep

\* A row that is new has its file already.
LEMMA RowsKeepFiles ==
  ASSUME IInv, Grounded, [Next]_vars
  PROVE  RowsHaveFiles'
<1>1. chunkFiles \subseteq chunkFiles' /\ Rows \subseteq chunkFiles
  BY FilesGrow DEF Grounded, RowsHaveFiles
<1>2. ASSUME NEW c \in Rows', c \notin Rows
      PROVE  c \in chunkFiles
  BY <1>2, NewRowIsInserted DEF Grounded, IInv, InsertChunkRow, SplitAt, SplitterHasFile
<1> QED BY <1>1, <1>2 DEF RowsHaveFiles

\* A message that is new has its row already.
LEMMA MessagesKeepRows ==
  ASSUME IInv, Grounded, [Next]_vars
  PROVE  MessagesHaveRows'
<1>1. Rows \subseteq Rows'
  BY RowsGrow DEF IInv
<1>2. ASSUME NEW c \in Chunk, chunkQ'[c].state # "absent"
      PROVE  c \in Rows
  <2>1. CASE chunkQ[c].state # "absent"
    BY <2>1 DEF Grounded, MessagesHaveRows
  <2>2. ASSUME NEW s \in Splitters, OfferChunk(s) PROVE splitters[s].idx \in Rows
    BY <2>2 DEF IInv, SplitterIsCovered, OfferChunk, SplitAt
  <2>3. ASSUME NEW r \in Clients, ReplayEnqueue(r) PROVE Current(r) \in Rows
    BY <2>3, CurrentIsTodo DEF IInv, Grounded, ReplayEnqueue, ClientAt
  <2> QED BY <1>2, <2>1, <2>2, <2>3, NewMessageIsEnqueued
<1> QED BY <1>1, <1>2 DEF MessagesHaveRows

\* Every step keeps what messages rest on.
LEMMA StepIsGrounded == IInv /\ Grounded /\ [Next]_vars => Grounded'
<1> SUFFICES ASSUME IInv, Grounded, [Next]_vars PROVE Grounded'
  OBVIOUS
<1>1. SplitterHasFile'
  BY SplitterKeepsFile DEF SplitterHasFile, Grounded
<1>2. ReplayIsOfRows'
  BY ReplayKeepsRows DEF ReplayIsOfRows
<1>3. ProcessorHasRow'
  BY ProcessorKeepsRow DEF ProcessorHasRow
<1> QED BY <1>1, <1>2, <1>3, RowsKeepFiles, MessagesKeepRows DEF Grounded

\* In every reachable state rows, files and messages are grounded.
THEOREM PipelineIsGrounded == Spec => []Grounded
<1>1. Init => Grounded
  BY DEF Init, Grounded, SplitterHasFile, ReplayIsOfRows, ProcessorHasRow, RowsHaveFiles,
         MessagesHaveRows, Rows, IdleSplitter, IdleProcessor, IdleClient, MQ!NoMessage
<1> QED BY <1>1, StepIsGrounded, PipelineInvariant, PTL DEF Spec

\* A message can always be worked on: whatever was retried, redelivered or
\* replayed, the row it will claim and the file it will read are in place.
THEOREM MessagesCanBeProcessed == Spec => []MessageHasRowAndFile
<1>1. Grounded => MessageHasRowAndFile
  BY DEF Grounded, RowsHaveFiles, MessagesHaveRows, MessageHasRowAndFile, MQ!Live
<1> QED BY <1>1, PipelineIsGrounded, PTL

-----------------------------------------------------------------------------
(***************************************************************************)
(* Faults and requests.  The budgets only shrink, and without a replay in  *)
(* the budget no client ever gets past the offer of its upload.            *)
(***************************************************************************)
\* A step leaves the budget alone or takes one thing from it.
LEMMA BudgetMove ==
  ASSUME [Next]_vars
  PROVE  UNCHANGED left \/ \E k \in FaultKind : Spend(k)
<1>1. ASSUME NEW s \in Splitters, SplitStep(s) \/ SplitFault(s)
      PROVE  UNCHANGED left \/ Spend("errors") \/ Spend("crashes") \/ Spend("pauses")
  BY <1>1
  DEF SplitStep, SplitFault, SplitReceive, SplitClaim, SplitSkip, PutChunk, InsertChunkRow,
      OfferChunk, Checkpoint, Continue, EndOfFile, RejectFile, SplitFinish, SplitBump,
      SplitSettle, SplitThrow, SplitCrash, SplitPause
<1>2. ASSUME NEW p \in Processors, ProcStep(p) \/ ProcFault(p)
      PROVE  UNCHANGED left \/ Spend("errors") \/ Spend("crashes") \/ Spend("pauses")
  BY <1>2
  DEF ProcStep, ProcFault, Receive, Claim, Skip, Commit, MarkFailed, Finish, Bump, Settle,
      Park, Throw, Crash, Pause
<1>3. ASSUME NEW r \in Clients, ClientRequest(r) \/ ClientStep(r) \/ ClientFails(r)
      PROVE  UNCHANGED left \/ Spend("errors") \/ Spend("uploads") \/ Spend("replays")
  BY <1>3
  DEF ClientRequest, ClientStep, ClientFails, Upload, EnqueueSplit, ReplayFind, ReplaySelect,
      ReplayRemove, ReplayEnqueue, ReplayReset, ReplaySplitRemove, ReplaySplitEnqueue,
      ReplayFlip, ReplayCheck, ReplayBump
<1> QED
  BY <1>1, <1>2, <1>3 DEF Next, vars, SplitRedeliver, ChunkRedeliver, GoStale, FaultKind

\* It never grows.
LEMMA BudgetShrinks ==
  ASSUME TypeOK, [Next]_vars, NEW kind \in FaultKind
  PROVE  left'[kind] <= left[kind]
<1>1. ASSUME NEW k \in FaultKind, Spend(k) PROVE left'[kind] <= left[kind]
  BY <1>1 DEF Spend, TypeOK
<1> QED BY <1>1, BudgetMove DEF TypeOK

\* What is left stays a budget.
LEMMA StepKeepsBudgetType ==
  ASSUME TypeOK, [Next]_vars, NEW kind \in FaultKind
  PROVE  left'[kind] \in Nat
  BY BudgetMove, SpendType DEF TypeOK

\* Only an upload takes an upload from it.
LEMMA UploadsAreSpent ==
  ASSUME TypeOK, [Next]_vars, \A r \in Clients : ~Upload(r)
  PROVE  left'.uploads = left.uploads
<1>1. ASSUME Spend("errors") \/ Spend("crashes") \/ Spend("pauses") \/ Spend("replays")
      PROVE  left'.uploads = left.uploads
  BY <1>1 DEF Spend, TypeOK, FaultKind
<1>2. ASSUME NEW s \in Splitters, SplitStep(s) \/ SplitFault(s)
      PROVE  UNCHANGED left \/ Spend("errors") \/ Spend("crashes") \/ Spend("pauses")
  BY <1>2
  DEF SplitStep, SplitFault, SplitReceive, SplitClaim, SplitSkip, PutChunk, InsertChunkRow,
      OfferChunk, Checkpoint, Continue, EndOfFile, RejectFile, SplitFinish, SplitBump,
      SplitSettle, SplitThrow, SplitCrash, SplitPause
<1>3. ASSUME NEW p \in Processors, ProcStep(p) \/ ProcFault(p)
      PROVE  UNCHANGED left \/ Spend("errors") \/ Spend("crashes") \/ Spend("pauses")
  BY <1>3
  DEF ProcStep, ProcFault, Receive, Claim, Skip, Commit, MarkFailed, Finish, Bump, Settle,
      Park, Throw, Crash, Pause
<1>4. ASSUME NEW r \in Clients, ClientRequest(r) \/ ClientStep(r) \/ ClientFails(r)
      PROVE  UNCHANGED left \/ Spend("errors") \/ Spend("replays")
  BY <1>4
  DEF ClientRequest, ClientStep, ClientFails, EnqueueSplit, ReplayFind, ReplaySelect,
      ReplayRemove, ReplayEnqueue, ReplayReset, ReplaySplitRemove, ReplaySplitEnqueue,
      ReplayFlip, ReplayCheck, ReplayBump
<1> QED
  BY <1>1, <1>2, <1>3, <1>4 DEF Next, vars, SplitRedeliver, ChunkRedeliver, GoStale

\* Nothing is left over beyond what the budget allowed.
WithinBudget == \A kind \in FaultKind : left[kind] <= Faults[kind]

\* The budget is kept.
LEMMA StepIsWithinBudget == TypeOK /\ WithinBudget /\ [Next]_vars => WithinBudget'
<1> SUFFICES ASSUME TypeOK, WithinBudget, [Next]_vars, NEW kind \in FaultKind
             PROVE  left'[kind] <= Faults[kind]
  BY DEF WithinBudget
<1>1. left[kind] \in Nat /\ left[kind] <= Faults[kind] /\ Faults[kind] \in Nat
  BY FaultsAssumption DEF TypeOK, WithinBudget
<1>2. left'[kind] <= left[kind] /\ left'[kind] \in Int
  BY BudgetShrinks, StepKeepsBudgetType
<1> QED BY <1>1, <1>2

NoReplayYet == left.replays = 0 /\ \A r \in Clients : clients[r].pc \in {"idle", "offer"}

\* Without a replay in the budget none ever runs.
LEMMA NoReplayBegins == TypeOK /\ NoReplayYet /\ [Next]_vars => NoReplayYet'
<1> SUFFICES ASSUME TypeOK, NoReplayYet, [Next]_vars PROVE NoReplayYet'
  OBVIOUS
<1>1. left'.replays = 0
  BY BudgetShrinks, StepKeepsBudgetType DEF NoReplayYet, FaultKind
<1>2. ASSUME NEW r \in Clients PROVE clients'[r].pc \in {"idle", "offer"}
  <2>1. clients[r].pc \in {"idle", "offer"} /\ clients \in [Clients -> ClientState]
    BY DEF NoReplayYet, TypeOK
  <2>2. ~ReplayFind(r)
    BY DEF ReplayFind, Spend, NoReplayYet
  <2>3. CASE Upload(r) \/ EnqueueSplit(r) \/ ClientFails(r)
    BY <2>1, <2>3 DEF Upload, EnqueueSplit, ClientFails, ClientGoto, ClientState, IdleClient
  <2>4. CASE clients'[r] = clients[r]
    BY <2>1, <2>4
  <2> QED
    BY <2>1, <2>2, <2>3, <2>4, ClientMoves
    DEF ClientRequest, ClientStep, ReplaySelect, ReplayRemove, ReplayEnqueue, ReplayReset,
        ReplaySplitRemove, ReplaySplitEnqueue, ReplayFlip, ReplayCheck, ReplayBump, ClientAt
<1> QED BY <1>1, <1>2 DEF NoReplayYet

-----------------------------------------------------------------------------
(***************************************************************************)
(* The checkpoint.  Whatever it lets a resumed splitter skip was offered,  *)
(* and an offered message is taken away again only by a replay, which then *)
(* stands right before offering it anew.                                   *)
(***************************************************************************)
\* The chunk has a message record, or a replay is about to give it one.
Offered(c) ==
  \/ chunkQ[c].state # "absent"
  \/ \E r \in Clients : ClientAt(r, "enqueue") /\ Current(r) = c

CheckpointIsOffered == \A c \in 0 .. nextChunk - 1 : Offered(c)

\* A splitter at work is never ahead of the checkpoint by more than the chunk it writes.
SplitterIsOffered ==
  \A s \in Splitters :
    /\ splitters[s].pc \in {"read", "row", "offer", "checkpoint", "pause"} =>
         splitters[s].idx <= nextChunk
    /\ splitters[s].pc = "checkpoint" => Offered(splitters[s].idx)

\* No client dies between taking a message away and offering it again.
ReplaysEnqueue == Faults.replays = 0 \/ "enqueue" \notin ClientFaults

\* What replays there are in a run whose budget has none.
NoneIfNoneAllowed == Faults.replays = 0 => NoReplayYet

OfferInv == CheckpointIsOffered /\ SplitterIsOffered /\ NoneIfNoneAllowed

\* A message that is taken away is taken away by a replay.
LEMMA RemovedByReplay ==
  ASSUME IInv, Grounded, [Next]_vars, NEW c \in Chunk,
         chunkQ[c].state # "absent", chunkQ'[c].state = "absent"
  PROVE  \E r \in Clients : ReplayRemove(r) /\ Current(r) = c
<1> USE DEF IInv, TypeOK
<1>1. ASSUME NEW s \in Splitters, OfferChunk(s) PROVE FALSE
  BY <1>1 DEF OfferChunk, MQ!Enqueue
<1>2. ASSUME NEW r \in Clients, ReplayEnqueue(r) PROVE FALSE
  BY <1>2 DEF ReplayEnqueue, MQ!Enqueue
<1>3. ASSUME NEW r \in Clients, ReplayRemove(r) PROVE Current(r) = c
  BY <1>3 DEF ReplayRemove, MQ!Removed
<1>4. ASSUME NEW p \in Processors, Receive(p) PROVE FALSE
  BY <1>4 DEF Receive, MQ!Deliver, MQ!Message
<1>5. ASSUME NEW p \in Processors, Settle(p) PROVE FALSE
  BY <1>5 DEF Settle, MQ!Complete, MQ!Fail, MQ!Failed, MQ!Message
<1>6. ASSUME NEW p \in Processors, Crash(p) \/ Pause(p) PROVE FALSE
  <2>1. chunkQ' = MQ!Unlock(chunkQ, processors[p].chunk, p)
    BY <1>6 DEF Crash, Pause
  <2> QED BY <2>1 DEF MQ!Unlock, MQ!Message
<1>7. ASSUME NEW d \in Chunk, ChunkRedeliver(d) PROVE FALSE
  BY <1>7 DEF ChunkRedeliver, MQ!Redeliver, MQ!Message
<1> QED BY <1>1, <1>2, <1>3, <1>4, <1>5, <1>6, <1>7, ChunkQueueWriters

\* What was offered stays offered.
LEMMA OfferedStays ==
  ASSUME IInv, Grounded, NoneIfNoneAllowed, ReplaysEnqueue, [Next]_vars,
         NEW c \in Chunk, Offered(c)
  PROVE  Offered(c)'
<1>1. CASE chunkQ[c].state # "absent"
  <2>1. CASE chunkQ'[c].state # "absent"
    BY <2>1 DEF Offered
  <2>2. CASE chunkQ'[c].state = "absent"
    <3>1. PICK r \in Clients : ReplayRemove(r) /\ Current(r) = c
      BY <1>1, <2>2, RemovedByReplay
    <3>2. clients'[r].pc = "enqueue" /\ clients'[r].todo = clients[r].todo
      BY <3>1 DEF ReplayRemove, ClientGoto, IInv, TypeOK, ClientState
    <3> QED BY <3>1, <3>2 DEF Offered, ClientAt, Current
  <2> QED BY <2>1, <2>2
<1>2. ASSUME NEW r \in Clients, ClientAt(r, "enqueue"), Current(r) = c
      PROVE  Offered(c)'
  <2>1. CASE clients'[r] = clients[r]
    BY <1>2, <2>1 DEF Offered, ClientAt, Current
  <2>2. CASE ReplayEnqueue(r)
    BY <1>2, <2>2 DEF ReplayEnqueue, MQ!Enqueue, MQ!NoMessage, Offered, IInv, TypeOK
  <2>3. ~ClientFails(r)
    BY <1>2 DEF ClientFails, ReplaysEnqueue, NoneIfNoneAllowed, NoReplayYet, ClientAt
  <2> QED
    BY <1>2, <2>1, <2>2, <2>3, ClientMoves
    DEF IInv, ClientRequest, ClientStep, Upload, EnqueueSplit, ReplayFind, ReplaySelect,
        ReplayRemove, ReplayReset, ReplaySplitRemove, ReplaySplitEnqueue, ReplayFlip,
        ReplayCheck, ReplayBump, ClientAt
<1> QED BY <1>1, <1>2 DEF Offered

\* A splitter that moves stays behind the checkpoint and has offered its chunk.
LEMMA SplitterStaysOffered ==
  ASSUME IInv, Grounded, OfferInv, ReplaysEnqueue, [Next]_vars, NEW s \in Splitters
  PROVE  /\ splitters'[s].pc \in {"read", "row", "offer", "checkpoint", "pause"} =>
              splitters'[s].idx <= nextChunk'
         /\ splitters'[s].pc = "checkpoint" => Offered(splitters[s].idx)'
<1>1. splitters[s] \in SplitterState /\ splitters \in [Splitters -> SplitterState]
  BY DEF IInv, TypeOK
<1>2. nextChunk' >= nextChunk /\ nextChunk \in Nat /\ nextChunk' \in Nat
  BY CheckpointStaysRight, StepKeepsTypes, MaxChunksAssumption DEF IInv, TypeOK
<1>3. /\ splitters[s].pc \in {"read", "row", "offer", "checkpoint", "pause"} =>
           splitters[s].idx <= nextChunk
      /\ splitters[s].pc = "checkpoint" => Offered(splitters[s].idx)
      /\ splitters[s].pc \in {"offer", "checkpoint"} => splitters[s].idx \in Chunk
      /\ splitters[s].idx \in Nat
  BY <1>1 DEF OfferInv, SplitterIsOffered, IInv, SplitterIsCovered, Rows, SplitterState
<1>4. CASE splitters'[s] = splitters[s]
  BY <1>2, <1>3, <1>4, OfferedStays DEF OfferInv
<1>5. CASE SplitClaim(s)
  BY <1>1, <1>2, <1>5 DEF SplitClaim, SplitterState
<1>6. CASE PutChunk(s) \/ InsertChunkRow(s)
  BY <1>1, <1>2, <1>3, <1>6 DEF PutChunk, InsertChunkRow, SplitAt, SplitGoto, SplitterState
<1>7. CASE OfferChunk(s)
  <2>1. splitters'[s].pc = "checkpoint" /\ splitters'[s].idx = splitters[s].idx
    BY <1>1, <1>7 DEF OfferChunk, SplitGoto, SplitterState
  <2>2. chunkQ'[splitters[s].idx].state # "absent"
    BY <1>3, <1>7 DEF OfferChunk, SplitAt, MQ!Enqueue, MQ!NoMessage, IInv, TypeOK
  <2> QED BY <1>2, <1>3, <1>7, <2>1, <2>2 DEF OfferChunk, SplitAt, Offered
<1>8. CASE Checkpoint(s)
  <2>1. splitters'[s].pc \in {"read", "pause"} /\ splitters'[s].idx = splitters[s].idx + 1
    BY <1>1, <1>8 DEF Checkpoint, SplitterState
  <2> QED BY <1>2, <1>3, <1>8, <2>1 DEF Checkpoint, Greatest
<1>9. CASE SplitSettle(s) \/ SplitCrash(s)
  BY <1>1, <1>9 DEF SplitSettle, SplitCrash, IdleSplitter
<1>10. CASE SplitSkip(s) \/ Continue(s) \/ EndOfFile(s) \/ RejectFile(s)
  BY <1>1, <1>10 DEF SplitSkip, Continue, EndOfFile, RejectFile, SplitGoto, SplitterState
<1>11. CASE SplitFinish(s) \/ SplitBump(s)
  BY <1>1, <1>11 DEF SplitFinish, SplitBump, SplitGoto, SplitterState
<1>12. CASE SplitThrow(s)
  BY <1>1, <1>12 DEF SplitThrow, SplitterState
<1>13. CASE SplitReceive(s)
  <2>1. splitters'[s].pc = "claim"
    BY <1>1, <1>13 DEF SplitReceive, IdleSplitter
  <2> QED BY <2>1
<1> QED
  BY <1>4, <1>5, <1>6, <1>7, <1>8, <1>9, <1>10, <1>11, <1>12, <1>13, SplitterMoves
  DEF IInv, SplitStep, SplitFault, SplitPause

\* Every step keeps the checkpoint behind what was offered.
LEMMA StepKeepsOffers ==
  ASSUME ReplaysEnqueue
  PROVE  IInv /\ Grounded /\ OfferInv /\ [Next]_vars => OfferInv'
<1> SUFFICES ASSUME IInv, Grounded, OfferInv, [Next]_vars PROVE OfferInv'
  OBVIOUS
<1>1. nextChunk \in Nat /\ nextChunk \in 0 .. MaxChunks /\ Chunk = 0 .. MaxChunks - 1
  BY MaxChunksAssumption DEF IInv, TypeOK, Chunk
<1>2. ASSUME NEW c \in 0 .. nextChunk - 1 PROVE Offered(c)'
  <2>1. c \in Chunk
    BY <1>1, MaxChunksAssumption
  <2> QED BY <2>1, OfferedStays DEF OfferInv, CheckpointIsOffered
<1>3. CheckpointIsOffered'
  <2>1. CASE UNCHANGED nextChunk
    BY <1>2, <2>1 DEF CheckpointIsOffered
  <2>2. ASSUME NEW s \in Splitters, Checkpoint(s)
        PROVE  CheckpointIsOffered'
    <3>1. PICK i \in Chunk : i = splitters[s].idx /\ i <= nextChunk /\ Offered(i)
      BY <2>2 DEF Checkpoint, SplitAt, OfferInv, SplitterIsOffered, IInv, SplitterIsCovered, Rows
    <3>2. Offered(i)'
      BY <3>1, OfferedStays DEF OfferInv
    <3>3. nextChunk' \in {nextChunk, i + 1}
      BY <2>2, <3>1 DEF Checkpoint, Greatest
    <3>4. i \in Int
      BY DEF Chunk
    <3>5. ASSUME NEW c \in 0 .. nextChunk' - 1
          PROVE  c \in 0 .. nextChunk - 1 \/ c = i
      <4>1. CASE nextChunk' = nextChunk
        BY <3>5, <4>1
      <4>2. CASE nextChunk' = i + 1
        <5>1. c \in 0 .. i
          BY <3>4, <3>5, <4>2
        <5>2. i \in Nat
          BY DEF Chunk
        <5> QED BY <1>1, <3>1, <5>1, <5>2
      <4> QED BY <3>3, <4>1, <4>2
    <3>6. ASSUME NEW c \in 0 .. nextChunk' - 1 PROVE Offered(c)'
      BY <1>2, <3>2, <3>5
    <3> QED BY <3>6 DEF CheckpointIsOffered
  <2> QED BY <2>1, <2>2, CheckpointMove
<1>4. SplitterIsOffered'
  <2>1. ASSUME NEW s \in Splitters
        PROVE  /\ splitters'[s].pc \in {"read", "row", "offer", "checkpoint", "pause"} =>
                    splitters'[s].idx <= nextChunk'
               /\ splitters'[s].pc = "checkpoint" => Offered(splitters[s].idx)'
    BY SplitterStaysOffered
  <2> QED BY <2>1 DEF SplitterIsOffered
<1>5. NoneIfNoneAllowed'
  BY NoReplayBegins DEF OfferInv, NoneIfNoneAllowed, IInv
<1> QED BY <1>3, <1>4, <1>5 DEF OfferInv

\* A resumed split skips nothing that is missing.  Whoever wrote the chunks
\* before the checkpoint, and whatever became of their messages since, each has
\* its file, its row and a message record, or a replay about to offer it again.
THEOREM CheckpointIsSafe ==
  ASSUME ReplaysEnqueue
  PROVE  Spec => [](\A c \in 0 .. nextChunk - 1 : c \in chunkFiles /\ c \in Rows /\ Offered(c))
<1>1. Init => OfferInv
  BY FaultsAssumption
  DEF Init, OfferInv, CheckpointIsOffered, SplitterIsOffered, NoneIfNoneAllowed, NoReplayYet,
      IdleSplitter, IdleClient
<1>2. IInv /\ Grounded /\ OfferInv =>
        \A c \in 0 .. nextChunk - 1 : c \in chunkFiles /\ c \in Rows /\ Offered(c)
  BY DEF IInv, CheckpointHasRows, Grounded, RowsHaveFiles, OfferInv, CheckpointIsOffered
<1>3. Spec => []OfferInv
  BY <1>1, StepKeepsOffers, PipelineInvariant, PipelineIsGrounded, PTL DEF Spec
<1> QED BY <1>2, <1>3, PipelineInvariant, PipelineIsGrounded, PTL

\* As long as nobody asks for a replay, everything before the checkpoint has
\* file, row and message record.
THEOREM CheckpointCovered ==
  ASSUME Faults.replays = 0
  PROVE  Spec => []CheckpointIsCovered
<1>1. ReplaysEnqueue
  BY DEF ReplaysEnqueue
<1>2. Init => NoReplayYet
  BY DEF Init, NoReplayYet, IdleClient
<1>3. Spec => []NoReplayYet
  BY <1>2, NoReplayBegins, PipelineTypes, PTL DEF Spec
<1>4. /\ NoReplayYet
      /\ \A c \in 0 .. nextChunk - 1 : c \in chunkFiles /\ c \in Rows /\ Offered(c)
      => CheckpointIsCovered
  BY DEF NoReplayYet, Offered, ClientAt, CheckpointIsCovered
<1> QED BY <1>1, <1>3, <1>4, CheckpointIsSafe, PTL

-----------------------------------------------------------------------------
(***************************************************************************)
(* Who is at work.  A processor that was handed a message keeps its lock   *)
(* until it settles, dies or is paused: nobody else can take it away, not  *)
(* even a replay, whose removal leaves a held message where it is.         *)
(***************************************************************************)
\* A delivery ends by its holder only.
LEMMA HeldStays ==
  ASSUME IInv, Grounded, [Next]_vars, NEW p \in Processors, NEW c \in Chunk,
         MQ!Holds(chunkQ, c, p)
  PROVE  MQ!Holds(chunkQ', c, p) \/ Settle(p) \/ Crash(p) \/ Pause(p)
<1> USE DEF IInv, TypeOK, MQ!Holds
<1>1. p # NoWorker
  BY NoWorkerAssumption
<1>2. ASSUME NEW s \in Splitters, OfferChunk(s) PROVE chunkQ'[c] = chunkQ[c]
  BY <1>2 DEF OfferChunk, MQ!Enqueue
<1>3. ASSUME NEW r \in Clients, ReplayEnqueue(r) PROVE chunkQ'[c] = chunkQ[c]
  BY <1>3 DEF ReplayEnqueue, MQ!Enqueue
<1>4. ASSUME NEW r \in Clients, ReplayRemove(r) PROVE chunkQ'[c] = chunkQ[c]
  BY <1>1, <1>4 DEF ReplayRemove, MQ!Removed
<1>5. ASSUME NEW q \in Processors, Receive(q) PROVE chunkQ'[c] = chunkQ[c]
  BY <1>5 DEF Receive, MQ!Deliver
<1>6. ASSUME NEW q \in Processors, q # p, Settle(q) PROVE chunkQ'[c] = chunkQ[c]
  BY <1>6 DEF Settle, MQ!Complete, MQ!Fail
<1>7. ASSUME NEW q \in Processors, q # p, Crash(q) \/ Pause(q) PROVE chunkQ'[c] = chunkQ[c]
  BY <1>7 DEF Crash, Pause, MQ!Unlock
<1>8. ASSUME NEW d \in Chunk, ChunkRedeliver(d) PROVE chunkQ'[c] = chunkQ[c]
  BY <1>1, <1>8 DEF ChunkRedeliver, MQ!Stalled, MQ!Redeliver
<1> QED BY <1>2, <1>3, <1>4, <1>5, <1>6, <1>7, <1>8, ChunkQueueWriters

\* A processor with a delivery holds it.
WorkerHolds ==
  \A p \in Processors : processors[p].pc \notin {"idle", "park"} =>
                          MQ!Holds(chunkQ, processors[p].chunk, p)

\* The hypothesis of ExclusiveProcessing: no lock has lapsed yet.
HoldsUnlessPaused == left.pauses = Faults.pauses => WorkerHolds

\* Every step but a pause leaves each processor at work with its lock.
LEMMA WorkersKeepHolding ==
  ASSUME IInv, Grounded, WorkerHolds, [Next]_vars, left'.pauses = left.pauses
  PROVE  WorkerHolds'
<1>1. SUFFICES ASSUME NEW p \in Processors, processors'[p].pc \notin {"idle", "park"}
               PROVE  MQ!Holds(chunkQ', processors'[p].chunk, p)
  BY DEF WorkerHolds
<1>2. processors[p] \in ProcessorState /\ processors \in [Processors -> ProcessorState]
  BY DEF IInv, TypeOK
<1>3. PICK c \in Chunk : c = processors[p].chunk
  BY <1>2 DEF ProcessorState
<1>4. ~Pause(p)
  BY DEF Pause, Spend, IInv, TypeOK, FaultKind
<1>5. ~Crash(p)
  BY <1>1, <1>2 DEF Crash, IdleProcessor
<1>6. ~Settle(p) /\ ~Park(p)
  BY <1>1, <1>2 DEF Settle, Park, IdleProcessor, ProcessorState
<1>7. CASE Receive(p)
  <2>1. PICK d \in Chunk :
          /\ chunkQ' = MQ!Deliver(chunkQ, d, p)
          /\ processors' = [processors EXCEPT ![p] = [pc |-> "claim", chunk |-> d, ok |-> TRUE]]
    BY <1>7 DEF Receive
  <2> QED BY <1>2, <2>1 DEF MQ!Deliver, MQ!Holds, IInv, TypeOK, MQ!Message
<1>8. CASE processors[p].pc \notin {"idle", "park"} /\ processors'[p].chunk = c
  BY <1>3, <1>4, <1>5, <1>6, <1>8, HeldStays DEF WorkerHolds
<1>9. CASE processors'[p] = processors[p]
  BY <1>1, <1>3, <1>8, <1>9
<1>10. CASE Claim(p) \/ Skip(p) \/ Commit(p) \/ Finish(p) \/ Bump(p)
  BY <1>2, <1>3, <1>8, <1>10 DEF Claim, Skip, Commit, Finish, Bump, ProcGoto, ProcAt, ProcessorState
<1>11. CASE MarkFailed(p) \/ Throw(p)
  <2>1. processors'[p].chunk = processors[p].chunk
    BY <1>2, <1>11 DEF MarkFailed, Throw, ProcessorState
  <2>2. processors[p].pc \notin {"idle", "park"}
    BY <1>11, ProcessorFaultsAssumption DEF MarkFailed, Throw, ProcAt
  <2> QED BY <1>3, <1>8, <2>1, <2>2
<1> QED
  BY <1>4, <1>5, <1>6, <1>7, <1>9, <1>10, <1>11, ProcessorMoves DEF IInv, ProcStep, ProcFault

\* Hence the invariant is kept, paused or not.
LEMMA StepKeepsHolders ==
  IInv /\ Grounded /\ WithinBudget /\ HoldsUnlessPaused /\ [Next]_vars => HoldsUnlessPaused'
<1> SUFFICES ASSUME IInv, Grounded, WithinBudget, HoldsUnlessPaused, [Next]_vars,
                    left'.pauses = Faults.pauses
             PROVE  WorkerHolds'
  BY DEF HoldsUnlessPaused
<1>1. left'.pauses <= left.pauses /\ left.pauses <= Faults.pauses
  BY BudgetShrinks DEF IInv, WithinBudget, FaultKind
<1>2. left.pauses \in Nat /\ Faults.pauses \in Nat
  BY FaultsAssumption DEF IInv, TypeOK, FaultKind
<1>3. left'.pauses = left.pauses /\ left.pauses = Faults.pauses
  BY <1>1, <1>2
<1> QED BY <1>3, WorkersKeepHolding DEF HoldsUnlessPaused

\* Every reachable state is within the budget.
LEMMA PipelineIsWithinBudget == Spec => []WithinBudget
<1>1. Init => WithinBudget
  BY FaultsAssumption DEF Init, WithinBudget
<1> QED BY <1>1, StepIsWithinBudget, PipelineTypes, PTL DEF Spec

\* Until a lock lapses every processor holds the message it works on.
THEOREM WorkersHoldTheirMessage == Spec => []HoldsUnlessPaused
<1>1. Init => HoldsUnlessPaused
  BY DEF Init, HoldsUnlessPaused, WorkerHolds, IdleProcessor
<1> QED
  BY <1>1, StepKeepsHolders, PipelineInvariant, PipelineIsGrounded, PipelineIsWithinBudget, PTL
  DEF Spec

\* As long as no lock lapses, no two processors are at work on one chunk,
\* through crashes, redeliveries, stale reclaims and replays.
THEOREM OneProcessorPerChunk == Spec => []ExclusiveProcessing
<1>1. HoldsUnlessPaused => ExclusiveProcessing
  BY DEF HoldsUnlessPaused, WorkerHolds, ExclusiveProcessing, MQ!Holds
<1> QED BY <1>1, WorkersHoldTheirMessage, PTL

-----------------------------------------------------------------------------
(***************************************************************************)
(* The split's messages.  While the split is unfinished and nobody replays,*)
(* the newest message is still to be worked on, or in the failed set: a    *)
(* message is acknowledged only after the continuation behind it is sent,  *)
(* and a continuation always has a higher id than the message it continues,*)
(* because it stands behind at least one more chunk.                       *)
(***************************************************************************)
Unsplit == jobStatus \in {"none", "PENDING", "SPLITTING"}
Sent(m) == splitQ[m].state # "absent"
SentPast(m) == \E n \in SplitId : m < n /\ Sent(n)

\* What holds of the message a splitter works on.
OnItsWay(s) ==
  LET d == splitters[s] IN
  /\ d.pc # "settle" => d.ok
  /\ d.pc # "idle" => Sent(d.msg)
  /\ d.pc \notin {"idle", "claim"} /\ d.ok => jobStatus \notin {"none", "PENDING"}
  /\ d.pc \in {"read", "row", "offer", "checkpoint"} => d.msg <= d.idx
  /\ d.pc = "pause" => d.msg < d.idx
  /\ d.pc \in {"finish", "bump"} => ~Unsplit
  /\ d.pc = "settle" /\ d.ok /\ Unsplit => SentPast(d.msg)

SentUpToCheckpoint == \A m \in SplitId : Sent(m) => m <= nextChunk

\* An acknowledged message of an unfinished split has a successor.
AcknowledgedIsContinued ==
  \A m \in SplitId : splitQ[m].state = "completed" /\ Unsplit => SentPast(m)

\* The requests that are about to offer the split of their upload.
Offering == {r \in Clients : ClientAt(r, "offer")}

\* Nothing is sent before the upload, and something is by the time the split runs; in
\* between every upload has offered the split, is about to, or has failed.
SentFromUpload ==
  /\ IsFiniteSet(Offering)
  /\ jobStatus = "none" => /\ \A m \in SplitId : ~Sent(m)
                           /\ Offering = {} /\ Spent("uploads") = 0
  /\ jobStatus = "PENDING" => \/ Sent(0)
                              \/ Spent("uploads") <= Spent("errors") + Cardinality(Offering)
  /\ jobStatus = "SPLITTING" => \E m \in SplitId : Sent(m)

SplitInv ==
  /\ \A s \in Splitters : OnItsWay(s)
  /\ SentUpToCheckpoint /\ AcknowledgedIsContinued /\ SentFromUpload

\* The status of a job leaves the states before the end of the split for good.
LEMMA SplitStatusMove ==
  ASSUME [Next]_vars
  PROVE  /\ jobStatus' = "none" => jobStatus = "none"
         /\ jobStatus' = "PENDING" =>
              jobStatus = "PENDING" \/ \E r \in Clients : jobStatus = "none" /\ Upload(r)
         /\ jobStatus' = "SPLITTING" =>
              jobStatus = "SPLITTING" \/ \E s \in Splitters : SplitClaim(s)
<1> DEFINE Fine == /\ jobStatus' = "none" => jobStatus = "none"
                   /\ jobStatus' = "PENDING" =>
                        jobStatus = "PENDING" \/ \E r \in Clients : jobStatus = "none" /\ Upload(r)
                   /\ jobStatus' = "SPLITTING" =>
                        jobStatus = "SPLITTING" \/ \E s \in Splitters : SplitClaim(s)
<1>1. ASSUME CheckJobCompletion PROVE Fine
  BY <1>1 DEF CheckJobCompletion, FinalStatus
<1>2. ASSUME NEW s \in Splitters, SplitStep(s) \/ SplitFault(s)
      PROVE  Fine
  <2>1. CASE SplitFinish(s)
    BY <1>1, <2>1 DEF SplitFinish
  <2>2. CASE EndOfFile(s) \/ RejectFile(s) \/ SplitClaim(s)
    BY <2>2 DEF EndOfFile, RejectFile, SplitClaim
  <2> QED
    BY <1>2, <2>1, <2>2
    DEF SplitStep, SplitFault, SplitReceive, SplitSkip, PutChunk, InsertChunkRow, OfferChunk,
        Checkpoint, Continue, SplitBump, SplitSettle, SplitThrow, SplitCrash, SplitPause, jobVars
<1>3. ASSUME NEW p \in Processors, ProcStep(p) \/ ProcFault(p)
      PROVE  Fine
  <2>1. CASE Finish(p)
    BY <1>1, <2>1 DEF Finish
  <2> QED
    BY <1>3, <2>1
    DEF ProcStep, ProcFault, Receive, Claim, Skip, Commit, MarkFailed, Bump, Settle, Park,
        Throw, Crash, Pause, jobVars
<1>4. ASSUME NEW r \in Clients, ClientRequest(r) \/ ClientStep(r) \/ ClientFails(r)
      PROVE  Fine
  <2>1. CASE ReplayCheck(r)
    BY <1>1, <2>1 DEF ReplayCheck
  <2>2. CASE Upload(r)
    BY <2>2 DEF Upload
  <2> QED
    BY <1>4, <2>1, <2>2
    DEF ClientRequest, ClientStep, ClientFails, EnqueueSplit, ReplayFind, ReplaySelect,
        ReplayRemove, ReplayEnqueue, ReplayReset, ReplaySplitRemove, ReplaySplitEnqueue,
        ReplayFlip, ReplayBump, jobVars
<1> QED
  BY <1>2, <1>3, <1>4 DEF Next, vars, jobVars, SplitRedeliver, ChunkRedeliver, GoStale

\* Without a replay a message, once sent, has a record for good.
LEMMA SentStays ==
  ASSUME IInv, NoReplayYet, [Next]_vars, NEW m \in SplitId, Sent(m)
  PROVE  Sent(m)'
<1> USE DEF IInv, TypeOK, Sent
<1>1. ASSUME NEW s \in Splitters, SplitReceive(s) PROVE Sent(m)'
  BY <1>1 DEF SplitReceive, MQ!Deliver, MQ!Message
<1>2. ASSUME NEW s \in Splitters, Continue(s) PROVE Sent(m)'
  BY <1>2 DEF Continue, MQ!Enqueue
<1>3. ASSUME NEW s \in Splitters, SplitSettle(s) PROVE Sent(m)'
  BY <1>3 DEF SplitSettle, MQ!Complete, MQ!Fail, MQ!Failed, MQ!Message
<1>4. ASSUME NEW s \in Splitters, SplitCrash(s) \/ SplitPause(s) PROVE Sent(m)'
  <2>1. splitQ' = MQ!Unlock(splitQ, splitters[s].msg, s)
    BY <1>4 DEF SplitCrash, SplitPause
  <2> QED BY <2>1 DEF MQ!Unlock, MQ!Message
<1>5. ASSUME NEW r \in Clients, EnqueueSplit(r) PROVE Sent(m)'
  BY <1>5 DEF EnqueueSplit, MQ!Enqueue
<1>6. ASSUME NEW r \in Clients PROVE ~ReplaySplitRemove(r) /\ ~ReplaySplitEnqueue(r)
  BY DEF NoReplayYet, ReplaySplitRemove, ReplaySplitEnqueue, ClientAt
<1>7. ASSUME NEW n \in SplitId, SplitRedeliver(n) PROVE Sent(m)'
  BY <1>7 DEF SplitRedeliver, MQ!Redeliver, MQ!Message
<1> QED BY <1>1, <1>2, <1>3, <1>4, <1>5, <1>6, <1>7, SplitQueueWriters

\* A message that is new was sent by an upload, or by a splitter that goes on
\* behind the chunk it has just checkpointed.
LEMMA NewlySent ==
  ASSUME IInv, NoReplayYet, [Next]_vars, NEW m \in SplitId, ~Sent(m), Sent(m)'
  PROVE  \/ m = 0 /\ \E r \in Clients : EnqueueSplit(r)
         \/ \E s \in Splitters : Continue(s) /\ splitters[s].idx = m
<1> USE DEF IInv, TypeOK, Sent
<1>1. ASSUME NEW s \in Splitters, SplitReceive(s) PROVE FALSE
  BY <1>1 DEF SplitReceive, MQ!Deliver
<1>2. ASSUME NEW s \in Splitters, Continue(s) PROVE splitters[s].idx = m
  BY <1>2 DEF Continue, MQ!Enqueue
<1>3. ASSUME NEW s \in Splitters, SplitSettle(s) PROVE FALSE
  BY <1>3 DEF SplitSettle, MQ!Complete, MQ!Fail, MQ!Holds
<1>4. ASSUME NEW s \in Splitters, SplitCrash(s) \/ SplitPause(s) PROVE FALSE
  BY <1>4 DEF SplitCrash, SplitPause, MQ!Unlock, MQ!Holds
<1>5. ASSUME NEW r \in Clients, EnqueueSplit(r) PROVE m = 0
  BY <1>5 DEF EnqueueSplit, MQ!Enqueue
<1>6. ASSUME NEW r \in Clients PROVE ~ReplaySplitRemove(r) /\ ~ReplaySplitEnqueue(r)
  BY DEF NoReplayYet, ReplaySplitRemove, ReplaySplitEnqueue, ClientAt
<1>7. ASSUME NEW n \in SplitId, SplitRedeliver(n) PROVE FALSE
  BY <1>7 DEF SplitRedeliver, MQ!Redeliver, MQ!Stalled
<1> QED BY <1>1, <1>2, <1>3, <1>4, <1>5, <1>6, <1>7, SplitQueueWriters

\* A message is acknowledged by a splitter whose handler returned.
LEMMA NewlyAcknowledged ==
  ASSUME IInv, NoReplayYet, [Next]_vars, NEW m \in SplitId,
         splitQ[m].state # "completed", splitQ'[m].state = "completed"
  PROVE  \E s \in Splitters : SplitSettle(s) /\ splitters[s].msg = m /\ splitters[s].ok
<1> USE DEF IInv, TypeOK
<1>1. ASSUME NEW s \in Splitters, SplitReceive(s) PROVE FALSE
  BY <1>1 DEF SplitReceive, MQ!Deliver, MQ!Message
<1>2. ASSUME NEW s \in Splitters, Continue(s) PROVE FALSE
  BY <1>2 DEF Continue, MQ!Enqueue, MQ!NoMessage
<1>3. ASSUME NEW s \in Splitters, SplitSettle(s)
      PROVE  splitters[s].msg = m /\ splitters[s].ok
  BY <1>3 DEF SplitSettle, MQ!Complete, MQ!Fail, MQ!Failed, MQ!Message, SplitterState
<1>4. ASSUME NEW s \in Splitters, SplitCrash(s) \/ SplitPause(s) PROVE FALSE
  <2>1. splitQ' = MQ!Unlock(splitQ, splitters[s].msg, s)
    BY <1>4 DEF SplitCrash, SplitPause
  <2> QED BY <2>1 DEF MQ!Unlock, MQ!Message
<1>5. ASSUME NEW r \in Clients, EnqueueSplit(r) PROVE FALSE
  BY <1>5 DEF EnqueueSplit, MQ!Enqueue, MQ!NoMessage
<1>6. ASSUME NEW r \in Clients PROVE ~ReplaySplitRemove(r) /\ ~ReplaySplitEnqueue(r)
  BY DEF NoReplayYet, ReplaySplitRemove, ReplaySplitEnqueue, ClientAt
<1>7. ASSUME NEW n \in SplitId, SplitRedeliver(n) PROVE FALSE
  BY <1>7 DEF SplitRedeliver, MQ!Redeliver, MQ!Message
<1> QED BY <1>1, <1>2, <1>3, <1>4, <1>5, <1>6, <1>7, SplitQueueWriters

\* A job once split stays split, and one whose split started stays started.
LEMMA SplitStaysDone ==
  ASSUME [Next]_vars
  PROVE  /\ Unsplit' => Unsplit
         /\ jobStatus' \in {"none", "PENDING"} => jobStatus \in {"none", "PENDING"}
  BY SplitStatusMove DEF Unsplit, SplitClaim, Splittable

\* A message that has a successor keeps it.
LEMMA SuccessorStays ==
  ASSUME IInv, NoReplayYet, [Next]_vars, NEW m \in SplitId, SentPast(m)
  PROVE  SentPast(m)'
  BY SentStays DEF SentPast

\* A splitter that another actor leaves alone is as far on its way as before.
LEMMA RestIsOnItsWay ==
  ASSUME IInv, NoReplayYet, [Next]_vars, NEW s \in Splitters, OnItsWay(s),
         splitters'[s] = splitters[s]
  PROVE  OnItsWay(s)'
<1>1. PICK m \in SplitId : m = splitters[s].msg
  BY DEF IInv, TypeOK, SplitterState
<1>2. Sent(m) => Sent(m)'
  BY SentStays
<1>3. SentPast(m) => SentPast(m)'
  BY SuccessorStays
<1> QED BY <1>1, <1>2, <1>3, SplitStaysDone DEF OnItsWay

\* A splitter that moves is on its way: it never returns with success from an
\* unfinished split before a continuation with a higher id is sent.
LEMMA MoverIsOnItsWay ==
  ASSUME IInv, NoReplayYet, OfferInv, SplitInv, [Next]_vars, NEW s \in Splitters,
         SplitStep(s) \/ SplitFault(s)
  PROVE  OnItsWay(s)'
<1>1. splitters[s] \in SplitterState /\ splitters \in [Splitters -> SplitterState] /\ OnItsWay(s)
  BY DEF IInv, TypeOK, SplitInv
<1>2. PICK m \in SplitId : m = splitters[s].msg
  BY <1>1 DEF SplitterState
<1>3. Sent(m) => Sent(m)'
  BY SentStays
<1>4. SentPast(m) => SentPast(m)'
  BY SuccessorStays
<1>5. m \in Nat /\ splitters[s].idx \in Nat /\ nextChunk \in Nat
  BY <1>1, MaxChunksAssumption DEF SplitId, SplitterState, IInv, TypeOK
<1>6. CASE splitters'[s] = splitters[s]
  BY <1>1, <1>6, RestIsOnItsWay
<1>7. CASE SplitReceive(s)
  <2>1. PICK n \in SplitId :
          /\ splitQ[n].state = "waiting"
          /\ splitters' = [splitters EXCEPT ![s] = [IdleSplitter EXCEPT !.pc = "claim", !.msg = n]]
    BY <1>7 DEF SplitReceive
  <2>2. /\ splitters'[s].pc = "claim"
        /\ splitters'[s].msg = n
        /\ splitters'[s].ok
    BY <1>1, <2>1 DEF IdleSplitter
  <2>3. Sent(n)'
    BY <2>1, SentStays DEF Sent
  <2> QED BY <2>2, <2>3 DEF OnItsWay
<1>8. CASE SplitClaim(s)
  <2>1. /\ splitters'[s].pc = "read" /\ splitters'[s].ok = splitters[s].ok
        /\ splitters'[s].msg = m /\ splitters'[s].idx = nextChunk
    BY <1>1, <1>2, <1>8 DEF SplitClaim, SplitterState
  <2>2. m <= nextChunk /\ Sent(m)' /\ splitters[s].ok
    BY <1>1, <1>2, <1>3, <1>8 DEF SplitClaim, SplitAt, OnItsWay, SplitInv, SentUpToCheckpoint
  <2>3. jobStatus' = "SPLITTING"
    BY <1>8 DEF SplitClaim
  <2> QED BY <2>1, <2>2, <2>3 DEF OnItsWay
<1>9. CASE SplitSkip(s)
  <2>1. /\ splitters'[s].pc = "settle" /\ splitters'[s].ok = splitters[s].ok
        /\ splitters'[s].msg = m
    BY <1>1, <1>2, <1>9 DEF SplitSkip, SplitGoto, SplitterState
  <2>2. Sent(m)' /\ Sent(m)
    BY <1>1, <1>2, <1>3, <1>9 DEF SplitSkip, SplitAt, OnItsWay
  <2>3. ~Unsplit /\ UNCHANGED jobStatus
    BY <1>9, <2>2 DEF SplitSkip, Splittable, Unsplit, jobVars, SplitInv, SentFromUpload
  <2> QED BY <2>1, <2>2, <2>3 DEF OnItsWay, Unsplit
<1>10. CASE PutChunk(s) \/ InsertChunkRow(s) \/ OfferChunk(s)
  <2>1. /\ splitters'[s].pc \in {"row", "offer", "checkpoint"}
        /\ splitters'[s].ok = splitters[s].ok
        /\ splitters'[s].msg = m
        /\ splitters'[s].idx = splitters[s].idx
    BY <1>1, <1>2, <1>10 DEF PutChunk, InsertChunkRow, OfferChunk, SplitGoto, SplitterState
  <2>2. splitters[s].pc \in {"read", "row", "offer"} /\ UNCHANGED jobStatus
    BY <1>10 DEF PutChunk, InsertChunkRow, OfferChunk, SplitAt, jobVars
  <2> QED BY <1>1, <1>2, <1>3, <2>1, <2>2 DEF OnItsWay
<1>11. CASE Checkpoint(s)
  <2>1. /\ splitters'[s].pc \in {"read", "pause"}
        /\ splitters'[s].ok = splitters[s].ok
        /\ splitters'[s].msg = m
        /\ splitters'[s].idx = splitters[s].idx + 1
    BY <1>1, <1>2, <1>11 DEF Checkpoint, SplitterState
  <2>2. splitters[s].pc = "checkpoint" /\ UNCHANGED jobStatus
    BY <1>11 DEF Checkpoint, SplitAt
  <2>3. m < splitters[s].idx + 1 /\ m <= splitters[s].idx + 1
    BY <1>1, <1>2, <1>5, <2>2 DEF OnItsWay
  <2> QED BY <1>1, <1>2, <1>3, <2>1, <2>2, <2>3 DEF OnItsWay
<1>12. CASE Continue(s)
  <2>1. /\ splitters'[s].pc = "settle"
        /\ splitters'[s].ok = splitters[s].ok
        /\ splitters'[s].msg = m
    BY <1>1, <1>2, <1>12 DEF Continue, SplitGoto, SplitterState
  <2>2. splitters[s].pc = "pause" /\ UNCHANGED jobStatus /\ m < splitters[s].idx /\ Sent(m)'
    BY <1>1, <1>2, <1>3, <1>12 DEF Continue, SplitAt, jobVars, OnItsWay
  <2>3. PICK i \in SplitId : i = splitters[s].idx
    <3>1. splitters[s].idx <= Total(file) /\ Total(file) \in 0 .. MaxChunks
      BY <2>2, TotalBound DEF IInv, TypeOK, SplitterIsCovered
    <3> QED BY <1>5, <3>1, MaxChunksAssumption DEF SplitId
  <2>4. Sent(i)'
    BY <1>12, <2>3 DEF Continue, MQ!Enqueue, MQ!NoMessage, Sent, IInv, TypeOK
  <2>5. SentPast(m)'
    BY <2>2, <2>3, <2>4 DEF SentPast
  <2> QED BY <1>1, <2>1, <2>2, <2>5 DEF OnItsWay
<1>13. CASE EndOfFile(s) \/ RejectFile(s)
  <2>1. /\ splitters'[s].pc \in {"finish", "settle"}
        /\ splitters'[s].ok = splitters[s].ok
        /\ splitters'[s].msg = m
    BY <1>1, <1>2, <1>13 DEF EndOfFile, RejectFile, SplitGoto, SplitterState
  <2>2. splitters[s].pc = "read" /\ splitters[s].ok /\ Sent(m)'
    BY <1>1, <1>2, <1>3, <1>13 DEF EndOfFile, RejectFile, SplitAt, OnItsWay
  <2>3. jobStatus \notin {"none", "PENDING"}
    BY <1>1, <2>2 DEF OnItsWay
  <2>4. ~Unsplit' /\ jobStatus' \notin {"none", "PENDING"}
    BY <1>13, <2>3 DEF EndOfFile, RejectFile, Unsplit
  <2> QED BY <2>1, <2>2, <2>4 DEF OnItsWay
<1>14. CASE SplitFinish(s) \/ SplitBump(s)
  <2>1. /\ splitters'[s].pc \in {"bump", "settle"}
        /\ splitters'[s].ok = splitters[s].ok
        /\ splitters'[s].msg = m
    BY <1>1, <1>2, <1>14 DEF SplitFinish, SplitBump, SplitGoto, SplitterState
  <2>2. splitters[s].pc \in {"finish", "bump"} /\ splitters[s].ok /\ Sent(m)' /\ ~Unsplit
    BY <1>1, <1>2, <1>3, <1>14 DEF SplitFinish, SplitBump, SplitAt, OnItsWay
  <2>3. ~Unsplit' /\ jobStatus' \notin {"none", "PENDING"}
    BY <2>2, SplitStaysDone DEF Unsplit
  <2> QED BY <2>1, <2>2, <2>3 DEF OnItsWay
<1>15. CASE SplitSettle(s) \/ SplitCrash(s)
  <2>1. splitters'[s].pc = "idle" /\ splitters'[s].ok
    BY <1>1, <1>15 DEF SplitSettle, SplitCrash, IdleSplitter
  <2> QED BY <2>1 DEF OnItsWay
<1>16. CASE SplitThrow(s)
  <2>1. /\ splitters'[s].pc = "settle"
        /\ splitters'[s].ok = FALSE
        /\ splitters'[s].msg = m
    BY <1>1, <1>2, <1>16 DEF SplitThrow, SplitterState
  <2>2. splitters[s].pc # "idle"
    BY <1>16, SplitterFaultsAssumption DEF SplitThrow
  <2> QED BY <1>1, <1>2, <1>3, <2>1, <2>2 DEF OnItsWay
<1>17. CASE SplitPause(s)
  BY <1>6, <1>17 DEF SplitPause
<1> QED
  BY <1>7, <1>8, <1>9, <1>10, <1>11, <1>12, <1>13, <1>14, <1>15, <1>16, <1>17
  DEF SplitStep, SplitFault

\* Every message is at most as far as the checkpoint.
LEMMA SentStaysBehind ==
  ASSUME IInv, NoReplayYet, OfferInv, SplitInv, [Next]_vars
  PROVE  SentUpToCheckpoint'
<1>1. nextChunk' >= nextChunk /\ nextChunk \in Nat /\ nextChunk' \in Nat
  BY CheckpointStaysRight, StepKeepsTypes, MaxChunksAssumption DEF IInv, TypeOK
<1>2. SUFFICES ASSUME NEW m \in SplitId, Sent(m)'
               PROVE  m <= nextChunk
  BY <1>1, MaxChunksAssumption DEF SentUpToCheckpoint, SplitId
<1>3. CASE Sent(m)
  BY <1>3 DEF SplitInv, SentUpToCheckpoint
<1>4. CASE m = 0
  BY <1>1, <1>4
<1>5. ASSUME NEW s \in Splitters, Continue(s), splitters[s].idx = m
      PROVE  m <= nextChunk
  BY <1>5 DEF Continue, SplitAt, OfferInv, SplitterIsOffered
<1> QED BY <1>2, <1>3, <1>4, <1>5, NewlySent

\* An acknowledged message of an unfinished split has a successor.
LEMMA AcknowledgedStaysContinued ==
  ASSUME IInv, NoReplayYet, SplitInv, [Next]_vars
  PROVE  AcknowledgedIsContinued'
<1>1. SUFFICES ASSUME NEW m \in SplitId, splitQ'[m].state = "completed", Unsplit'
               PROVE  SentPast(m)'
  BY DEF AcknowledgedIsContinued
<1>2. Unsplit
  BY <1>1, SplitStaysDone
<1>3. CASE splitQ[m].state = "completed"
  BY <1>2, <1>3, SuccessorStays DEF SplitInv, AcknowledgedIsContinued
<1>4. ASSUME NEW s \in Splitters, SplitSettle(s), splitters[s].msg = m, splitters[s].ok
      PROVE  SentPast(m)'
  BY <1>2, <1>4, SuccessorStays DEF SplitInv, OnItsWay, SplitSettle, SplitAt
<1> QED BY <1>1, <1>3, <1>4, NewlyAcknowledged

\* While nobody replays, an upload may come to offer a split; whoever offers one does
\* so or fails.
LEMMA OffersMove ==
  ASSUME IInv, NoReplayYet, [Next]_vars
  PROVE  \/ Offering' = Offering
         \/ \E r \in Clients : Upload(r) /\ r \notin Offering /\ Offering' \in {Offering, Offering \cup {r}}
         \/ \E r \in Offering : (EnqueueSplit(r) \/ ClientFails(r)) /\ Offering' = Offering \ {r}
<1>1. clients \in [Clients -> ClientState] /\ \A r \in Clients : clients[r].pc \in {"idle", "offer"}
  BY DEF IInv, TypeOK, NoReplayYet
<1>2. ASSUME NEW r \in Clients, clients'[r] # clients[r]
      PROVE  Upload(r) \/ EnqueueSplit(r) \/ ClientFails(r)
  <2>1. ClientRequest(r) \/ ClientStep(r) \/ ClientFails(r)
    BY <1>2, ClientMoves DEF IInv
  <2>2. ~ReplayFind(r)
    BY DEF ReplayFind, Spend, NoReplayYet
  <2> QED
    BY <1>1, <2>1, <2>2
    DEF ClientRequest, ClientStep, ReplaySelect, ReplayRemove, ReplayEnqueue, ReplayReset,
        ReplaySplitRemove, ReplaySplitEnqueue, ReplayFlip, ReplayCheck, ReplayBump, ClientAt
<1>3. CASE \A r \in Clients : clients'[r] = clients[r]
  BY <1>3 DEF Offering, ClientAt
<1>4. ASSUME NEW r \in Clients, Upload(r) PROVE r \notin Offering /\ Offering' \in {Offering, Offering \cup {r}}
  <2>1. \A q \in Clients : q # r => clients'[q] = clients[q]
    BY <1>1, <1>4 DEF Upload, ClientGoto
  <2>2. clients[r].pc = "idle"
    BY <1>4 DEF Upload, ClientAt
  <2> QED BY <2>1, <2>2 DEF Offering, ClientAt
<1>5. ASSUME NEW r \in Clients, EnqueueSplit(r) \/ ClientFails(r), clients'[r] # clients[r]
      PROVE  r \in Offering /\ Offering' = Offering \ {r}
  <2>1. /\ \A q \in Clients : q # r => clients'[q] = clients[q]
        /\ clients'[r].pc = "idle"
    BY <1>1, <1>5 DEF EnqueueSplit, ClientFails, ClientGoto, ClientState, IdleClient
  <2>2. clients[r].pc = "offer"
    BY <1>1, <1>5, ClientFaultsAssumption DEF EnqueueSplit, ClientFails, ClientAt
  <2> QED BY <2>1, <2>2 DEF Offering, ClientAt
<1> QED BY <1>2, <1>3, <1>4, <1>5

\* The offers in progress are finitely many.
LEMMA OffersStayFinite ==
  ASSUME IInv, NoReplayYet, [Next]_vars, IsFiniteSet(Offering)
  PROVE  IsFiniteSet(Offering')
BY OffersMove, FS_AddElement, FS_RemoveElement

\* An upload is counted when it is about to offer the split, and a failure when it does not.
LEMMA OffersAreCounted ==
  ASSUME IInv, NoReplayYet, WithinBudget, SplitInv, [Next]_vars, jobStatus' = "PENDING", ~Sent(0)'
  PROVE  Spent("uploads")' <= Spent("errors")' + Cardinality(Offering')
<1> USE DEF Spent
<1>1. /\ left.uploads \in Nat /\ left.errors \in Nat /\ left'.uploads \in Nat /\ left'.errors \in Nat
      /\ Faults.uploads \in Nat /\ Faults.errors \in Nat
      /\ left'.uploads <= left.uploads /\ left'.errors <= left.errors
  BY BudgetShrinks, StepKeepsBudgetType, FaultsAssumption DEF IInv, TypeOK, FaultKind
<1>2. IsFiniteSet(Offering) /\ Cardinality(Offering) \in Nat
  BY FS_CardinalityType DEF SplitInv, SentFromUpload
<1>3. jobStatus \in {"none", "PENDING"} /\ ~Sent(0)
  BY SplitStatusMove, SentStays, MaxChunksAssumption DEF SplitId
<1>4. Spent("uploads") <= Spent("errors") + Cardinality(Offering)
  <2>1. CASE jobStatus = "none"
    BY <1>1, <1>2, <2>1 DEF SplitInv, SentFromUpload, WithinBudget, FaultKind
  <2>2. CASE jobStatus = "PENDING"
    BY <1>3, <2>2 DEF SplitInv, SentFromUpload
  <2> QED BY <1>3, <2>1, <2>2
<1>5. ASSUME NEW r \in Clients, Upload(r) PROVE Spent("uploads")' <= Spent("errors")' + Cardinality(Offering')
  <2>1. left'.uploads = left.uploads - 1 /\ left'.errors = left.errors
    BY <1>5 DEF Upload, Spend, IInv, TypeOK, FaultKind
  <2>2. ClientAt(r, "offer")' /\ r \notin Offering
    BY <1>3, <1>5 DEF Upload, ClientGoto, ClientAt, Offering, IInv, TypeOK, ClientState
  <2>3. \A q \in Clients : q # r => clients'[q] = clients[q]
    BY <1>5 DEF Upload, ClientGoto, IInv, TypeOK
  <2>4. Offering' = Offering \cup {r}
    BY <2>2, <2>3 DEF Offering, ClientAt
  <2>5. Cardinality(Offering') = Cardinality(Offering) + 1
    BY <1>2, <2>2, <2>4, FS_AddElement
  <2> QED BY <1>1, <1>2, <1>4, <2>1, <2>5
<1>6. ASSUME NEW r \in Offering, ClientFails(r), Offering' = Offering \ {r}
      PROVE  Spent("uploads")' <= Spent("errors")' + Cardinality(Offering')
  <2>1. left'.errors = left.errors - 1 /\ left'.uploads = left.uploads
    BY <1>6 DEF ClientFails, Spend, IInv, TypeOK, FaultKind
  <2>2. Cardinality(Offering') = Cardinality(Offering) - 1
    BY <1>2, <1>6, FS_RemoveElement
  <2> QED BY <1>1, <1>2, <1>4, <2>1, <2>2
<1>7. ASSUME NEW r \in Clients PROVE ~EnqueueSplit(r)
  <2>1. 0 \in SplitId
    BY MaxChunksAssumption DEF SplitId
  <2> QED BY <1>3, <2>1 DEF EnqueueSplit, MQ!Enqueue, MQ!NoMessage, Sent, IInv, TypeOK
<1>8. CASE Offering' = Offering /\ ~\E r \in Clients : Upload(r)
  <2>1. left'.uploads = left.uploads
    BY <1>8, UploadsAreSpent DEF IInv
  <2> QED BY <1>1, <1>2, <1>4, <1>8, <2>1
<1> QED BY <1>5, <1>6, <1>7, <1>8, OffersMove DEF Offering

\* From the upload on the first message is sent, about to be, or was given up.
LEMMA SentStaysFromUpload ==
  ASSUME IInv, NoReplayYet, SplitInv, WithinBudget, [Next]_vars
  PROVE  SentFromUpload'
<1>1. ASSUME jobStatus' = "none"
      PROVE  (\A m \in SplitId : ~Sent(m)') /\ Offering' = {} /\ Spent("uploads")' = 0
  <2>1. (\A m \in SplitId : ~Sent(m)) /\ Offering = {} /\ Spent("uploads") = 0
    BY <1>1, SplitStatusMove DEF SplitInv, SentFromUpload
  <2>2. ASSUME NEW m \in SplitId PROVE ~Sent(m)'
    <3>1. ASSUME NEW r \in Clients PROVE ~EnqueueSplit(r)
      BY <2>1 DEF EnqueueSplit, Offering
    <3>2. ASSUME NEW s \in Splitters PROVE ~Continue(s)
      <4>1. splitters[s].msg \in SplitId
        BY DEF IInv, TypeOK, SplitterState
      <4> QED BY <2>1, <4>1 DEF Continue, SplitAt, SplitInv, OnItsWay
    <3> QED BY <2>1, <3>1, <3>2, NewlySent
  <2>3. ASSUME NEW r \in Clients PROVE ~Upload(r)
    BY <1>1 DEF Upload
  <2>4. Offering' = {}
    BY <2>1, <2>3, OffersMove
  <2>5. Spent("uploads")' = 0
    BY <2>1, <2>3, UploadsAreSpent DEF Spent, IInv
  <2> QED BY <2>2, <2>4, <2>5
<1>2. ASSUME jobStatus' = "PENDING", ~Sent(0)'
      PROVE  Spent("uploads")' <= Spent("errors")' + Cardinality(Offering')
  BY <1>2, OffersAreCounted
<1>3. ASSUME jobStatus' = "SPLITTING"
      PROVE  \E m \in SplitId : Sent(m)'
  <2>1. CASE jobStatus = "SPLITTING"
    BY <2>1, SentStays DEF SplitInv, SentFromUpload
  <2>2. ASSUME NEW s \in Splitters, SplitClaim(s)
        PROVE  \E m \in SplitId : Sent(m)
    BY <2>2 DEF SplitClaim, SplitAt, SplitInv, OnItsWay, IInv, TypeOK, SplitterState
  <2> QED BY <1>3, <2>1, <2>2, SentStays, SplitStatusMove
<1>4. IsFiniteSet(Offering')
  BY OffersStayFinite DEF SplitInv, SentFromUpload
<1> QED BY <1>1, <1>2, <1>3, <1>4 DEF SentFromUpload

\* Every step keeps the split on its way.
LEMMA StepKeepsSplit ==
  IInv /\ NoReplayYet /\ OfferInv /\ WithinBudget /\ SplitInv /\ [Next]_vars => SplitInv'
<1> SUFFICES ASSUME IInv, NoReplayYet, OfferInv, WithinBudget, SplitInv, [Next]_vars
             PROVE  SplitInv'
  OBVIOUS
<1>1. ASSUME NEW s \in Splitters PROVE OnItsWay(s)'
  BY RestIsOnItsWay, MoverIsOnItsWay, SplitterMoves DEF SplitInv, IInv
<1> QED
  BY <1>1, SentStaysBehind, AcknowledgedStaysContinued, SentStaysFromUpload DEF SplitInv

\* If some message was sent, there is a newest one.
LEMMA NewestSent ==
  ASSUME NEW k \in SplitId, Sent(k)
  PROVE  \E m \in SplitId : Sent(m) /\ ~SentPast(m)
<1> DEFINE T == {i \in Nat : \E m \in SplitId : Sent(m) /\ i = MaxChunks - m}
<1>1. \A m \in SplitId : MaxChunks - m \in Nat
  BY MaxChunksAssumption DEF SplitId
<1>2. MaxChunks - k \in T
  BY <1>1
<1>3. PICK i \in T : \A j \in T : ~(<<j, i>> \in OpToRel(<, Nat))
  <2>1. T \subseteq Nat /\ T # {}
    BY <1>2
  <2> QED BY <2>1, NatLessThanWellFounded, WFMin
<1>4. PICK m \in SplitId : Sent(m) /\ i = MaxChunks - m
  BY <1>3
<1>5. ASSUME NEW n \in SplitId, m < n, Sent(n) PROVE FALSE
  <2>1. MaxChunks - n \in T /\ MaxChunks - n \in Nat /\ i \in Nat
    BY <1>1, <1>3, <1>5
  <2>2. ~(MaxChunks - n < i)
    BY <1>3, <2>1 DEF OpToRel
  <2> QED BY <1>4, <1>5, <2>1, <2>2, MaxChunksAssumption DEF SplitId
<1> QED BY <1>4, <1>5 DEF SentPast

\* As long as nobody asks for a replay, an unfinished split always has a message
\* that will go on with it, or one in the failed set where a replay finds it,
\* through errors, crashes, lapsed locks and repeated uploads; and one that has not begun
\* is still without a message only if every upload so far has lost its enqueue.
THEOREM UnfinishedSplitIsNeverLost ==
  ASSUME Faults.replays = 0
  PROVE  Spec => []UnfinishedSplitIsQueued
<1>1. ReplaysEnqueue
  BY DEF ReplaysEnqueue
<1>2. Init => NoReplayYet /\ OfferInv
  BY FaultsAssumption
  DEF Init, OfferInv, CheckpointIsOffered, SplitterIsOffered, NoneIfNoneAllowed, NoReplayYet,
      IdleSplitter, IdleClient
<1>3. Init => SplitInv
  <2> SUFFICES ASSUME Init PROVE SplitInv
    OBVIOUS
  <2>1. Offering = {} /\ Spent("uploads") = 0
    BY FaultsAssumption DEF Init, Offering, ClientAt, IdleClient, Spent, FaultKind
  <2>2. \A m \in SplitId : ~Sent(m)
    BY DEF Init, Sent, MQ!NoMessage
  <2>3. SentFromUpload
    BY <2>1, <2>2, FS_EmptySet DEF Init, SentFromUpload
  <2>4. \A s \in Splitters : OnItsWay(s)
    BY DEF Init, OnItsWay, IdleSplitter
  <2>5. SentUpToCheckpoint /\ AcknowledgedIsContinued
    BY <2>2 DEF Init, SentUpToCheckpoint, AcknowledgedIsContinued, MQ!NoMessage
  <2> QED BY <2>3, <2>4, <2>5 DEF SplitInv
<1>4. Spec => [](NoReplayYet /\ OfferInv)
  BY <1>1, <1>2, NoReplayBegins, StepKeepsOffers, PipelineTypes, PipelineInvariant,
     PipelineIsGrounded, PTL DEF Spec
<1>5. Spec => []SplitInv
  BY <1>3, <1>4, StepKeepsSplit, PipelineInvariant, PipelineIsWithinBudget, PTL DEF Spec
<1>6. IInv /\ SplitInv => UnfinishedSplitIsQueued
  <2> SUFFICES ASSUME IInv, SplitInv PROVE UnfinishedSplitIsQueued
    OBVIOUS
  <2>1. ASSUME jobStatus = "SPLITTING"
        PROVE  \E m \in SplitId : MQ!Live(splitQ, m) \/ splitQ[m].state = "failed"
    <3>1. PICK k \in SplitId : Sent(k)
      BY <2>1 DEF SplitInv, SentFromUpload
    <3>2. PICK m \in SplitId : Sent(m) /\ ~SentPast(m)
      BY <3>1, NewestSent
    <3>3. splitQ[m].state \notin {"absent", "completed"}
      BY <2>1, <3>2 DEF Sent, SplitInv, AcknowledgedIsContinued, Unsplit
    <3> QED BY <3>3 DEF MQ!Live, IInv, TypeOK, MQ!Message, MQ!MessageState
  <2>2. ASSUME jobStatus = "PENDING", ~Sent(0), ~\E r \in Clients : ClientAt(r, "offer")
        PROVE  Spent("uploads") <= Spent("errors")
    <3>1. Spent("uploads") <= Spent("errors") + Cardinality(Offering)
      BY <2>2 DEF SplitInv, SentFromUpload
    <3>2. Cardinality(Offering) = 0
      BY <2>2, FS_EmptySet DEF Offering
    <3>3. Spent("errors") \in Int
      BY FaultsAssumption DEF Spent, FaultKind, IInv, TypeOK
    <3> QED BY <3>1, <3>2, <3>3
  <2> QED BY <2>1, <2>2 DEF UnfinishedSplitIsQueued, Sent
<1> QED BY <1>5, <1>6, PipelineInvariant, PTL
=============================================================================
