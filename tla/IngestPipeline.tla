--------------------------- MODULE IngestPipeline ---------------------------
(***************************************************************************)
(* One ingest job from upload to its final status: the API, the splitter,  *)
(* the chunk processors and the queues between them.                       *)
(***************************************************************************)
EXTENDS Splitter, ChunkProcessor, IngestService

Init ==
  /\ file \in Files
  /\ jobStatus = "none" /\ nextChunk = 0
  /\ chunkStatus = [c \in Chunk |-> "none"]
  /\ attempts = [c \in Chunk |-> 0]
  /\ stale = [c \in Chunk |-> FALSE]
  /\ changed = [c \in Chunk |-> FALSE]
  /\ chunkFiles = {}
  /\ splitQ = [m \in SplitId |-> MQ!NoMessage]
  /\ chunkQ = [c \in Chunk |-> MQ!NoMessage]
  /\ deadLetter = {}
  /\ dirty = {}
  /\ splitters = [s \in Splitters |-> IdleSplitter]
  /\ processors = [p \in Processors |-> IdleProcessor]
  /\ clients = [r \in Clients |-> IdleClient]
  /\ left = Faults

Next ==
  \/ \E s \in Splitters : SplitStep(s) \/ SplitFault(s)
  \/ \E p \in Processors : ProcStep(p) \/ ProcFault(p)
  \/ \E r \in Clients : ClientRequest(r) \/ ClientStep(r) \/ ClientFails(r)
  \/ \E m \in SplitId : SplitRedeliver(m)
  \/ \E c \in Chunk : ChunkRedeliver(c) \/ GoStale(c)

Spec == Init /\ [][Next]_vars

\* Invocations run to their end, queues deliver, the stalled check runs and
\* time passes.  Requests and faults are owed to nobody.
Fairness ==
  /\ \A s \in Splitters : WF_vars(SplitStep(s))
  /\ \A p \in Processors : WF_vars(ProcStep(p))
  /\ \A r \in Clients : WF_vars(ClientStep(r))
  /\ \A m \in SplitId : WF_vars(SplitRedeliver(m))
  /\ \A c \in Chunk : WF_vars(ChunkRedeliver(c)) /\ WF_vars(GoStale(c))

FairSpec == Spec /\ Fairness

-----------------------------------------------------------------------------
FileChunks == 0 .. Total(file) - 1
Terminal == {"COMPLETED", "PARTIAL", "FAILED"}

TypeOK ==
  /\ file \in Files
  /\ jobStatus \in JobStatus
  /\ nextChunk \in 0 .. MaxChunks
  /\ chunkStatus \in [Chunk -> ChunkStatus]
  /\ attempts \in [Chunk -> Nat]
  /\ stale \in [Chunk -> BOOLEAN]
  /\ changed \in [Chunk -> BOOLEAN]
  /\ chunkFiles \subseteq Chunk
  /\ splitQ \in [SplitId -> MQ!Message]
  /\ chunkQ \in [Chunk -> MQ!Message]
  /\ deadLetter \subseteq Chunk
  /\ dirty \subseteq Chunk
  /\ splitters \in [Splitters -> SplitterState]
  /\ processors \in [Processors -> ProcessorState]
  /\ clients \in [Clients -> ClientState]
  /\ left \in [FaultKind -> Nat]

\* The derived completion is never early: a job past its split has a row for
\* every chunk of its file, and a COMPLETED one has every chunk DONE.
\* (src/ingest/completion.ts: no counter anywhere.)
CompletionIsNotEarly ==
  /\ jobStatus \in {"SPLIT_DONE", "COMPLETED", "PARTIAL"} =>
       file.ok /\ FileChunks \subseteq Rows
  /\ jobStatus = "COMPLETED" => \A c \in FileChunks : chunkStatus[c] = "DONE"

\* Whatever the checkpoint lets a resumed splitter skip is in place: file, row
\* and message record.  (writeChunk: file, row, enqueue, then checkpoint.)
CheckpointIsCovered ==
  \A c \in 0 .. nextChunk - 1 :
    c \in chunkFiles /\ c \in Rows /\ chunkQ[c].state # "absent"

\* A message can always be worked on: its row and its file precede it.
MessageHasRowAndFile ==
  \A c \in Chunk : MQ!Live(chunkQ, c) => c \in Rows /\ c \in chunkFiles

\* As long as no lock lapses, one processor at a time is at work on a chunk,
\* through crashes, redeliveries, stale reclaims and replays.
ExclusiveProcessing ==
  left.pauses = Faults.pauses =>
    \A p, q \in Processors :
      p # q /\ {processors[p].pc, processors[q].pc} \subseteq {"process", "markFailed"}
        => processors[p].chunk # processors[q].chunk

\* A chunk that waits to be processed has a message that will process it.
PendingIsQueued ==
  \A c \in 0 .. nextChunk - 1 : chunkStatus[c] = "PENDING" => MQ!Live(chunkQ, c)

\* A delivery that used up its attempts leaves a row that is FAILED, or PROCESSING until it
\* is stale, which is what replay-failed looks for; never one that is still PENDING.
ExhaustedIsReplayable ==
  \A c \in Chunk : chunkQ[c].state = "failed" => chunkStatus[c] # "PENDING"

Spent(kind) == Faults[kind] - left[kind]

\* An unfinished split is on the queue, or in its failed set where replay-failed
\* finds it.  Before that an upload is about to offer it, or every upload of the file so
\* far has lost its enqueue: a job that is still PENDING is offered again by the next one.
UnfinishedSplitIsQueued ==
  /\ jobStatus = "SPLITTING" =>
       \E m \in SplitId : MQ!Live(splitQ, m) \/ splitQ[m].state = "failed"
  /\ jobStatus = "PENDING" =>
       \/ splitQ[0].state # "absent"
       \/ \E r \in Clients : ClientAt(r, "offer")
       \/ Spent("uploads") <= Spent("errors")

\* Whoever makes the last chunk of a split job settle, or returns a settled job
\* to SPLIT_DONE, still has its completion check ahead.  (completion.ts, and
\* replayFailed, whose flip may come after a fast worker's own check.)
SettledJobHasFinisher ==
  CanFinish => \/ \E s \in Splitters : SplitAt(s, "finish")
               \/ \E p \in Processors : ProcAt(p, "finish")
               \/ \E r \in Clients : ClientAt(r, "check")

Replaying == \E r \in Clients : clients[r].pc \notin {"idle", "offer"}

\* PARTIAL says some chunk failed after every retry.
PartialHasFailedChunk ==
  jobStatus = "PARTIAL" /\ ~Replaying => \E c \in FileChunks : chunkStatus[c] = "FAILED"

Bumping ==
  \/ \E s \in Splitters : SplitAt(s, "bump")
  \/ \E p \in Processors : ProcAt(p, "bump")
  \/ \E r \in Clients : ClientAt(r, "bump")

\* Once the finisher of a job has bumped, no price change of the job is left
\* behind a cache entry under the old version.
FinishedJobIsInvalidated ==
  jobStatus \in {"COMPLETED", "PARTIAL"} /\ ~Bumping => dirty = {}

\* No step takes back finished work: a COMPLETED job and a DONE chunk stay so,
\* a PARTIAL job only returns to SPLIT_DONE, and the checkpoint and the
\* attempt counters never go down.
FinishedWorkIsKept ==
  [][ /\ jobStatus = "COMPLETED" => jobStatus' = "COMPLETED"
      /\ jobStatus = "PARTIAL" => jobStatus' \in {"PARTIAL", "SPLIT_DONE"}
      /\ nextChunk' >= nextChunk
      /\ \A c \in Chunk : /\ chunkStatus[c] = "DONE" => chunkStatus'[c] = "DONE"
                          /\ attempts'[c] >= attempts[c] ]_vars

\* A job whose split started comes to a final status.
StartedJobFinishes == jobStatus = "SPLITTING" ~> jobStatus \in Terminal

\* A split job with nothing outstanding is completed by whoever finished last.
\* (src/ingest/completion.ts; ADR section 7.)
SettledJobFinishes == CanFinish ~> jobStatus \in Terminal
=============================================================================
