----------------------------- MODULE IngestState -----------------------------
(***************************************************************************)
(* The state one ingest job lives in, shared by the API, the splitter and  *)
(* the chunk processors: its row in ingest_jobs, its rows in ingest_chunks,*)
(* its chunk files, the three queues, and the catalog categories whose     *)
(* cached prices are out of date.  The two operations every actor may run, *)
(* the completion check and the invalidation after it, are defined here.   *)
(*                                                                         *)
(* Chunk i of the file changes prices in a category of its own, named i:   *)
(* a category shared by two chunks could be invalidated on behalf of the   *)
(* other and hide a lost bump.                                             *)
(***************************************************************************)
EXTENDS Integers, FiniteSets

CONSTANTS
  Splitters, Processors,  \* concurrent invocations of the two worker handlers
  Clients,                \* concurrent requests of the API
  NoWorker, MaxAttempts,
  MaxChunks,              \* bound on the chunks of a file
  Files,                  \* the files that may be uploaded
  Faults,                 \* how often each kind of fault and request may happen
  SplitterFaults, ProcessorFaults, ClientFaults  \* steps that may throw

VARIABLES
  file,         \* the uploaded file
  jobStatus, nextChunk,                       \* the row of ingest_jobs
  chunkStatus, attempts, stale, changed,      \* the rows of ingest_chunks
  chunkFiles,                                 \* chunk files in storage
  splitQ, chunkQ, deadLetter,                 \* the three queues
  dirty,        \* categories with a price change no version bump followed
  splitters, processors, clients,             \* where each invocation stands
  left          \* faults and requests still to come

Chunk == 0 .. MaxChunks - 1
SplitId == 0 .. MaxChunks     \* split:<job>:<fromChunk>

File == [full : 0 .. MaxChunks, tail : BOOLEAN, ok : BOOLEAN]

\* full chunks, then a shorter tail; ok is FALSE when the parser rejects the file.
Total(f) == f.full + (IF f.tail THEN 1 ELSE 0)

FaultKind == {"errors", "crashes", "pauses", "uploads", "replays"}

ASSUME NoWorkerAssumption == NoWorker \notin Splitters \cup Processors
ASSUME MaxAttemptsAssumption == MaxAttempts \in Nat \ {0}
ASSUME MaxChunksAssumption == MaxChunks \in Nat \ {0}
ASSUME FilesAssumption ==
  Files \subseteq {f \in File : Total(f) <= MaxChunks /\ (~f.ok => ~f.tail)}
ASSUME FaultsAssumption == Faults \in [FaultKind -> Nat]

MQ == INSTANCE MessageQueue WITH Workers <- Splitters \cup Processors

JobStatus == {"none", "PENDING", "SPLITTING", "SPLIT_DONE", "COMPLETED", "PARTIAL", "FAILED"}
ChunkStatus == {"none", "PENDING", "PROCESSING", "DONE", "FAILED"}  \* none: no row yet

jobVars == <<jobStatus, nextChunk>>
chunkVars == <<chunkStatus, attempts, stale, changed>>
queueVars == <<splitQ, chunkQ, deadLetter>>
vars == <<file, jobVars, chunkVars, chunkFiles, queueVars, dirty,
          splitters, processors, clients, left>>

Spend(kind) == left[kind] > 0 /\ left' = [left EXCEPT ![kind] = @ - 1]

Rows == {c \in Chunk : chunkStatus[c] # "none"}

\* Mutant of Outstanding: the first FAILED counts as final.
OutstandingUnlessFailed(c) == chunkStatus[c] \notin {"DONE", "FAILED"}

\* Mutant of Outstanding: one attempt too many is waited for.
OutstandingPastMax(c) ==
  chunkStatus[c] # "DONE" /\ ~(chunkStatus[c] = "FAILED" /\ attempts[c] > MaxAttempts)

\* Mutant of Outstanding: a chunk some processor has taken is not waited for.
OutstandingUnlessTaken(c) == chunkStatus[c] \in {"PENDING", "FAILED"}

\* A chunk is outstanding unless it is DONE, or FAILED with no attempts left.
Outstanding(c) ==
  chunkStatus[c] # "DONE" /\ ~(chunkStatus[c] = "FAILED" /\ attempts[c] >= MaxAttempts)

CanFinish == jobStatus = "SPLIT_DONE" /\ \A c \in Rows : ~Outstanding(c)

FinalStatus == IF \E c \in Rows : chunkStatus[c] = "FAILED" THEN "PARTIAL" ELSE "COMPLETED"

\* One conditional UPDATE; the caller invalidates only if it flipped the job.
CheckJobCompletion == jobStatus' = IF CanFinish THEN FinalStatus ELSE jobStatus

\* One version bump per category on the job's chunk rows.
AfterJobFinished == dirty' = dirty \ {c \in Chunk : changed[c]}
=============================================================================
