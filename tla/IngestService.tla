---------------------------- MODULE IngestService ----------------------------
(***************************************************************************)
(* The two state-changing requests of src/ingest/service.ts: createJob (an *)
(* upload, or the same file again) and replayFailed.  A request is a       *)
(* sequence of statements; what it read at its start is kept in the        *)
(* client's record and used, however old, where the code uses it.          *)
(***************************************************************************)
EXTENDS IngestState

ClientPC == {"idle", "offer", "select", "remove", "enqueue", "reset", "splitRemove",
             "splitEnqueue", "flip", "check", "bump"}

\* seen, from: the job row as read by replayFailed; todo: the chunks it still replays.
ClientState == [pc : ClientPC, seen : JobStatus, from : SplitId, todo : SUBSET Chunk]

\* What may reject is a statement of a request.
ASSUME ClientFaultsAssumption == ClientFaults \subseteq ClientPC \ {"idle"}

IdleClient == [pc |-> "idle", seen |-> "none", from |-> 0, todo |-> {}]

ClientAt(r, pc) == clients[r].pc = pc
ClientGoto(r, pc) == clients' = [clients EXCEPT ![r].pc = pc]

\* Mutant of Upload: only the upload that creates the job offers its split.
UploadOffersOnce(r) ==
  /\ ClientAt(r, "idle")
  /\ Spend("uploads")
  /\ jobStatus' = IF jobStatus = "none" THEN "PENDING" ELSE jobStatus
  /\ ClientGoto(r, IF jobStatus = "none" THEN "offer" ELSE "idle")
  /\ UNCHANGED <<file, nextChunk, chunkVars, chunkFiles, queueVars, dirty,
                 splitters, processors>>

\* INSERT .. ON CONFLICT DO NOTHING, or the SELECT of the job already there:
\* only a job that is (still) PENDING has its split offered.
Upload(r) ==
  /\ ClientAt(r, "idle")
  /\ Spend("uploads")
  /\ jobStatus' = IF jobStatus = "none" THEN "PENDING" ELSE jobStatus
  /\ ClientGoto(r, IF jobStatus \in {"none", "PENDING"} THEN "offer" ELSE "idle")
  /\ UNCHANGED <<file, nextChunk, chunkVars, chunkFiles, queueVars, dirty,
                 splitters, processors>>

EnqueueSplit(r) ==
  /\ ClientAt(r, "offer")
  /\ splitQ' = MQ!Enqueue(splitQ, 0)
  /\ ClientGoto(r, "idle")
  /\ UNCHANGED <<file, jobVars, chunkVars, chunkFiles, chunkQ, deadLetter, dirty,
                 splitters, processors, left>>

ReplayFind(r) ==
  /\ ClientAt(r, "idle")
  /\ jobStatus # "none"
  /\ Spend("replays")
  /\ clients' = [clients EXCEPT ![r] =
       [pc |-> "select", seen |-> jobStatus, from |-> nextChunk, todo |-> {}]]
  /\ UNCHANGED <<file, jobVars, chunkVars, chunkFiles, queueVars, dirty,
                 splitters, processors>>

Stuck == {c \in Chunk : \/ chunkStatus[c] = "FAILED"
                        \/ chunkStatus[c] = "PROCESSING" /\ stale[c]}

\* Where a replay goes on with these chunks left: the loop, the split, the flip.
ReplayNext(seen, todo) ==
  IF todo # {} THEN "remove"
  ELSE IF seen \in {"PENDING", "SPLITTING"} THEN "splitRemove"
  ELSE IF seen = "PARTIAL" THEN "flip" ELSE "idle"

ReplayGoto(r, todo) ==
  LET pc == ReplayNext(clients[r].seen, todo) IN
  clients' = [clients EXCEPT ![r] =
    IF pc = "idle" THEN IdleClient ELSE [@ EXCEPT !.pc = pc, !.todo = todo]]

ReplaySelect(r) ==
  /\ ClientAt(r, "select")
  /\ ReplayGoto(r, Stuck)
  /\ UNCHANGED <<file, jobVars, chunkVars, chunkFiles, queueVars, dirty,
                 splitters, processors, left>>

\* The chunk the loop is at: the smallest chunk_index left.
Current(r) == CHOOSE c \in clients[r].todo : \A d \in clients[r].todo : c <= d

ReplayRemove(r) ==
  /\ ClientAt(r, "remove")
  /\ deadLetter' = deadLetter \ {Current(r)}
  /\ chunkQ' \in MQ!Removed(chunkQ, Current(r))
  /\ ClientGoto(r, "enqueue")
  /\ UNCHANGED <<file, jobVars, chunkVars, chunkFiles, splitQ, dirty,
                 splitters, processors, left>>

ReplayEnqueue(r) ==
  /\ ClientAt(r, "enqueue")
  /\ chunkQ' = MQ!Enqueue(chunkQ, Current(r))
  /\ ClientGoto(r, "reset")
  /\ UNCHANGED <<file, jobVars, chunkVars, chunkFiles, splitQ, deadLetter, dirty,
                 splitters, processors, left>>

\* After the enqueue, so a worker may have the chunk already.
ReplayReset(r) ==
  LET c == Current(r) IN
  /\ ClientAt(r, "reset")
  /\ chunkStatus' = [chunkStatus EXCEPT ![c] = IF @ = "FAILED" THEN "PENDING" ELSE @]
  /\ ReplayGoto(r, clients[r].todo \ {c})
  /\ UNCHANGED <<file, jobVars, attempts, stale, changed, chunkFiles, queueVars, dirty,
                 splitters, processors, left>>

ReplaySplitRemove(r) ==
  /\ ClientAt(r, "splitRemove")
  /\ splitQ' \in MQ!Removed(splitQ, clients[r].from)
  /\ ClientGoto(r, "splitEnqueue")
  /\ UNCHANGED <<file, jobVars, chunkVars, chunkFiles, chunkQ, deadLetter, dirty,
                 splitters, processors, left>>

ReplaySplitEnqueue(r) ==
  /\ ClientAt(r, "splitEnqueue")
  /\ splitQ' = MQ!Enqueue(splitQ, clients[r].from)
  /\ clients' = [clients EXCEPT ![r] = IdleClient]
  /\ UNCHANGED <<file, jobVars, chunkVars, chunkFiles, chunkQ, deadLetter, dirty,
                 splitters, processors, left>>

\* Mutant of ReplayFlip: the flip is not followed by a completion check.
ReplayFlipOnly(r) ==
  /\ ClientAt(r, "flip")
  /\ jobStatus' = IF jobStatus = "PARTIAL" THEN "SPLIT_DONE" ELSE jobStatus
  /\ clients' = [clients EXCEPT ![r] = IdleClient]
  /\ UNCHANGED <<file, nextChunk, chunkVars, chunkFiles, queueVars, dirty,
                 splitters, processors, left>>

ReplayFlip(r) ==
  /\ ClientAt(r, "flip")
  /\ jobStatus' = IF jobStatus = "PARTIAL" THEN "SPLIT_DONE" ELSE jobStatus
  /\ ClientGoto(r, "check")
  /\ UNCHANGED <<file, nextChunk, chunkVars, chunkFiles, queueVars, dirty,
                 splitters, processors, left>>

ReplayCheck(r) ==
  /\ ClientAt(r, "check")
  /\ CheckJobCompletion
  /\ clients' = [clients EXCEPT ![r] =
       IF CanFinish THEN [@ EXCEPT !.pc = "bump"] ELSE IdleClient]
  /\ UNCHANGED <<file, nextChunk, chunkVars, chunkFiles, queueVars, dirty,
                 splitters, processors, left>>

ReplayBump(r) ==
  /\ ClientAt(r, "bump")
  /\ AfterJobFinished
  /\ clients' = [clients EXCEPT ![r] = IdleClient]
  /\ UNCHANGED <<file, jobVars, chunkVars, chunkFiles, queueVars,
                 splitters, processors, left>>

\* A statement rejects (a queue outage is a 503), or the process dies: no retry.
ClientFails(r) ==
  /\ clients[r].pc \in ClientFaults
  /\ Spend("errors")
  /\ clients' = [clients EXCEPT ![r] = IdleClient]
  /\ UNCHANGED <<file, jobVars, chunkVars, chunkFiles, queueVars, dirty,
                 splitters, processors>>

ClientRequest(r) == Upload(r) \/ ReplayFind(r)

ClientStep(r) ==
  \/ EnqueueSplit(r) \/ ReplaySelect(r) \/ ReplayRemove(r) \/ ReplayEnqueue(r)
  \/ ReplayReset(r) \/ ReplaySplitRemove(r) \/ ReplaySplitEnqueue(r)
  \/ ReplayFlip(r) \/ ReplayCheck(r) \/ ReplayBump(r)
=============================================================================
