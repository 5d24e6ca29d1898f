------------------------------ MODULE IngestView ------------------------------
(***************************************************************************)
(* The ingest view of ui/app.js: the list of the newest jobs, the card of  *)
(* the selected one, and the polling that goes on while a job is not       *)
(* finished.  A refresh is a chain of requests: the list, the selected job *)
(* if the list does not have it, and its chunks.                           *)
(***************************************************************************)
EXTENDS ProductsView

CONSTANTS
  Jobs,          \* naturals, the newest last
  ListLimit      \* how many jobs the list has

VARIABLES
  job,           \* on the server: none, running, PARTIAL or COMPLETED
  selected, timer, watching,    \* of the object ingest; timer: armed or not
  jobRows,       \* the statuses in the list as shown
  card,          \* the job shown and its status
  uploading, replaying          \* the buttons are disabled

ingestVars == <<job, selected, timer, watching, jobRows, card, uploading, replaying>>

Statuses == {"none", "running", "PARTIAL", "COMPLETED"}
TERMINAL == {"PARTIAL", "COMPLETED"}
Refreshes == {"jobs", "job", "chunks"}
NoJobs == [j \in Jobs |-> "none"]
NoCard == [job |-> Nothing, status |-> "none"]

-----------------------------------------------------------------------------
(* The server.                                                               *)

\* GET /ingest/jobs: the newest ListLimit.
Listed ==
  LET all == {j \in Jobs : job[j] # "none"}
  IN  [j \in Jobs |-> IF j \in all /\ Cardinality({k \in all : k > j}) < ListLimit THEN job[j] ELSE "none"]

Finish(j, status) ==
  /\ job[j] = "running"
  /\ job' = [job EXCEPT ![j] = status]
  /\ UNCHANGED <<shell, productVars, selected, timer, watching, jobRows, card, uploading, replaying>>

-----------------------------------------------------------------------------
(* refreshIngest.                                                            *)

\* Its start, after the requests in base.  The submission of the upload form waits for
\* the refresh it starts.
RefreshFor(upload, base) ==
  /\ timer' = FALSE
  /\ inflight' = Append(Superseded(Refreshes, base), Request("jobs", [upload |-> upload]))

Refresh(base) == RefreshFor(FALSE, base)

ServeRefresh(i) ==
  /\ \/ Unserved(i, {"jobs"}) /\ Reply(i, Listed)
     \/ Unserved(i, {"job"}) /\ Reply(i, job[inflight[i].arg.job])
  /\ NoFault
  /\ UNCHANGED <<view, stale, productVars, ingestVars>>

\* The chain of request i goes on with another one.  Of a chain that is superseded and
\* that nobody waits for nothing more is seen; it is not followed further.
Continued(i, kind, arg) ==
  inflight' = IF inflight[i].current \/ inflight[i].arg.upload
                THEN [inflight EXCEPT ![i] = [Request(kind, arg) EXCEPT !.current = inflight[i].current]]
                ELSE Others(i)

\* The chain of request i has ended; so has the submission that waited for it.
Released(i) == uploading' = (uploading /\ ~inflight[i].arg.upload)

Newest(statuses) ==
  IF \E j \in Jobs : statuses[j] # "none"
    THEN CHOOSE j \in Jobs : statuses[j] # "none" /\ \A k \in Jobs : statuses[k] # "none" => k <= j
    ELSE Nothing

\* Mutant of Unfinished: only the jobs of the list are watched.
UnfinishedInList(statuses, shown) == {j \in Jobs : statuses[j] = "running"}

\* The jobs that are to be watched: of the list and the card.
Unfinished(statuses, shown) ==
  {j \in Jobs : statuses[j] = "running" \/ (shown.job = j /\ shown.status = "running")}

Finished(statuses, shown) ==
  {j \in Jobs : statuses[j] \in TERMINAL \/ (shown.job = j /\ shown.status \in TERMINAL)}

\* The end of refresh i: everything is shown, unless a later one has begun.
Render(i, statuses, shown) ==
  /\ inflight' = Others(i) /\ Released(i)
  /\ IF inflight[i].current
       THEN /\ jobRows' = statuses /\ card' = shown
            /\ stale' = (stale \/ Finished(statuses, shown) \cap watching # {})
            /\ watching' = Unfinished(statuses, shown)
            /\ timer' = (watching' # {} /\ view = "ingest")
       ELSE UNCHANGED <<jobRows, card, stale, watching, timer>>

AnswerJobs(i) ==
  /\ Served(i, {"jobs"})
  /\ LET statuses == inflight[i].reply
         choice == IF selected = Nothing THEN Newest(statuses) ELSE selected
     IN  /\ selected' = choice
         /\ IF choice = Nothing THEN Render(i, statuses, NoCard)
            ELSE /\ IF statuses[choice] # "none"
                      THEN Continued(i, "chunks", [jobs |-> statuses, job |-> choice, status |-> statuses[choice],
                                               upload |-> inflight[i].arg.upload])
                      ELSE Continued(i, "job", [jobs |-> statuses, job |-> choice, upload |-> inflight[i].arg.upload])
                 /\ UNCHANGED <<jobRows, card, stale, watching, timer, uploading>>
  /\ NoFault
  /\ UNCHANGED <<view, productVars, job, replaying>>

AnswerJob(i) ==
  /\ Served(i, {"job"})
  /\ LET a == inflight[i].arg
     IN  Continued(i, "chunks", [jobs |-> a.jobs, job |-> a.job, status |-> inflight[i].reply, upload |-> a.upload])
  /\ NoFault
  /\ UNCHANGED <<view, stale, productVars, ingestVars>>

AnswerChunks(i) ==
  /\ i \in InFlight({"chunks"})
  /\ LET a == inflight[i].arg IN Render(i, a.jobs, [job |-> a.job, status |-> a.status])
  /\ NoFault
  /\ UNCHANGED <<view, productVars, job, selected, replaying>>

\* The failure of a current refresh ends the polling.
FailRefresh(i) ==
  /\ i \in InFlight(Refreshes) /\ Fails(i)
  /\ inflight' = Others(i) /\ Released(i)
  /\ UNCHANGED <<view, stale, productVars, job, selected, timer, watching, jobRows, card, replaying>>

\* One second after the last refresh.
Tick ==
  /\ timer
  /\ Refresh(inflight)
  /\ NoFault
  /\ UNCHANGED <<view, stale, productVars, job, selected, watching, jobRows, card, uploading, replaying>>

-----------------------------------------------------------------------------
(* The user.                                                                 *)

ClickRefresh ==
  /\ User
  /\ view = "ingest"
  /\ Refresh(inflight)
  /\ UNCHANGED <<view, stale, productVars, job, selected, watching, jobRows, card, uploading, replaying>>

SelectJob(j) ==
  /\ User
  /\ view = "ingest" /\ jobRows[j] # "none"
  /\ selected' = j
  /\ Refresh(inflight)
  /\ UNCHANGED <<view, stale, productVars, job, watching, jobRows, card, uploading, replaying>>

Upload ==
  /\ User
  /\ view = "ingest" /\ ~uploading
  /\ uploading' = TRUE
  /\ inflight' = Append(inflight, Request("upload", Nothing))
  /\ UNCHANGED <<view, stale, productVars, job, selected, timer, watching, jobRows, card, replaying>>

\* The next job, or one that has the same file already.
ServeUpload(i) ==
  /\ Unserved(i, {"upload"})
  /\ \E j \in Jobs :
       /\ \A k \in Jobs : k < j => job[k] # "none"
       /\ job' = IF job[j] = "none" THEN [job EXCEPT ![j] = "running"] ELSE job
       /\ Reply(i, j)
  /\ NoFault
  /\ UNCHANGED <<view, stale, productVars, selected, timer, watching, jobRows, card, uploading, replaying>>

AnswerUpload(i) ==
  /\ Served(i, {"upload"})
  /\ selected' = inflight[i].reply
  /\ RefreshFor(TRUE, Others(i))
  /\ NoFault
  /\ UNCHANGED <<view, stale, productVars, job, watching, jobRows, card, uploading, replaying>>

\* The button of the card; the job it asks for is the selected one.
Replay ==
  /\ User
  /\ view = "ingest" /\ card.status \in {"PARTIAL", "running"} /\ ~replaying
  /\ replaying' = TRUE
  /\ inflight' = Append(inflight, Request("replay", selected))
  /\ UNCHANGED <<view, stale, productVars, job, selected, timer, watching, jobRows, card, uploading>>

ServeReplay(i) ==
  /\ Unserved(i, {"replay"})
  /\ job' = [job EXCEPT ![inflight[i].arg] = IF @ = "PARTIAL" THEN "running" ELSE @]
  /\ Reply(i, Nothing)
  /\ NoFault
  /\ UNCHANGED <<view, stale, productVars, selected, timer, watching, jobRows, card, uploading, replaying>>

\* Mutant of AnswerReplay: the view is not refreshed.
AnswerReplayOnly(i) ==
  /\ Served(i, {"replay"})
  /\ replaying' = FALSE
  /\ inflight' = Others(i)
  /\ NoFault
  /\ UNCHANGED <<view, stale, productVars, job, selected, timer, watching, jobRows, card, uploading>>

AnswerReplay(i) ==
  /\ Served(i, {"replay"})
  /\ replaying' = FALSE
  /\ Refresh(Others(i))
  /\ NoFault
  /\ UNCHANGED <<view, stale, productVars, job, selected, watching, jobRows, card, uploading>>

FailCommand(i) ==
  /\ i \in InFlight({"upload", "replay"}) /\ Fails(i)
  /\ inflight' = Others(i)
  /\ uploading' = (uploading /\ inflight[i].kind # "upload")
  /\ replaying' = (replaying /\ inflight[i].kind # "replay")
  /\ UNCHANGED <<view, stale, productVars, job, selected, timer, watching, jobRows, card>>

-----------------------------------------------------------------------------
InitIngest ==
  /\ job \in {NoJobs, [NoJobs EXCEPT ![CHOOSE j \in Jobs : \A k \in Jobs : j <= k] = "running"]}
  /\ selected = Nothing /\ timer = FALSE /\ watching = {}
  /\ jobRows = NoJobs /\ card = NoCard
  /\ uploading = FALSE /\ replaying = FALSE

UserOfIngest == ClickRefresh \/ Upload \/ Replay \/ \E j \in Jobs : SelectJob(j)

AnswersOfIngest ==
  \E i \in DOMAIN inflight :
    \/ ServeRefresh(i) \/ AnswerJobs(i) \/ AnswerJob(i) \/ AnswerChunks(i)
    \/ ServeUpload(i) \/ AnswerUpload(i) \/ ServeReplay(i) \/ AnswerReplay(i)

FaultsOfIngest == \E i \in DOMAIN inflight : FailRefresh(i) \/ FailCommand(i)

-----------------------------------------------------------------------------
\* "A job that finished while we watched it changed the catalog: refresh products"
\* (app.js): no job goes from unfinished to finished before the user's eyes, in the
\* list or on the card, without the products being marked out of date.
ShownUnfinished(j) == jobRows[j] = "running" \/ (card.job = j /\ card.status = "running")
ShownFinished(j) == jobRows[j] \in TERMINAL \/ (card.job = j /\ card.status \in TERMINAL)

FinishMarksStale ==
  [][\A j \in Jobs : ShownUnfinished(j) /\ ~ShownFinished(j) /\ ShownFinished(j)' => stale']_<<jobRows, card>>

\* In the ingest view the list and the card show what the server has in the end, without
\* a click: what is unfinished is polled, in the list or, when newer jobs have pushed it
\* out, on the card.  A failure may stop it: that of a refresh ends the polling, and
\* after that of a replay nobody looks whether the job runs again.
ShownIsTrue ==
  /\ \A j \in Jobs : jobRows[j] \in {"none", job[j]}
  /\ \A j \in Jobs : card.job = j => card.status = job[j]

ListIsTrueInTheEnd == <>[](view = "ingest") => <>[](faults > 0 \/ ShownIsTrue)

\* Polling goes on while a job that is not finished is shown, also one that is on the card
\* only: the next refresh is under way or the timer is armed, until a request fails.
PollingGoesOn ==
  view = "ingest" /\ faults = 0 /\ (\E j \in Jobs : ShownUnfinished(j)) =>
    timer \/ CurrentInFlight(Refreshes) # {}
=============================================================================
