--------------------------- MODULE OperatorUiProofs ---------------------------
(***************************************************************************)
(* Proofs about the page: what it watches and polls, what it submits, and  *)
(* what the table of products shows.                                       *)
(***************************************************************************)
EXTENDS OperatorUi, TLAPS, FiniteSetTheorems, WellFoundedInduction

-----------------------------------------------------------------------------
(***************************************************************************)
(* Watching.  What is shown as unfinished is exactly what is watched: the  *)
(* list, the card and the set are written together, by the last refresh    *)
(* that is still current.                                                  *)
(***************************************************************************)
ShownIsWatched == watching = Unfinished(jobRows, card)

shownVars == <<jobRows, card, watching>>

\* The end of a refresh shows everything or nothing, and marks the products out
\* of date when a watched job is shown finished.
LEMMA RenderShowsAll ==
  ASSUME NEW i, NEW statuses, NEW shown, Render(i, statuses, shown)
  PROVE  \/ UNCHANGED shownVars
         \/ /\ jobRows' = statuses /\ card' = shown
            /\ watching' = Unfinished(statuses, shown)
            /\ Finished(statuses, shown) \cap watching # {} => stale'
  BY DEF Render, shownVars

\* Nothing but the end of a refresh changes what is shown or watched.
LEMMA OnlyRenderShows ==
  ASSUME [Next]_vars
  PROVE  \/ UNCHANGED shownVars
         \/ \E i \in DOMAIN inflight : \E statuses, shown : Render(i, statuses, shown)
<1> USE DEF shownVars, ingestVars
<1>1. CASE Act
  <2>1. ASSUME UserOfIngest PROVE UNCHANGED shownVars
    BY <2>1 DEF UserOfIngest, ClickRefresh, Upload, Replay, SelectJob
  <2>2. ASSUME NEW v \in Views, Route(v) PROVE UNCHANGED shownVars
    BY <2>2 DEF Route
  <2> QED BY <1>1, <2>1, <2>2 DEF Act
<1>2. CASE Answer
  <2>1. ASSUME NEW i \in DOMAIN inflight, AnswerJobs(i)
        PROVE  UNCHANGED shownVars \/ \E statuses, shown : Render(i, statuses, shown)
    BY <2>1 DEF AnswerJobs
  <2>2. ASSUME NEW i \in DOMAIN inflight, AnswerChunks(i)
        PROVE  \E statuses, shown : Render(i, statuses, shown)
    BY <2>2 DEF AnswerChunks
  <2>3. ASSUME NEW i \in DOMAIN inflight,
               \/ ServeRefresh(i) \/ AnswerJob(i) \/ ServeUpload(i) \/ AnswerUpload(i)
               \/ ServeReplay(i) \/ AnswerReplay(i)
        PROVE  UNCHANGED shownVars
    BY <2>3 DEF ServeRefresh, AnswerJob, ServeUpload, AnswerUpload, ServeReplay, AnswerReplay
  <2> QED BY <1>2, <2>1, <2>2, <2>3 DEF Answer, AnswersOfIngest
<1>3. CASE Timer \/ Server \/ Fault
  BY <1>3
  DEF Timer, Tick, Server, Finish, Fault, FaultsOfIngest, FailRefresh, FailCommand
<1>4. CASE UNCHANGED vars
  BY <1>4 DEF vars
<1> QED BY <1>1, <1>2, <1>3, <1>4 DEF Next

\* In every reachable state the page watches what it shows as unfinished.
LEMMA PageWatchesWhatItShows == Spec => []ShownIsWatched
<1>1. Init => ShownIsWatched
  BY DEF Init, InitIngest, ShownIsWatched, Unfinished, NoJobs, NoCard
<1>2. ShownIsWatched /\ [Next]_vars => ShownIsWatched'
  <2> SUFFICES ASSUME ShownIsWatched, [Next]_vars PROVE ShownIsWatched'
    OBVIOUS
  <2>1. CASE UNCHANGED shownVars
    BY <2>1 DEF shownVars, ShownIsWatched, Unfinished
  <2>2. ASSUME NEW i \in DOMAIN inflight, NEW statuses, NEW shown, Render(i, statuses, shown)
        PROVE  ShownIsWatched'
    BY <2>1, <2>2, RenderShowsAll DEF ShownIsWatched, Unfinished
  <2> QED BY <2>1, <2>2, OnlyRenderShows
<1> QED BY <1>1, <1>2, PTL DEF Spec

\* No job goes from unfinished to finished before the user's eyes without the
\* products being marked out of date, whatever refreshes overlap or come late.
THEOREM FinishedJobsMarkStale == Spec => FinishMarksStale
<1>1. ASSUME ShownIsWatched, [Next]_vars, NEW j \in Jobs,
             ShownUnfinished(j), ~ShownFinished(j), ShownFinished(j)'
      PROVE  stale'
  <2>1. ~UNCHANGED shownVars
    BY <1>1 DEF shownVars, ShownFinished
  <2>2. PICK i \in DOMAIN inflight : \E statuses, shown : Render(i, statuses, shown)
    BY <1>1, <2>1, OnlyRenderShows
  <2>3. j \in watching
    BY <1>1 DEF ShownIsWatched, ShownUnfinished, Unfinished
  <2>4. PICK statuses, shown : Render(i, statuses, shown)
    BY <2>2
  <2>5. jobRows' = statuses /\ card' = shown
    BY <2>1, <2>4, RenderShowsAll
  <2>6. j \in Finished(statuses, shown)
    BY <1>1, <2>5 DEF ShownFinished, Finished
  <2> QED BY <2>1, <2>3, <2>4, <2>6, RenderShowsAll
<1> DEFINE Marked == \A j \in Jobs : ShownUnfinished(j) /\ ~ShownFinished(j) /\ ShownFinished(j)' => stale'
<1>2. ShownIsWatched /\ [Next]_vars => [Marked]_<<jobRows, card>>
  BY <1>1
<1>3. Spec => [][Marked]_<<jobRows, card>>
  BY <1>2, PageWatchesWhatItShows, PTL DEF Spec
<1> QED
  BY <1>3 DEF FinishMarksStale

-----------------------------------------------------------------------------
(***************************************************************************)
(* The network.  Requests of one kind are dealt with by a few actions; the *)
(* others send, answer and supersede requests of other kinds, and leave    *)
(* those of this kind as they are, if not where they are.                  *)
(***************************************************************************)
IsRequest(r) == DOMAIN r = {"kind", "arg", "current", "served", "reply"}

IsNetwork(q) ==
  /\ Len(q) \in Nat
  /\ q = [i \in 1 .. Len(q) |-> q[i]]
  /\ \A i \in 1 .. Len(q) : IsRequest(q[i])

Of(kind, q) == {i \in 1 .. Len(q) : q[i].kind = kind}

\* The requests of a kind in new are those of old at some of the positions S.
Carried(kind, new, old, S) ==
  /\ IsNetwork(new)
  /\ \E f \in [Of(kind, new) -> S] :
       /\ \A i \in Of(kind, new) : new[i] = old[f[i]]
       /\ \A i, j \in Of(kind, new) : f[i] = f[j] => i = j

\* A network is a sequence, and its positions are those of its requests.
LEMMA NetworkIsSeq ==
  ASSUME NEW q, IsNetwork(q)
  PROVE  q \in Seq({q[i] : i \in 1 .. Len(q)}) /\ DOMAIN q = 1 .. Len(q)
<1> DEFINE S == {q[i] : i \in 1 .. Len(q)}
<1>1. q \in [1 .. Len(q) -> S] /\ Len(q) \in Nat
  BY DEF IsNetwork
<1> HIDE DEF S
<1>2. q \in Seq(S)
  BY <1>1
<1> QED BY <1>1, <1>2 DEF S

\* A sequence of requests is a network.
LEMMA SeqIsNetwork ==
  ASSUME NEW S, NEW q \in Seq(S), \A i \in 1 .. Len(q) : IsRequest(q[i])
  PROVE  IsNetwork(q)
<1>1. Len(q) \in Nat /\ q \in [1 .. Len(q) -> S]
  OBVIOUS
<1> QED BY <1>1 DEF IsNetwork

\* What the page sends is a request.
LEMMA SentIsRequest ==
  ASSUME NEW kind, NEW arg
  PROVE  IsRequest(Request(kind, arg)) /\ Request(kind, arg).kind = kind
BY DEF IsRequest, Request

\* Requests that stay where they are are carried.
LEMMA CarriedInPlace ==
  ASSUME NEW kind, NEW new, NEW q, IsNetwork(new), Of(kind, new) = Of(kind, q),
         \A i \in Of(kind, q) : new[i] = q[i]
  PROVE  Carried(kind, new, q, Of(kind, q))
<1> DEFINE f == [i \in Of(kind, new) |-> i]
<1>1. f \in [Of(kind, new) -> Of(kind, q)] /\ \A i \in Of(kind, new) : f[i] = i
  OBVIOUS
<1> HIDE DEF f
<1> QED BY <1>1 DEF Carried

\* A network carries its own requests.
LEMMA CarriedUnchanged ==
  ASSUME NEW kind, NEW q, IsNetwork(q)
  PROVE  Carried(kind, q, q, Of(kind, q))
BY CarriedInPlace

\* What is carried twice is carried.
LEMMA CarriedThrough ==
  ASSUME NEW kind, NEW new, NEW mid, NEW old, NEW S,
         Carried(kind, new, mid, Of(kind, mid)), Carried(kind, mid, old, S)
  PROVE  Carried(kind, new, old, S)
<1>1. PICK f \in [Of(kind, new) -> Of(kind, mid)] :
        /\ \A i \in Of(kind, new) : new[i] = mid[f[i]]
        /\ \A i, j \in Of(kind, new) : f[i] = f[j] => i = j
  BY DEF Carried
<1>2. PICK g \in [Of(kind, mid) -> S] :
        /\ \A i \in Of(kind, mid) : mid[i] = old[g[i]]
        /\ \A i, j \in Of(kind, mid) : g[i] = g[j] => i = j
  BY DEF Carried
<1> DEFINE h == [i \in Of(kind, new) |-> g[f[i]]]
<1>3. h \in [Of(kind, new) -> S] /\ \A i \in Of(kind, new) : h[i] = g[f[i]]
  BY <1>1, <1>2
<1> HIDE DEF h
<1>4. \A i \in Of(kind, new) : new[i] = old[h[i]]
  BY <1>1, <1>2, <1>3
<1>5. \A i, j \in Of(kind, new) : h[i] = h[j] => i = j
  BY <1>1, <1>2, <1>3
<1> QED BY <1>3, <1>4, <1>5 DEF Carried

\* What a network with one more request looks like.
LEMMA NetworkAndSend ==
  ASSUME NEW q, IsNetwork(q), NEW r, IsRequest(r)
  PROVE  /\ IsNetwork(Append(q, r)) /\ Len(Append(q, r)) = Len(q) + 1
         /\ Append(q, r)[Len(q) + 1] = r
         /\ \A i \in 1 .. Len(q) : Append(q, r)[i] = q[i]
<1> DEFINE new == Append(q, r)
           S == {q[i] : i \in 1 .. Len(q)} \cup {r}
<1>1. q \in Seq(S) /\ r \in S /\ Len(q) \in Nat
  BY DEF IsNetwork
<1>2. new \in Seq(S) /\ Len(new) = Len(q) + 1 /\ new[Len(q) + 1] = r
        /\ \A i \in 1 .. Len(q) : new[i] = q[i]
  BY <1>1
<1> HIDE DEF S, new
<1>3. IsNetwork(new)
  BY <1>2, SeqIsNetwork DEF IsNetwork
<1> QED BY <1>2, <1>3 DEF new

\* A request of another kind is sent.
LEMMA CarriedBySend ==
  ASSUME NEW kind, NEW q, IsNetwork(q), NEW r, IsRequest(r), r.kind # kind
  PROVE  Carried(kind, Append(q, r), q, Of(kind, q))
<1> DEFINE new == Append(q, r)
<1>1. /\ IsNetwork(new) /\ Len(new) = Len(q) + 1 /\ new[Len(q) + 1] = r
      /\ \A i \in 1 .. Len(q) : new[i] = q[i]
  BY NetworkAndSend
<1> HIDE DEF new
<1>2. Of(kind, new) = Of(kind, q)
  BY <1>1 DEF Of, IsNetwork
<1>3. \A i \in Of(kind, q) : new[i] = q[i]
  BY <1>1 DEF Of
<1> QED BY <1>1, <1>2, <1>3, CarriedInPlace DEF new

\* What a network with one request replaced looks like.
LEMMA NetworkAndUpdate ==
  ASSUME NEW q, IsNetwork(q), NEW k \in 1 .. Len(q), NEW r, IsRequest(r)
  PROVE  /\ IsNetwork([q EXCEPT ![k] = r]) /\ Len([q EXCEPT ![k] = r]) = Len(q)
         /\ [q EXCEPT ![k] = r][k] = r
         /\ \A i \in 1 .. Len(q) : i # k => [q EXCEPT ![k] = r][i] = q[i]
<1> DEFINE new == [q EXCEPT ![k] = r]
           S == {q[i] : i \in 1 .. Len(q)} \cup {r}
<1>1. q \in Seq(S) /\ r \in S /\ Len(q) \in Nat
  BY DEF IsNetwork
<1>2. new \in Seq(S) /\ Len(new) = Len(q) /\ new[k] = r
        /\ \A i \in 1 .. Len(q) : i # k => new[i] = q[i]
  BY <1>1
<1> HIDE DEF S, new
<1>3. IsNetwork(new)
  BY <1>2, SeqIsNetwork DEF IsNetwork
<1> QED BY <1>2, <1>3 DEF new

\* One request, of another kind before and after, is another one.
LEMMA CarriedByUpdate ==
  ASSUME NEW kind, NEW q, IsNetwork(q), NEW k \in 1 .. Len(q), q[k].kind # kind,
         NEW r, IsRequest(r), r.kind # kind
  PROVE  Carried(kind, [q EXCEPT ![k] = r], q, Of(kind, q))
<1> DEFINE new == [q EXCEPT ![k] = r]
<1>1. /\ IsNetwork(new) /\ Len(new) = Len(q) /\ new[k] = r
      /\ \A i \in 1 .. Len(q) : i # k => new[i] = q[i]
  BY NetworkAndUpdate
<1> HIDE DEF new
<1>2. Of(kind, new) = Of(kind, q) /\ \A i \in Of(kind, q) : new[i] = q[i]
  BY <1>1 DEF Of
<1> QED BY <1>1, <1>2, CarriedInPlace DEF new

\* What superseding leaves of a network.
LEMMA NetworkSuperseded ==
  ASSUME NEW q, IsNetwork(q), NEW kinds
  PROVE  /\ IsNetwork(Superseded(kinds, q)) /\ Len(Superseded(kinds, q)) = Len(q)
         /\ \A i \in 1 .. Len(q) :
              /\ Superseded(kinds, q)[i].kind = q[i].kind
              /\ Superseded(kinds, q)[i].arg = q[i].arg
              /\ IF q[i].kind \in kinds THEN ~Superseded(kinds, q)[i].current
                                        ELSE Superseded(kinds, q)[i] = q[i]
<1> DEFINE new == Superseded(kinds, q)
           S == {new[i] : i \in 1 .. Len(q)}
<1>0. DOMAIN q = 1 .. Len(q)
  BY NetworkIsSeq
<1>1. new = [i \in 1 .. Len(q) |->
               IF q[i].kind \in kinds THEN [q[i] EXCEPT !.current = FALSE] ELSE q[i]]
  BY <1>0 DEF Superseded
<1>2. new \in Seq(S) /\ Len(new) = Len(q)
  <2>1. Len(q) \in Nat /\ new \in [1 .. Len(q) -> S]
    BY <1>1 DEF IsNetwork
  <2> HIDE DEF new, S
  <2> QED BY <2>1
<1>3. \A i \in 1 .. Len(q) :
        /\ IsRequest(new[i]) /\ new[i].kind = q[i].kind /\ new[i].arg = q[i].arg
        /\ IF q[i].kind \in kinds THEN ~new[i].current ELSE new[i] = q[i]
  <2> TAKE i \in 1 .. Len(q)
  <2>1. IsRequest(q[i])
    BY DEF IsNetwork
  <2>2. CASE q[i].kind \in kinds
    <3>1. new[i] = [q[i] EXCEPT !.current = FALSE]
      BY <1>1, <2>2
    <3> QED BY <2>1, <2>2, <3>1 DEF IsRequest
  <2>3. CASE q[i].kind \notin kinds
    BY <1>1, <2>1, <2>3
  <2> QED BY <2>2, <2>3
<1> HIDE DEF new, S
<1>4. IsNetwork(new)
  BY <1>2, <1>3, SeqIsNetwork
<1> QED BY <1>2, <1>3, <1>4 DEF new

\* Requests of other kinds are superseded.
LEMMA CarriedSuperseded ==
  ASSUME NEW kind, NEW q, IsNetwork(q), NEW kinds, kind \notin kinds
  PROVE  Carried(kind, Superseded(kinds, q), q, Of(kind, q))
<1> DEFINE new == Superseded(kinds, q)
<1>1. /\ IsNetwork(new) /\ Len(new) = Len(q)
      /\ \A i \in 1 .. Len(q) : new[i].kind = q[i].kind /\ (q[i].kind \notin kinds => new[i] = q[i])
  BY NetworkSuperseded
<1> HIDE DEF new
<1>2. Of(kind, new) = Of(kind, q) /\ \A i \in Of(kind, q) : new[i] = q[i]
  BY <1>1 DEF Of
<1> QED BY <1>1, <1>2, CarriedInPlace DEF new

\* What RemoveAt leaves, and where.
LEMMA RemovedAt ==
  ASSUME NEW S, NEW q \in Seq(S), NEW k \in DOMAIN q
  PROVE  /\ RemoveAt(q, k) \in Seq(S)
         /\ Len(RemoveAt(q, k)) = Len(q) - 1
         /\ \A i \in 1 .. Len(q) - 1 : RemoveAt(q, k)[i] = IF i < k THEN q[i] ELSE q[i + 1]
<1> DEFINE front == SubSeq(q, 1, k - 1)
           back == SubSeq(q, k + 1, Len(q))
<1>1. front \in Seq(S) /\ Len(front) = k - 1 /\ \A i \in 1 .. k - 1 : front[i] = q[i]
  OBVIOUS
<1>2. back \in Seq(S) /\ Len(back) = Len(q) - k /\ \A i \in 1 .. Len(q) - k : back[i] = q[k + i]
  OBVIOUS
<1>3. k \in 1 .. Len(q) /\ Len(q) \in Nat
  OBVIOUS
<1> HIDE DEF front, back
<1>4. /\ front \o back \in Seq(S) /\ Len(front \o back) = Len(front) + Len(back)
      /\ \A i \in 1 .. Len(front) + Len(back) :
           (front \o back)[i] = IF i <= Len(front) THEN front[i] ELSE back[i - Len(front)]
  <2>1. front \in Seq(S) /\ back \in Seq(S)
    BY <1>1, <1>2
  <2> QED BY <2>1
<1>5. Len(front) + Len(back) = Len(q) - 1
  BY <1>1, <1>2, <1>3
<1>6. \A i \in 1 .. Len(q) - 1 : (front \o back)[i] = IF i < k THEN q[i] ELSE q[i + 1]
  <2> TAKE i \in 1 .. Len(q) - 1
  <2>1. CASE i < k
    <3>1. i <= Len(front) /\ i \in 1 .. k - 1
      BY <1>1, <1>3, <2>1
    <3> QED BY <1>1, <1>4, <1>5, <2>1, <3>1
  <2>2. CASE ~(i < k)
    <3> DEFINE n == i - (k - 1)
    <3>1. n \in 1 .. Len(q) - k /\ k + n = i + 1 /\ ~(i <= k - 1)
      BY <1>3, <2>2
    <3>2. (front \o back)[i] = back[n]
      BY <1>1, <1>4, <1>5, <3>1
    <3> HIDE DEF n
    <3> QED BY <1>2, <2>2, <3>1, <3>2
  <2> QED BY <2>1, <2>2
<1> QED BY <1>4, <1>5, <1>6 DEF RemoveAt, front, back

\* An answer or a failure removes its request.
LEMMA CarriedWithout ==
  ASSUME NEW kind, NEW q, IsNetwork(q), NEW k \in 1 .. Len(q)
  PROVE  Carried(kind, RemoveAt(q, k), q, Of(kind, q) \ {k})
<1> DEFINE new == RemoveAt(q, k)
           S == {q[i] : i \in 1 .. Len(q)}
           at(i) == IF i < k THEN i ELSE i + 1
<1>1. q \in Seq(S) /\ Len(q) \in Nat
  BY NetworkIsSeq DEF IsNetwork
<1> HIDE DEF S
<1>2. new \in Seq(S) /\ Len(new) = Len(q) - 1 /\ \A i \in 1 .. Len(q) - 1 : new[i] = q[at(i)]
  BY <1>1, RemovedAt
<1> HIDE DEF new
<1>3. \A i \in 1 .. Len(q) - 1 : at(i) \in 1 .. Len(q) \ {k}
  BY <1>1
<1>4. IsNetwork(new)
  BY <1>2, <1>3, SeqIsNetwork DEF IsNetwork
<1>5. \A i \in Of(kind, new) : at(i) \in Of(kind, q) \ {k} /\ new[i] = q[at(i)]
  BY <1>2, <1>3 DEF Of
<1>6. \A i, j \in Of(kind, new) : at(i) = at(j) => i = j
  BY <1>1, <1>2 DEF Of
<1> DEFINE f == [i \in Of(kind, new) |-> at(i)]
<1>7. f \in [Of(kind, new) -> Of(kind, q) \ {k}] /\ \A i \in Of(kind, new) : f[i] = at(i)
  BY <1>5
<1> HIDE DEF f, at
<1> QED BY <1>4, <1>5, <1>6, <1>7 DEF Carried, new

\* Carrying some requests is carrying some of more of them.
LEMMA CarriedMore ==
  ASSUME NEW kind, NEW new, NEW old, NEW S, NEW T, S \subseteq T, Carried(kind, new, old, S)
  PROVE  Carried(kind, new, old, T)
BY DEF Carried

\* What is carried is carried when a request of another kind is sent after that.
LEMMA CarriedAndSend ==
  ASSUME NEW kind, NEW q, NEW old, NEW S, Carried(kind, q, old, S), NEW other, NEW arg, other # kind
  PROVE  Carried(kind, Append(q, Request(other, arg)), old, S)
<1>1. IsNetwork(q)
  BY DEF Carried
<1> QED BY <1>1, SentIsRequest, CarriedBySend, CarriedThrough

\* What is carried is carried when requests of other kinds are superseded after that.
LEMMA CarriedAndSuperseded ==
  ASSUME NEW kind, NEW q, NEW old, NEW S, Carried(kind, q, old, S), NEW kinds, kind \notin kinds
  PROVE  Carried(kind, Superseded(kinds, q), old, S)
<1>1. IsNetwork(q)
  BY DEF Carried
<1> QED BY <1>1, CarriedSuperseded, CarriedThrough

-----------------------------------------------------------------------------
(* A step is quiet for a kind of request if it carries all of them; most     *)
(* steps are.                                                                *)

CarriesAll(kind) == Carried(kind, inflight', inflight, Of(kind, inflight))

Quiet(kind) == CarriesAll(kind) /\ session' = session /\ faults' \in {faults, faults + 1}

\* The shapes a request can be dealt with in.
LEMMA Carriers ==
  ASSUME IsNetwork(inflight), NEW kind
  PROVE  /\ DOMAIN inflight = 1 .. Len(inflight)
         /\ UNCHANGED inflight => CarriesAll(kind)
         /\ Carried(kind, inflight, inflight, Of(kind, inflight))
         /\ \A i \in DOMAIN inflight :
              Carried(kind, Others(i), inflight, Of(kind, inflight) \ {i})
         /\ \A i \in DOMAIN inflight : Carried(kind, Others(i), inflight, Of(kind, inflight))
<1>1. DOMAIN inflight = 1 .. Len(inflight)
  BY NetworkIsSeq
<1>2. Carried(kind, inflight, inflight, Of(kind, inflight))
  BY CarriedUnchanged
<1>3. ASSUME NEW i \in DOMAIN inflight
      PROVE  /\ Carried(kind, Others(i), inflight, Of(kind, inflight) \ {i})
             /\ Carried(kind, Others(i), inflight, Of(kind, inflight))
  <2>1. Carried(kind, Others(i), inflight, Of(kind, inflight) \ {i})
    BY <1>1, CarriedWithout DEF Others
  <2>2. Of(kind, inflight) \ {i} \subseteq Of(kind, inflight)
    OBVIOUS
  <2> QED BY <2>1, <2>2, CarriedMore
<1> QED BY <1>1, <1>2, <1>3 DEF CarriesAll

\* A request of another kind is sent.
LEMMA SendCarries ==
  ASSUME IsNetwork(inflight), NEW kind, NEW other, other # kind, NEW arg,
         inflight' = Append(inflight, Request(other, arg))
  PROVE  CarriesAll(kind)
BY CarriedAndSend, CarriedUnchanged DEF CarriesAll

\* The server acts on a request of another kind.
LEMMA ReplyCarries ==
  ASSUME IsNetwork(inflight), NEW kind, NEW i \in DOMAIN inflight, inflight[i].kind # kind,
         NEW value, Reply(i, value)
  PROVE  CarriesAll(kind)
<1> DEFINE r == [inflight[i] EXCEPT !.served = TRUE, !.reply = value]
<1>1. i \in 1 .. Len(inflight) /\ IsRequest(inflight[i])
  BY Carriers DEF IsNetwork
<1>2. IsRequest(r) /\ r.kind # kind
  BY <1>1 DEF IsRequest
<1>3. inflight' = [inflight EXCEPT ![i] = r]
  BY DEF Reply
<1> HIDE DEF r
<1> QED BY <1>1, <1>2, <1>3, CarriedByUpdate DEF CarriesAll

\* The chain of a refresh goes on.
LEMMA ContinuedCarries ==
  ASSUME IsNetwork(inflight), NEW kind, NEW i \in DOMAIN inflight, inflight[i].kind # kind,
         NEW other, other # kind, NEW arg, Continued(i, other, arg)
  PROVE  CarriesAll(kind)
<1> DEFINE r == [Request(other, arg) EXCEPT !.current = inflight[i].current]
<1>1. i \in 1 .. Len(inflight)
  BY Carriers
<1>2. IsRequest(Request(other, arg)) /\ Request(other, arg).kind = other
  BY SentIsRequest
<1>3. IsRequest(r) /\ r.kind # kind
  BY <1>2 DEF IsRequest
<1>4. inflight' = [inflight EXCEPT ![i] = r] \/ inflight' = Others(i)
  BY DEF Continued
<1> HIDE DEF r
<1> QED BY <1>1, <1>3, <1>4, CarriedByUpdate, Carriers DEF CarriesAll

\* The table is reset, after what the requests in base carry.
LEMMA ResetCarries ==
  ASSUME NEW kind, kind # "page", NEW base, NEW S, Carried(kind, base, inflight, S), NEW f,
         ResetTable(base, f)
  PROVE  Carried(kind, inflight', inflight, S)
<1>1. Carried(kind, Superseded({"page"}, base), inflight, S)
  BY CarriedAndSuperseded
<1> QED BY <1>1, CarriedAndSend DEF ResetTable

\* The promotions are listed, after what the requests in base carry.
LEMMA ListCarries ==
  ASSUME NEW kind, kind # "promotions", NEW base, NEW S, Carried(kind, base, inflight, S)
  PROVE  Carried(kind, ListPromotions(base), inflight, S)
BY CarriedAndSend DEF ListPromotions

\* The ingest view is refreshed, after what the requests in base carry.
LEMMA RefreshCarries ==
  ASSUME NEW kind, kind \notin Refreshes, NEW base, NEW S, Carried(kind, base, inflight, S),
         NEW upload, RefreshFor(upload, base)
  PROVE  Carried(kind, inflight', inflight, S)
<1>1. Carried(kind, Superseded(Refreshes, base), inflight, S)
  BY CarriedAndSuperseded
<1>2. "jobs" # kind
  BY DEF Refreshes
<1> QED BY <1>1, <1>2, CarriedAndSend DEF RefreshFor

-----------------------------------------------------------------------------
(* What each part of the page leaves alone.                                  *)

QuietForms ==
  /\ created' = created
  /\ \/ forms' = forms /\ modal' \in {modal, NoForm}
     \/ \E kind : forms' = forms + 1 /\ modal' = [form |-> forms + 1, kind |-> kind, busy |-> FALSE]

listingVars == <<catalogVars, listVars>>

\* The product table deals with pages only.
LEMMA TableIsQuiet ==
  ASSUME IsNetwork(inflight), NEW kind, kind # "page",
         \/ \E f \in Filters : SetFilter(f)
         \/ LoadMore
         \/ \E i \in DOMAIN inflight : ServePage(i) \/ AnswerPage(i) \/ FailPage(i)
  PROVE  Quiet(kind)
<1>1. ASSUME NEW f \in Filters, SetFilter(f) PROVE Quiet(kind)
  <2>1. CarriesAll(kind)
    BY <1>1, Carriers, ResetCarries DEF SetFilter, CarriesAll
  <2> QED BY <1>1, <2>1 DEF SetFilter, User, Quiet
<1>2. CASE LoadMore
  <2>1. CarriesAll(kind)
    BY <1>2, SendCarries DEF LoadMore
  <2> QED BY <1>2, <2>1 DEF LoadMore, User, Quiet
<1>3. ASSUME NEW i \in DOMAIN inflight, ServePage(i) PROVE Quiet(kind)
  <2>1. CarriesAll(kind)
    BY <1>3, ReplyCarries DEF ServePage, Unserved, InFlight
  <2> QED BY <1>3, <2>1 DEF ServePage, NoFault, Quiet
<1>4. ASSUME NEW i \in DOMAIN inflight, AnswerPage(i) PROVE Quiet(kind)
  BY <1>4, Carriers DEF AnswerPage, NoFault, Quiet, CarriesAll
<1>5. ASSUME NEW i \in DOMAIN inflight, FailPage(i) PROVE Quiet(kind)
  BY <1>5, Carriers DEF FailPage, Fails, Quiet, CarriesAll
<1> QED BY <1>1, <1>2, <1>3, <1>4, <1>5

\* The drawer deals with details only, and leaves the table alone.
LEMMA DrawerIsQuiet ==
  ASSUME IsNetwork(inflight), NEW kind, kind # "detail",
         \/ \E p \in Products : OpenProduct(p)
         \/ CloseDrawer
         \/ \E i \in DOMAIN inflight : AnswerProduct(i) \/ FailProduct(i)
  PROVE  Quiet(kind) /\ UNCHANGED listingVars
<1> USE DEF listingVars
<1>1. CASE CloseDrawer
  BY <1>1, Carriers DEF CloseDrawer, User, Quiet
<1>2. ASSUME NEW p \in Products, OpenProduct(p) PROVE Quiet(kind) /\ UNCHANGED listingVars
  <2>1. CarriesAll(kind)
    BY <1>2, SendCarries DEF OpenProduct
  <2> QED BY <1>2, <2>1 DEF OpenProduct, User, Quiet
<1>3. ASSUME NEW i \in DOMAIN inflight, AnswerProduct(i) PROVE Quiet(kind) /\ UNCHANGED listingVars
  BY <1>3, Carriers DEF AnswerProduct, NoFault, Quiet, CarriesAll
<1>4. ASSUME NEW i \in DOMAIN inflight, FailProduct(i) PROVE Quiet(kind) /\ UNCHANGED listingVars
  BY <1>4, Carriers DEF FailProduct, Fails, Quiet, CarriesAll
<1> QED BY <1>1, <1>2, <1>3, <1>4

\* So the product view deals with pages and details only.
LEMMA ProductsAreQuiet ==
  ASSUME IsNetwork(inflight), NEW kind, kind \notin {"page", "detail"},
         UserOfProducts \/ AnswersOfProducts \/ FaultsOfProducts
  PROVE  Quiet(kind)
BY TableIsQuiet, DrawerIsQuiet DEF UserOfProducts, AnswersOfProducts, FaultsOfProducts

\* The ingest view deals with refreshes, uploads and replays.
LEMMA IngestIsQuiet ==
  ASSUME IsNetwork(inflight), NEW kind, kind \notin Refreshes \cup {"upload", "replay"},
         UserOfIngest \/ AnswersOfIngest \/ FaultsOfIngest \/ Tick
  PROVE  Quiet(kind) /\ UNCHANGED productVars
<1>1. CASE ClickRefresh \/ (\E j \in Jobs : SelectJob(j)) \/ Tick
  <2>1. Refresh(inflight) /\ UNCHANGED <<session, faults, productVars>>
    BY <1>1 DEF ClickRefresh, SelectJob, Tick, User, NoFault
  <2> QED BY <2>1, Carriers, RefreshCarries DEF Refresh, Quiet, CarriesAll
<1>2. CASE Upload \/ Replay
  <2>1. \/ inflight' = Append(inflight, Request("upload", Nothing))
        \/ inflight' = Append(inflight, Request("replay", selected))
    BY <1>2 DEF Upload, Replay
  <2>2. CarriesAll(kind)
    BY <2>1, Carriers, SendCarries
  <2> QED BY <1>2, <2>2 DEF Upload, Replay, User, Quiet
<1>3. ASSUME NEW i \in DOMAIN inflight, ServeRefresh(i) \/ ServeUpload(i) \/ ServeReplay(i)
      PROVE  Quiet(kind) /\ UNCHANGED productVars
  <2>1. inflight[i].kind # kind /\ UNCHANGED <<session, faults, productVars>>
    BY <1>3 DEF ServeRefresh, ServeUpload, ServeReplay, Unserved, InFlight, NoFault, Refreshes
  <2>2. \E value : Reply(i, value)
    BY <1>3 DEF ServeRefresh, ServeUpload, ServeReplay
  <2> QED BY <2>1, <2>2, ReplyCarries DEF Quiet
<1>4. ASSUME NEW i \in DOMAIN inflight, AnswerJobs(i) \/ AnswerJob(i) \/ AnswerChunks(i)
      PROVE  Quiet(kind) /\ UNCHANGED productVars
  <2>1. inflight[i].kind # kind /\ UNCHANGED <<session, faults, productVars>>
    BY <1>4 DEF AnswerJobs, AnswerJob, AnswerChunks, Served, InFlight, NoFault, Refreshes
  <2>2. \/ \E statuses, shown : Render(i, statuses, shown)
        \/ \E other \in {"chunks", "job"} : \E arg : Continued(i, other, arg)
    BY <1>4 DEF AnswerJobs, AnswerJob, AnswerChunks
  <2>3. CASE \E statuses, shown : Render(i, statuses, shown)
    BY <2>1, <2>3, Carriers DEF Render, Quiet, CarriesAll
  <2>4. CASE \E other \in {"chunks", "job"} : \E arg : Continued(i, other, arg)
    <3>1. PICK other \in {"chunks", "job"} : \E arg : Continued(i, other, arg)
      BY <2>4
    <3>2. other # kind
      BY DEF Refreshes
    <3> QED BY <2>1, <3>1, <3>2, ContinuedCarries DEF Quiet
  <2> QED BY <2>2, <2>3, <2>4
<1>5. ASSUME NEW i \in DOMAIN inflight, AnswerUpload(i) \/ AnswerReplay(i)
      PROVE  Quiet(kind) /\ UNCHANGED productVars
  <2>1. (\E upload : RefreshFor(upload, Others(i))) /\ UNCHANGED <<session, faults, productVars>>
    BY <1>5 DEF AnswerUpload, AnswerReplay, Refresh, NoFault
  <2> QED BY <2>1, Carriers, RefreshCarries DEF Quiet, CarriesAll
<1>6. ASSUME NEW i \in DOMAIN inflight, FailRefresh(i) \/ FailCommand(i)
      PROVE  Quiet(kind) /\ UNCHANGED productVars
  BY <1>6, Carriers DEF FailRefresh, FailCommand, Fails, Quiet, CarriesAll
<1> QED BY <1>1, <1>2, <1>3, <1>4, <1>5, <1>6
        DEF UserOfIngest, AnswersOfIngest, FaultsOfIngest

\* The promotions view deals with lists, cancellations, searches, and submissions.
LEMMA PromotionsAreQuiet ==
  ASSUME IsNetwork(inflight), NEW kind, kind \notin {"promotions", "cancel", "search"},
         UserOfPromotions \/ AnswersOfPromotions \/ FaultsOfPromotions
  PROVE  \/ Quiet(kind) /\ QuietForms /\ UNCHANGED listingVars
         \/ Submit
         \/ \E i \in DOMAIN inflight : ServeSubmit(i) \/ AnswerSubmit(i) \/ FailSubmit(i)
<1> DEFINE AllQuiet == Quiet(kind) /\ QuietForms /\ UNCHANGED listingVars
<1> USE DEF listingVars, productVars
<1>1. ASSUME NEW pr \in PromotionIds, ClickCancel(pr) PROVE AllQuiet
  <2>1. inflight' = Append(inflight, Request("cancel", pr)) \/ inflight' = inflight
    BY <1>1 DEF ClickCancel
  <2>2. CarriesAll(kind)
    BY <2>1, Carriers, SendCarries
  <2> QED BY <1>1, <2>2 DEF ClickCancel, User, Quiet, QuietForms, formVars
<1>2. ASSUME NEW form \in FormKinds, OpenForm(form) PROVE AllQuiet
  BY <1>2, Carriers DEF OpenForm, ShowForm, User, Quiet, QuietForms
<1>3. CASE Promote
  BY <1>3, Carriers DEF Promote, ShowForm, User, Quiet, QuietForms
<1>4. CASE CloseForm
  BY <1>4, Carriers DEF CloseForm, User, Quiet, QuietForms
<1>5. CASE Pick \/ ChangePick
  BY <1>5, Carriers DEF Pick, ChangePick, User, Quiet, QuietForms
<1>6. ASSUME NEW term \in Terms, Search(term) PROVE AllQuiet
  <2>1. Carried(kind, Superseded({"search"}, inflight), inflight, Of(kind, inflight))
    BY Carriers, CarriedAndSuperseded
  <2>2. CarriesAll(kind)
    BY <1>6, <2>1, CarriedAndSend DEF Search, CarriesAll
  <2> QED BY <1>6, <2>2 DEF Search, User, Quiet, QuietForms, promotionVars
<1>7. ASSUME NEW i \in DOMAIN inflight, ServePromotions(i) \/ ServeCancel(i)
      PROVE  AllQuiet
  <2>1. inflight[i].kind # kind /\ UNCHANGED <<session, faults>>
    BY <1>7 DEF ServePromotions, ServeCancel, Unserved, InFlight, NoFault
  <2>2. \E value : Reply(i, value)
    BY <1>7 DEF ServePromotions, ServeCancel
  <2>3. Quiet(kind)
    BY <2>1, <2>2, ReplyCarries DEF Quiet
  <2> QED BY <1>7, <2>3
          DEF ServePromotions, ServeCancel, QuietForms, promotionVars, formVars
<1>8. ASSUME NEW i \in DOMAIN inflight, AnswerPromotions(i) \/ FailPromotions(i)
      PROVE  AllQuiet
  <2>1. (\E rowsShown : ShowTable(rowsShown, Others(i))) /\ session' = session
          /\ faults' \in {faults, faults + 1}
    BY <1>8 DEF AnswerPromotions, FailPromotions, NoFault, Fails
  <2>2. CarriesAll(kind)
    BY <2>1, Carriers, CarriedAndSuperseded DEF ShowTable, CarriesAll
  <2> QED BY <1>8, <2>1, <2>2
          DEF AnswerPromotions, FailPromotions, Quiet, QuietForms, formVars
<1>9. ASSUME NEW i \in DOMAIN inflight, AnswerCancel(i) PROVE AllQuiet
  BY <1>9, Carriers, ListCarries
  DEF AnswerCancel, NoFault, Quiet, QuietForms, CarriesAll, promotionVars
<1>10. ASSUME NEW i \in DOMAIN inflight, FailCancel(i) \/ AnswerSearch(i) \/ FailSearch(i)
       PROVE  AllQuiet
  BY <1>10, Carriers
  DEF FailCancel, AnswerSearch, FailSearch, Fails, NoFault, Quiet, QuietForms, CarriesAll,
      promotionVars, formVars
<1> QED BY <1>1, <1>2, <1>3, <1>4, <1>5, <1>6, <1>7, <1>8, <1>9, <1>10
        DEF UserOfPromotions, AnswersOfPromotions, FaultsOfPromotions

-----------------------------------------------------------------------------
(***************************************************************************)
(* Submitting.  A request to submit a form is the only one of its form: it *)
(* is sent when the button is enabled, and the button is enabled again     *)
(* when its answer or its failure has come.  This must be said of every    *)
(* form, also of one that was closed while its request was in flight, and  *)
(* of what the server has accepted.                                        *)
(***************************************************************************)
FormOf(q, i) == q[i].arg.form

FormsTyped ==
  /\ faults \in Nat /\ forms \in Nat
  /\ modal = [form |-> modal.form, kind |-> modal.kind, busy |-> modal.busy]
  /\ modal.form \in 0 .. forms
  /\ created \subseteq 1 .. forms

OnePerForm ==
  /\ \A i \in Of("submit", inflight) :
       /\ FormOf(inflight, i) \in 1 .. forms
       /\ FormOf(inflight, i) = modal.form => modal.busy
  /\ \A i, j \in Of("submit", inflight) : FormOf(inflight, i) = FormOf(inflight, j) => i = j

AcceptedOnce ==
  faults = 0 =>
    /\ modal.form \in created => modal.busy
    /\ \A i \in Of("submit", inflight) :
         FormOf(inflight, i) \in created => inflight[i].served /\ inflight[i].reply = "accepted"

Submission == IsNetwork(inflight) /\ FormsTyped /\ OnePerForm /\ AcceptedOnce

\* Every step is a quiet one or one of a submission.
LEMMA StepsAreQuiet ==
  ASSUME IsNetwork(inflight), [Next]_vars
  PROVE  \/ Quiet("submit") /\ QuietForms
         \/ Submit
         \/ \E i \in DOMAIN inflight : ServeSubmit(i) \/ AnswerSubmit(i) \/ FailSubmit(i)
<1>0. UNCHANGED promotionVars => QuietForms
  BY DEF promotionVars, QuietForms
<1>1. ASSUME NEW v \in Views, Route(v) PROVE Quiet("submit") /\ UNCHANGED promotionVars
  <2>1. CarriesAll("submit")
    BY <1>1, Carriers, ResetCarries, RefreshCarries, ListCarries
    DEF Route, Refresh, Refreshes, CarriesAll
  <2> QED BY <1>1, <2>1 DEF Route, User, Quiet
<1>2. CASE Act
  BY <1>0, <1>1, <1>2, ProductsAreQuiet, IngestIsQuiet, PromotionsAreQuiet
  DEF Act, UserOfProducts, Refreshes
<1>3. CASE Answer
  BY <1>0, <1>3, ProductsAreQuiet, IngestIsQuiet, PromotionsAreQuiet DEF Answer, Refreshes
<1>4. CASE Fault
  BY <1>0, <1>4, ProductsAreQuiet, IngestIsQuiet, PromotionsAreQuiet DEF Fault, Refreshes
<1>5. CASE Timer
  <2>1. CASE Tick /\ UNCHANGED promotionVars
    BY <1>0, <2>1, IngestIsQuiet DEF Refreshes
  <2>2. ASSUME NEW pr \in PromotionIds, Disarm(pr) PROVE Quiet("submit") /\ QuietForms
    BY <2>2, Carriers DEF Disarm, shell, Quiet, QuietForms, formVars
  <2> QED BY <1>5, <2>1, <2>2 DEF Timer
<1>6. CASE Server
  <2>1. UNCHANGED <<inflight, session, faults, promotionVars>>
    BY <1>6 DEF Server, ServerOfProducts, Reprice, Bump, Expire, Finish, shell
  <2> QED BY <1>0, <2>1, Carriers DEF Quiet
<1>7. CASE UNCHANGED vars
  BY <1>0, <1>7, Carriers DEF vars, shell, Quiet
<1> QED BY <1>2, <1>3, <1>4, <1>5, <1>6, <1>7 DEF Next
-----------------------------------------------------------------------------
(* The invariant, step by step.                                              *)

\* The invariant holds of a page that has just been loaded.
LEMMA SubmissionInit == Init => Submission
<1> SUFFICES ASSUME Init PROVE Submission
  OBVIOUS
<1>1. PICK kind, arg : kind \in {"page", "promotions", "jobs"} /\ inflight = <<Request(kind, arg)>>
  <2>1. view = "products" \/ view = "promotions" \/ view = "ingest"
    BY SessionsAreSessions DEF Init, Session, Views
  <2> QED BY <2>1 DEF Init
<1>2. IsRequest(Request(kind, arg)) /\ Request(kind, arg).kind = kind
  BY SentIsRequest
<1> DEFINE r == Request(kind, arg)
<1> HIDE DEF r
<1>3. Len(inflight) = 1 /\ inflight[1] = r /\ inflight = [i \in 1 .. 1 |-> inflight[i]]
  BY <1>1 DEF r
<1>4. IsNetwork(inflight) /\ Of("submit", inflight) = {}
  BY <1>1, <1>2, <1>3 DEF IsNetwork, Of, r
<1>5. FormsTyped
  BY DEF Init, InitPromotions, NoForm, FormsTyped
<1> QED BY <1>4, <1>5 DEF Init, InitPromotions, NoForm, Submission, OnePerForm, AcceptedOnce

\* A quiet step keeps it: what is in flight was in flight, and a form that is opened
\* is one that nothing in flight and nothing accepted is about.
LEMMA QuietKeepsSubmission ==
  ASSUME Submission, Quiet("submit"), QuietForms
  PROVE  Submission'
<1>1. PICK f \in [Of("submit", inflight') -> Of("submit", inflight)] :
        /\ \A i \in Of("submit", inflight') : inflight'[i] = inflight[f[i]]
        /\ \A i, j \in Of("submit", inflight') : f[i] = f[j] => i = j
  BY DEF Quiet, CarriesAll, Carried
<1>2. IsNetwork(inflight')
  BY DEF Quiet, CarriesAll, Carried
<1>3. \A i \in Of("submit", inflight') :
        /\ f[i] \in Of("submit", inflight)
        /\ FormOf(inflight', i) = FormOf(inflight, f[i])
        /\ inflight'[i].served = inflight[f[i]].served
        /\ inflight'[i].reply = inflight[f[i]].reply
  BY <1>1 DEF FormOf
<1>4. FormsTyped'
  BY DEF Submission, FormsTyped, Quiet, QuietForms, NoForm
<1>5. OnePerForm'
  <2>1. \A i \in Of("submit", inflight') :
          /\ FormOf(inflight', i) \in 1 .. forms'
          /\ FormOf(inflight', i) = modal'.form => modal'.busy
    BY <1>3 DEF Submission, FormsTyped, OnePerForm, QuietForms, NoForm
  <2>2. \A i, j \in Of("submit", inflight') : FormOf(inflight', i) = FormOf(inflight', j) => i = j
    BY <1>1, <1>3 DEF Submission, OnePerForm
  <2> QED BY <2>1, <2>2 DEF OnePerForm
<1>6. AcceptedOnce'
  <2> SUFFICES ASSUME faults' = 0
               PROVE  /\ modal'.form \in created' => modal'.busy
                      /\ \A i \in Of("submit", inflight') : FormOf(inflight', i) \in created' =>
                           inflight'[i].served /\ inflight'[i].reply = "accepted"
    BY DEF AcceptedOnce
  <2>1. faults = 0
    BY DEF Submission, FormsTyped, Quiet
  <2> QED BY <1>3, <2>1 DEF Submission, FormsTyped, AcceptedOnce, QuietForms, NoForm
<1> QED BY <1>2, <1>4, <1>5, <1>6 DEF Submission

\* Submitting keeps it: the button is enabled, so nothing of this form is in flight,
\* and without failures the server has not accepted it.
LEMMA SubmitKeepsSubmission ==
  ASSUME Submission, Submit
  PROVE  Submission'
<1> DEFINE arg == [form |-> modal.form, kind |-> modal.kind]
           r == Request("submit", arg)
           n == Len(inflight) + 1
           S == {inflight[i] : i \in 1 .. Len(inflight)} \cup {r}
<1>1. IsRequest(r) /\ r.kind = "submit" /\ r.arg.form = modal.form
  BY SentIsRequest DEF Request
<1>2. inflight' = Append(inflight, r)
  BY DEF Submit
<1>3. inflight \in Seq(S) /\ r \in S /\ Len(inflight) \in Nat
  BY DEF Submission, IsNetwork
<1> HIDE DEF r, S
<1>4. inflight' \in Seq(S) /\ Len(inflight') = n /\ inflight'[n] = r
        /\ \A i \in 1 .. Len(inflight) : inflight'[i] = inflight[i]
  BY <1>2, <1>3
<1>5. IsNetwork(inflight')
  <2>1. \A i \in 1 .. Len(inflight') : IsRequest(inflight'[i])
    BY <1>1, <1>3, <1>4 DEF Submission, IsNetwork
  <2> QED BY <1>4, <2>1, SeqIsNetwork
<1>6. Of("submit", inflight') = Of("submit", inflight) \cup {n}
  BY <1>1, <1>3, <1>4 DEF Of
<1>7. FormOf(inflight', n) = modal.form
        /\ \A i \in Of("submit", inflight) : inflight'[i] = inflight[i] /\ FormOf(inflight', i) = FormOf(inflight, i)
  BY <1>1, <1>4 DEF Of, FormOf
<1>8. /\ modal.form # 0 /\ ~modal.busy /\ faults' = faults
      /\ UNCHANGED <<forms, created>> /\ modal' = [modal EXCEPT !.busy = TRUE]
  BY DEF Submit, User
<1>9. modal'.form = modal.form /\ modal'.busy /\ FormsTyped'
  BY <1>8 DEF Submission, FormsTyped
<1>10. OnePerForm'
  <2>1. \A i \in Of("submit", inflight) : FormOf(inflight, i) # modal.form
    BY <1>8 DEF Submission, OnePerForm
  <2> QED BY <1>6, <1>7, <1>8, <1>9, <2>1 DEF Submission, OnePerForm, FormsTyped
<1>11. AcceptedOnce'
  <2>1. faults = 0 => modal.form \notin created
    BY <1>8 DEF Submission, AcceptedOnce
  <2> QED BY <1>6, <1>7, <1>8, <1>9, <2>1 DEF Submission, AcceptedOnce
<1> QED BY <1>5, <1>9, <1>10, <1>11 DEF Submission

\* The server's decision keeps it: the request is not answered yet, and without
\* failures it is the first of its form that the server accepts.
LEMMA DecisionKeepsSubmission ==
  ASSUME Submission, NEW k \in DOMAIN inflight, ServeSubmit(k)
  PROVE  Submission'
<1>1. /\ k \in 1 .. Len(inflight) /\ inflight[k].kind = "submit" /\ ~inflight[k].served
      /\ k \in Of("submit", inflight)
  BY Carriers DEF ServeSubmit, Unserved, InFlight, Submission, Of
<1>2. PICK value \in {"accepted", "refused"} :
        /\ inflight' = [inflight EXCEPT ![k].served = TRUE, ![k].reply = value]
        /\ value = "accepted" => created' = created \cup {FormOf(inflight, k)}
        /\ value = "refused" => created' = created
  BY DEF ServeSubmit, Reply, FormOf
<1> DEFINE r == [inflight[k] EXCEPT !.served = TRUE, !.reply = value]
           S == {inflight[i] : i \in 1 .. Len(inflight)} \cup {r}
<1>3. IsRequest(inflight[k]) /\ inflight \in Seq(S) /\ Len(inflight) \in Nat
  BY <1>1 DEF Submission, IsNetwork
<1>4. IsRequest(r) /\ r.kind = "submit" /\ r.arg = inflight[k].arg /\ r.served /\ r.reply = value
  BY <1>1, <1>3 DEF IsRequest
<1>5. inflight' = [inflight EXCEPT ![k] = r] /\ r \in S
  BY <1>2
<1> HIDE DEF r, S
<1>6. inflight' \in Seq(S) /\ Len(inflight') = Len(inflight) /\ inflight'[k] = r
        /\ \A i \in 1 .. Len(inflight) : i # k => inflight'[i] = inflight[i]
  BY <1>1, <1>3, <1>5
<1>7. IsNetwork(inflight')
  <2>1. \A i \in 1 .. Len(inflight') : IsRequest(inflight'[i])
    BY <1>1, <1>4, <1>6 DEF Submission, IsNetwork
  <2> QED BY <1>6, <2>1, SeqIsNetwork
<1>8. Of("submit", inflight') = Of("submit", inflight)
  BY <1>1, <1>4, <1>6 DEF Of
<1>9. \A i \in Of("submit", inflight) : FormOf(inflight', i) = FormOf(inflight, i)
  BY <1>4, <1>6 DEF Of, FormOf
<1>10. UNCHANGED <<forms, modal, faults>>
  BY DEF ServeSubmit, NoFault
<1>11. FormsTyped' /\ OnePerForm'
  <2>1. FormOf(inflight, k) \in 1 .. forms
    BY <1>1 DEF Submission, OnePerForm
  <2>2. created' \subseteq 1 .. forms
    BY <1>2, <2>1 DEF Submission, FormsTyped
  <2>3. FormsTyped'
    BY <1>10, <2>2 DEF Submission, FormsTyped
  <2>4. OnePerForm'
    BY <1>8, <1>9, <1>10 DEF Submission, OnePerForm
  <2> QED BY <2>3, <2>4
<1>12. AcceptedOnce'
  <2> SUFFICES ASSUME faults = 0
               PROVE  /\ modal.form \in created' => modal.busy
                      /\ \A i \in Of("submit", inflight) : FormOf(inflight, i) \in created' =>
                           inflight'[i].served /\ inflight'[i].reply = "accepted"
    BY <1>8, <1>9, <1>10 DEF AcceptedOnce
  <2>1. modal.form \in created' => modal.busy
    BY <1>1, <1>2 DEF Submission, OnePerForm, AcceptedOnce
  <2>2. ASSUME NEW i \in Of("submit", inflight), FormOf(inflight, i) \in created'
        PROVE  inflight'[i].served /\ inflight'[i].reply = "accepted"
    <3>1. CASE i = k
      <4>1. FormOf(inflight, k) \notin created
        BY <1>1 DEF Submission, AcceptedOnce
      <4> QED BY <1>2, <1>4, <1>6, <2>2, <3>1, <4>1
    <3>2. CASE i # k
      <4>1. FormOf(inflight, i) \in created
        BY <1>1, <1>2, <2>2, <3>2 DEF Submission, OnePerForm
      <4>2. inflight'[i] = inflight[i]
        BY <1>6, <3>2 DEF Of
      <4> QED BY <4>1, <4>2 DEF Submission, AcceptedOnce
    <3> QED BY <3>1, <3>2
  <2> QED BY <2>1, <2>2
<1> QED BY <1>7, <1>11, <1>12 DEF Submission

\* The end of a submission keeps it: nothing else of its form was in flight.
LEMMA EndKeepsSubmission ==
  ASSUME Submission, NEW k \in DOMAIN inflight, AnswerSubmit(k) \/ FailSubmit(k)
  PROVE  Submission'
<1>1. /\ k \in Of("submit", inflight) /\ UNCHANGED <<forms, created>>
      /\ faults' = faults \/ (FailSubmit(k) /\ faults' = faults + 1)
  BY Carriers DEF AnswerSubmit, FailSubmit, Served, InFlight, NoFault, Fails, Submission, Of
<1>2. \/ modal' = NoForm
      \/ /\ modal' = (IF modal.form = FormOf(inflight, k) THEN [modal EXCEPT !.busy = FALSE] ELSE modal)
         /\ FailSubmit(k) \/ inflight[k].reply # "accepted"
  BY DEF AnswerSubmit, FailSubmit, FormOf
<1>3. Carried("submit", inflight', inflight, Of("submit", inflight) \ {k})
  <2>1. Carried("submit", Others(k), inflight, Of("submit", inflight) \ {k})
    BY Carriers DEF Submission
  <2>2. \/ inflight' = Others(k) \/ inflight' = ListPromotions(Others(k))
        \/ ResetTable(Others(k), filter)
    BY DEF AnswerSubmit, FailSubmit, AfterSubmit
  <2> QED BY <2>1, <2>2, ListCarries, ResetCarries
<1>4. PICK f \in [Of("submit", inflight') -> Of("submit", inflight) \ {k}] :
        /\ \A i \in Of("submit", inflight') : inflight'[i] = inflight[f[i]]
        /\ \A i, j \in Of("submit", inflight') : f[i] = f[j] => i = j
  BY <1>3 DEF Carried
<1>5. IsNetwork(inflight')
  BY <1>3 DEF Carried
<1>6. \A i \in Of("submit", inflight') :
        /\ f[i] \in Of("submit", inflight) /\ f[i] # k
        /\ FormOf(inflight', i) = FormOf(inflight, f[i])
        /\ FormOf(inflight', i) # FormOf(inflight, k)
        /\ inflight'[i].served = inflight[f[i]].served
        /\ inflight'[i].reply = inflight[f[i]].reply
  BY <1>1, <1>4 DEF FormOf, Submission, OnePerForm
<1>7. FormsTyped'
  BY <1>1, <1>2 DEF Submission, FormsTyped, NoForm
<1>8. OnePerForm'
  <2>1. \A i \in Of("submit", inflight') :
          /\ FormOf(inflight', i) \in 1 .. forms'
          /\ FormOf(inflight', i) = modal'.form => modal'.busy
    BY <1>1, <1>2, <1>6 DEF Submission, FormsTyped, OnePerForm, NoForm
  <2>2. \A i, j \in Of("submit", inflight') : FormOf(inflight', i) = FormOf(inflight', j) => i = j
    BY <1>4, <1>6 DEF Submission, OnePerForm
  <2> QED BY <2>1, <2>2 DEF OnePerForm
<1>9. AcceptedOnce'
  <2> SUFFICES ASSUME faults' = 0
               PROVE  /\ modal'.form \in created => modal'.busy
                      /\ \A i \in Of("submit", inflight') : FormOf(inflight', i) \in created =>
                           inflight'[i].served /\ inflight'[i].reply = "accepted"
    BY <1>1 DEF AcceptedOnce
  <2>1. faults = 0 /\ (modal' = NoForm \/ inflight[k].reply # "accepted")
    <3>1. faults' = faults
      BY <1>1 DEF Submission, FormsTyped
    <3>2. ~FailSubmit(k)
      BY <3>1 DEF FailSubmit, Fails, Submission, FormsTyped
    <3> QED BY <1>2, <3>1, <3>2
  <2>2. inflight[k].reply # "accepted" => FormOf(inflight, k) \notin created
    BY <1>1, <2>1 DEF Submission, AcceptedOnce
  <2>3. modal'.form \in created => modal'.busy
    BY <1>2, <2>1, <2>2 DEF Submission, FormsTyped, AcceptedOnce, NoForm
  <2> QED BY <1>6, <2>1, <2>3 DEF Submission, AcceptedOnce
<1> QED BY <1>5, <1>7, <1>8, <1>9 DEF Submission

\* In every reachable state a form is in flight once, and accepted once unless a failure
\* hid the answer.
LEMMA SubmissionInvariant == Spec => []Submission
<1>1. Submission /\ [Next]_vars => Submission'
  <2> SUFFICES ASSUME Submission, [Next]_vars PROVE Submission'
    OBVIOUS
  <2>1. IsNetwork(inflight)
    BY DEF Submission
  <2> QED BY <2>1, StepsAreQuiet, QuietKeepsSubmission, SubmitKeepsSubmission,
             DecisionKeepsSubmission, EndKeepsSubmission
<1> QED BY <1>1, SubmissionInit, PTL DEF Spec

\* Whatever is clicked, closed and opened again, and in whatever order answers and
\* failures come, no form is submitted while its submission is in flight; and without
\* failures nothing the server has accepted is sent to it again.
THEOREM FormsAreSubmittedOnce == Spec => []SubmittedOnce
<1>1. Submission => SubmittedOnce
  <2> SUFFICES ASSUME Submission PROVE SubmittedOnce
    OBVIOUS
  <2>1. InFlight({"submit"}) = Of("submit", inflight)
    BY Carriers DEF Submission, InFlight, Of
  <2> QED BY <2>1 DEF Submission, OnePerForm, AcceptedOnce, SubmittedOnce, FormOf
<1> QED BY <1>1, SubmissionInvariant, PTL

-----------------------------------------------------------------------------
(***************************************************************************)
(* Polling.  While something unfinished is shown a refresh that is current *)
(* is in flight or the timer is armed.  A refresh that is current ends by  *)
(* going on, by showing what it brought, which arms the timer again, or by *)
(* failing; nothing else takes it away, and what supersedes it is another. *)
(***************************************************************************)
Refreshing(q) == \E i \in 1 .. Len(q) : q[i].kind \in Refreshes /\ q[i].current

KeepsRefreshing == Refreshing(inflight) => Refreshing(inflight')

\* One more request leaves the refresh in flight.
LEMMA SendLeavesRefresh ==
  ASSUME NEW q, IsNetwork(q), Refreshing(q), NEW kind, NEW arg
  PROVE  Refreshing(Append(q, Request(kind, arg)))
<1>1. IsRequest(Request(kind, arg)) /\ Len(q) \in Nat
  BY SentIsRequest DEF IsNetwork
<1> QED BY <1>1, NetworkAndSend DEF Refreshing

\* So does superseding requests of other kinds.
LEMMA SupersedingLeavesRefresh ==
  ASSUME NEW q, IsNetwork(q), Refreshing(q), NEW kinds, kinds \cap Refreshes = {}
  PROVE  IsNetwork(Superseded(kinds, q)) /\ Refreshing(Superseded(kinds, q))
<1>1. PICK i \in 1 .. Len(q) : q[i].kind \in Refreshes /\ q[i].current
  BY DEF Refreshing
<1>2. q[i].kind \notin kinds
  BY <1>1
<1> QED BY <1>1, <1>2, NetworkSuperseded DEF Refreshing

\* And the end of any request but a refresh that is current.
LEMMA EndLeavesRefresh ==
  ASSUME NEW q, IsNetwork(q), Refreshing(q), NEW k \in 1 .. Len(q),
         q[k].kind \notin Refreshes \/ ~q[k].current
  PROVE  IsNetwork(RemoveAt(q, k)) /\ Refreshing(RemoveAt(q, k))
<1>1. IsNetwork(RemoveAt(q, k))
  BY CarriedWithout DEF Carried
<1>2. PICK i \in 1 .. Len(q) : q[i].kind \in Refreshes /\ q[i].current
  BY DEF Refreshing
<1> DEFINE at == IF i < k THEN i ELSE i - 1
           S == {q[n] : n \in 1 .. Len(q)}
<1>3. q \in Seq(S) /\ DOMAIN q = 1 .. Len(q) /\ Len(q) \in Nat
  BY NetworkIsSeq DEF IsNetwork
<1> HIDE DEF S
<1>4. /\ Len(RemoveAt(q, k)) = Len(q) - 1
      /\ \A n \in 1 .. Len(q) - 1 : RemoveAt(q, k)[n] = IF n < k THEN q[n] ELSE q[n + 1]
  BY <1>3, RemovedAt
<1>5. i # k
  BY <1>2
<1>6. at \in 1 .. Len(q) - 1 /\ i = IF at < k THEN at ELSE at + 1
  BY <1>3, <1>5
<1> HIDE DEF at
<1>7. RemoveAt(q, k)[at] = q[i]
  BY <1>4, <1>6
<1> QED BY <1>1, <1>2, <1>4, <1>6, <1>7 DEF Refreshing

\* And a request that changes but stays a refresh and current, if it was.
LEMMA ChangeLeavesRefresh ==
  ASSUME NEW q, IsNetwork(q), NEW k \in 1 .. Len(q), NEW r, IsRequest(r),
         q[k].kind \in Refreshes /\ q[k].current => r.kind \in Refreshes /\ r.current,
         Refreshing(q)
  PROVE  Refreshing([q EXCEPT ![k] = r])
BY NetworkAndUpdate DEF Refreshing

\* The start of a refresh puts one in flight.
LEMMA RefreshIsOne ==
  ASSUME NEW upload, NEW base, IsNetwork(base), RefreshFor(upload, base)
  PROVE  Refreshing(inflight')
<1> DEFINE r == Request("jobs", [upload |-> upload])
           q == Superseded(Refreshes, base)
<1>1. IsRequest(r) /\ r.kind \in Refreshes /\ r.current
  BY SentIsRequest DEF Request, Refreshes
<1>2. IsNetwork(q) /\ inflight' = Append(q, r)
  BY NetworkSuperseded DEF RefreshFor
<1> HIDE DEF q, r
<1>3. Len(q) \in Nat /\ Len(inflight') = Len(q) + 1 /\ inflight'[Len(q) + 1] = r
  BY <1>1, <1>2, NetworkAndSend DEF IsNetwork
<1> QED BY <1>1, <1>3 DEF Refreshing

\* The server's answer leaves the requests what they are.
LEMMA ReplyLeavesRefresh ==
  ASSUME IsNetwork(inflight), NEW i \in DOMAIN inflight, NEW value, Reply(i, value)
  PROVE  KeepsRefreshing
<1> DEFINE r == [inflight[i] EXCEPT !.served = TRUE, !.reply = value]
<1>1. i \in 1 .. Len(inflight) /\ IsRequest(inflight[i])
  BY Carriers DEF IsNetwork
<1>2. IsRequest(r) /\ r.kind = inflight[i].kind /\ r.current = inflight[i].current
  BY <1>1 DEF IsRequest
<1>3. inflight' = [inflight EXCEPT ![i] = r]
  BY DEF Reply
<1> HIDE DEF r
<1> QED BY <1>1, <1>2, <1>3, ChangeLeavesRefresh DEF KeepsRefreshing

\* The chain of a refresh goes on as one.
LEMMA ContinuedLeavesRefresh ==
  ASSUME IsNetwork(inflight), NEW i \in DOMAIN inflight, NEW other \in Refreshes, NEW arg,
         Continued(i, other, arg)
  PROVE  KeepsRefreshing
<1> DEFINE r == [Request(other, arg) EXCEPT !.current = inflight[i].current]
<1>1. i \in 1 .. Len(inflight)
  BY Carriers
<1>2. IsRequest(Request(other, arg)) /\ Request(other, arg).kind = other
  BY SentIsRequest
<1>3. IsRequest(r) /\ r.kind \in Refreshes /\ r.current = inflight[i].current
  BY <1>2 DEF IsRequest
<1>4. inflight' = [inflight EXCEPT ![i] = r] \/ (~inflight[i].current /\ inflight' = Others(i))
  BY DEF Continued
<1> HIDE DEF r
<1> QED BY <1>1, <1>3, <1>4, ChangeLeavesRefresh, EndLeavesRefresh DEF KeepsRefreshing, Others

\* The ways in which the other views use the network.
LEMMA OtherKinds ==
  ASSUME IsNetwork(inflight), Refreshing(inflight)
  PROVE  /\ \A kind, arg : Refreshing(Append(inflight, Request(kind, arg)))
         /\ \A i \in DOMAIN inflight : inflight[i].kind \notin Refreshes =>
              /\ IsNetwork(Others(i)) /\ Refreshing(Others(i))
              /\ Refreshing(Superseded({"cancel"}, Others(i)))
              /\ Refreshing(ListPromotions(Others(i)))
         /\ Refreshing(ListPromotions(inflight))
         /\ \A term, form : Refreshing(Append(Superseded({"search"}, inflight), Request("search", [form |-> form, term |-> term])))
<1>1. DOMAIN inflight = 1 .. Len(inflight)
  BY NetworkIsSeq
<1>2. /\ {"cancel"} \cap Refreshes = {} /\ {"search"} \cap Refreshes = {}
  BY DEF Refreshes
<1>3. ASSUME NEW i \in DOMAIN inflight, inflight[i].kind \notin Refreshes
      PROVE  IsNetwork(Others(i)) /\ Refreshing(Others(i))
  BY <1>1, <1>3, EndLeavesRefresh DEF Others
<1> QED BY <1>2, <1>3, SendLeavesRefresh, SupersedingLeavesRefresh DEF ListPromotions

\* A table that is reset asks for a page.
LEMMA ResetLeavesRefresh ==
  ASSUME NEW base, IsNetwork(base), Refreshing(base), NEW f, ResetTable(base, f)
  PROVE  Refreshing(inflight')
<1>1. {"page"} \cap Refreshes = {}
  BY DEF Refreshes
<1> QED BY <1>1, SupersedingLeavesRefresh, SendLeavesRefresh DEF ResetTable

\* The products view leaves refreshes in flight.
LEMMA ProductsLeaveRefresh ==
  ASSUME IsNetwork(inflight), UserOfProducts \/ AnswersOfProducts \/ FaultsOfProducts
  PROVE  KeepsRefreshing
<1> SUFFICES ASSUME Refreshing(inflight) PROVE Refreshing(inflight')
  BY DEF KeepsRefreshing
<1>1. ASSUME NEW f \in Filters, SetFilter(f) PROVE Refreshing(inflight')
  BY <1>1, ResetLeavesRefresh DEF SetFilter
<1>2. CASE LoadMore \/ \E p \in Products : OpenProduct(p)
  BY <1>2, OtherKinds DEF LoadMore, OpenProduct
<1>3. CASE CloseDrawer
  BY <1>3 DEF CloseDrawer
<1>4. ASSUME NEW i \in DOMAIN inflight, ServePage(i) PROVE Refreshing(inflight')
  <2>1. \E value : Reply(i, value)
    BY <1>4 DEF ServePage
  <2> QED BY <2>1, ReplyLeavesRefresh DEF KeepsRefreshing
<1>5. ASSUME NEW i \in DOMAIN inflight,
             AnswerPage(i) \/ FailPage(i) \/ AnswerProduct(i) \/ FailProduct(i)
      PROVE  Refreshing(inflight')
  <2>1. inflight[i].kind \notin Refreshes /\ inflight' = Others(i)
    BY <1>5 DEF AnswerPage, FailPage, AnswerProduct, FailProduct, Served, InFlight, Refreshes
  <2> QED BY <2>1, OtherKinds
<1> QED BY <1>1, <1>2, <1>3, <1>4, <1>5
        DEF UserOfProducts, AnswersOfProducts, FaultsOfProducts

\* The promotions view does.
LEMMA PromotionsLeaveRefresh ==
  ASSUME IsNetwork(inflight), UserOfPromotions \/ AnswersOfPromotions \/ FaultsOfPromotions
  PROVE  KeepsRefreshing
<1> SUFFICES ASSUME Refreshing(inflight) PROVE Refreshing(inflight')
  BY DEF KeepsRefreshing
<1>1. ASSUME NEW pr \in PromotionIds, ClickCancel(pr) PROVE Refreshing(inflight')
  <2>1. inflight' = inflight \/ inflight' = Append(inflight, Request("cancel", pr))
    BY <1>1 DEF ClickCancel
  <2> QED BY <2>1, OtherKinds
<1>2. CASE (\E kind \in FormKinds : OpenForm(kind)) \/ Promote \/ CloseForm \/ Pick \/ ChangePick
  BY <1>2 DEF OpenForm, Promote, ShowForm, CloseForm, Pick, ChangePick
<1>3. CASE Submit
  BY <1>3, OtherKinds DEF Submit
<1>4. ASSUME NEW term \in Terms, Search(term) PROVE Refreshing(inflight')
  BY <1>4, OtherKinds DEF Search
<1>5. ASSUME NEW i \in DOMAIN inflight, ServePromotions(i) \/ ServeCancel(i) \/ ServeSubmit(i)
      PROVE  Refreshing(inflight')
  <2>1. \E value : Reply(i, value)
    BY <1>5 DEF ServePromotions, ServeCancel, ServeSubmit
  <2> QED BY <2>1, ReplyLeavesRefresh DEF KeepsRefreshing
<1>6. ASSUME NEW i \in DOMAIN inflight,
             \/ AnswerPromotions(i) \/ FailPromotions(i) \/ AnswerCancel(i) \/ FailCancel(i)
             \/ AnswerSearch(i) \/ FailSearch(i) \/ FailSubmit(i)
      PROVE  Refreshing(inflight')
  <2>1. inflight[i].kind \notin Refreshes
    BY <1>6 DEF AnswerPromotions, FailPromotions, AnswerCancel, FailCancel, AnswerSearch, FailSearch,
                FailSubmit, Served, InFlight, Refreshes
  <2>2. \/ inflight' = Others(i) \/ inflight' = Superseded({"cancel"}, Others(i))
        \/ inflight' = ListPromotions(Others(i))
    BY <1>6 DEF AnswerPromotions, FailPromotions, AnswerCancel, FailCancel, AnswerSearch, FailSearch,
                FailSubmit, ShowTable
  <2> QED BY <2>1, <2>2, OtherKinds
<1>7. ASSUME NEW i \in DOMAIN inflight, AnswerSubmit(i) PROVE Refreshing(inflight')
  <2>1. inflight[i].kind \notin Refreshes
    BY <1>7 DEF AnswerSubmit, Served, InFlight, Refreshes
  <2>2. \/ inflight' = Others(i) \/ inflight' = ListPromotions(Others(i))
        \/ ResetTable(Others(i), filter)
    BY <1>7 DEF AnswerSubmit, AfterSubmit
  <2> QED BY <2>1, <2>2, OtherKinds, ResetLeavesRefresh
<1> QED BY <1>1, <1>2, <1>3, <1>4, <1>5, <1>6, <1>7
        DEF UserOfPromotions, AnswersOfPromotions, FaultsOfPromotions

ShowsUnfinished == \E j \in Jobs : ShownUnfinished(j)

\* A step with which polling goes on if it did before.
PollingStep ==
  \/ faults' # 0 \/ view' # "ingest"
  \/ Refreshing(inflight')
  \/ timer' /\ view' = "ingest"
  \/ ~ShowsUnfinished'
  \/ KeepsRefreshing /\ UNCHANGED <<view, faults, timer, jobRows, card>>

\* The ingest view refreshes, ends a request of another kind, or shows what a refresh has
\* brought, and then the timer is armed if that is unfinished.
LEMMA IngestPolls ==
  ASSUME IsNetwork(inflight), faults \in Nat,
         UserOfIngest \/ AnswersOfIngest \/ FaultsOfIngest \/ Tick
  PROVE  PollingStep
<1>1. CASE ClickRefresh \/ (\E j \in Jobs : SelectJob(j)) \/ Tick
  <2>1. Refresh(inflight)
    BY <1>1 DEF ClickRefresh, SelectJob, Tick
  <2> QED BY <2>1, RefreshIsOne DEF Refresh, PollingStep
<1>2. CASE Upload \/ Replay
  <2>1. \E kind, arg : inflight' = Append(inflight, Request(kind, arg))
    BY <1>2 DEF Upload, Replay
  <2>2. KeepsRefreshing
    BY <2>1, SendLeavesRefresh DEF KeepsRefreshing
  <2> QED BY <1>2, <2>2 DEF Upload, Replay, User, PollingStep
<1>3. ASSUME NEW i \in DOMAIN inflight, ServeRefresh(i) \/ ServeUpload(i) \/ ServeReplay(i)
      PROVE  PollingStep
  <2>1. (\E value : Reply(i, value)) /\ UNCHANGED <<view, faults, timer, jobRows, card>>
    BY <1>3 DEF ServeRefresh, ServeUpload, ServeReplay, NoFault, ingestVars
  <2> QED BY <2>1, ReplyLeavesRefresh DEF PollingStep
<1>4. ASSUME NEW i \in DOMAIN inflight, NEW statuses, NEW shown, Render(i, statuses, shown), view' = view,
             faults' = faults
      PROVE  PollingStep
  <2>1. CASE inflight[i].current
    <3>1. /\ jobRows' = statuses /\ card' = shown
          /\ timer' = (Unfinished(statuses, shown) # {} /\ view = "ingest")
      BY <1>4, <2>1 DEF Render
    <3>2. ShowsUnfinished' => Unfinished(statuses, shown) # {}
      BY <3>1 DEF ShowsUnfinished, ShownUnfinished, Unfinished
    <3> QED BY <1>4, <3>1, <3>2 DEF PollingStep
  <2>2. CASE ~inflight[i].current
    <3>1. inflight' = Others(i) /\ UNCHANGED <<timer, jobRows, card>>
      BY <1>4, <2>2 DEF Render
    <3>2. KeepsRefreshing
      BY <2>2, <3>1, Carriers, EndLeavesRefresh DEF Others, KeepsRefreshing
    <3> QED BY <1>4, <3>1, <3>2 DEF PollingStep
  <2> QED BY <2>1, <2>2
<1>5. ASSUME NEW i \in DOMAIN inflight, AnswerJobs(i) \/ AnswerJob(i) \/ AnswerChunks(i)
      PROVE  PollingStep
  <2>1. view' = view /\ faults' = faults
    BY <1>5 DEF AnswerJobs, AnswerJob, AnswerChunks, NoFault
  <2>2. \/ \E statuses, shown : Render(i, statuses, shown)
        \/ /\ \E other \in {"chunks", "job"} : \E arg : Continued(i, other, arg)
           /\ UNCHANGED <<timer, jobRows, card>>
    BY <1>5 DEF AnswerJobs, AnswerJob, AnswerChunks, ingestVars
  <2>3. CASE /\ \E other \in {"chunks", "job"} : \E arg : Continued(i, other, arg)
             /\ UNCHANGED <<timer, jobRows, card>>
    <3>1. KeepsRefreshing
      BY <2>3, ContinuedLeavesRefresh DEF Refreshes
    <3> QED BY <2>1, <2>3, <3>1 DEF PollingStep
  <2> QED BY <1>4, <2>1, <2>2, <2>3
<1>6. ASSUME NEW i \in DOMAIN inflight, AnswerUpload(i) \/ AnswerReplay(i)
      PROVE  PollingStep
  <2>1. (\E upload : RefreshFor(upload, Others(i))) /\ IsNetwork(Others(i))
    BY <1>6, Carriers DEF AnswerUpload, AnswerReplay, Refresh, Carried
  <2> QED BY <2>1, RefreshIsOne DEF PollingStep
<1>7. CASE FaultsOfIngest
  <2>1. faults' = faults + 1
    BY <1>7 DEF FaultsOfIngest, FailRefresh, FailCommand, Fails
  <2> QED BY <2>1 DEF PollingStep
<1> QED BY <1>1, <1>2, <1>3, <1>5, <1>6, <1>7 DEF UserOfIngest, AnswersOfIngest

\* Every step of the page is one with which polling goes on.
LEMMA StepsPoll ==
  ASSUME IsNetwork(inflight), faults \in Nat, [Next]_vars
  PROVE  PollingStep
<1>1. ASSUME NEW v \in Views, Route(v) PROVE PollingStep
  <2>1. CASE v = "ingest"
    <3>1. Refresh(inflight)
      BY <1>1, <2>1 DEF Route
    <3> QED BY <3>1, RefreshIsOne DEF Refresh, PollingStep
  <2>2. CASE v # "ingest"
    BY <1>1, <2>2 DEF Route, PollingStep
  <2> QED BY <2>1, <2>2
<1>2. ASSUME \/ UserOfProducts \/ AnswersOfProducts
             \/ UserOfPromotions \/ AnswersOfPromotions
      PROVE  view' = view /\ faults' = faults
  BY <1>2
  DEF UserOfProducts, AnswersOfProducts, SetFilter, LoadMore, CloseDrawer, OpenProduct, ServePage,
      AnswerPage, AnswerProduct, UserOfPromotions, AnswersOfPromotions, ClickCancel, OpenForm,
      Promote, CloseForm, Submit, Pick, ChangePick, Search, ServePromotions, AnswerPromotions,
      ServeCancel, AnswerCancel, ServeSubmit, AnswerSubmit, AnswerSearch, User, NoFault
<1>3. CASE Act
  <2>1. ASSUME UserOfProducts \/ UserOfPromotions, UNCHANGED ingestVars PROVE PollingStep
    BY <1>2, <2>1, ProductsLeaveRefresh, PromotionsLeaveRefresh DEF PollingStep, ingestVars
  <2> QED BY <1>1, <1>3, <2>1, IngestPolls DEF Act, UserOfProducts
<1>4. CASE Answer
  <2>1. ASSUME AnswersOfProducts \/ AnswersOfPromotions, UNCHANGED ingestVars PROVE PollingStep
    BY <1>2, <2>1, ProductsLeaveRefresh, PromotionsLeaveRefresh DEF PollingStep, ingestVars
  <2> QED BY <1>4, <2>1, IngestPolls DEF Answer
<1>5. CASE Fault
  <2>1. faults' = faults + 1
    BY <1>5 DEF Fault, FaultsOfProducts, FaultsOfPromotions, FaultsOfIngest, FailPage, FailProduct,
                FailPromotions, FailCancel, FailSubmit, FailSearch, FailRefresh, FailCommand, Fails
  <2> QED BY <2>1 DEF PollingStep
<1>6. CASE Timer
  <2>1. ASSUME NEW pr \in PromotionIds, Disarm(pr), UNCHANGED ingestVars PROVE PollingStep
    BY <2>1 DEF Disarm, shell, ingestVars, KeepsRefreshing, PollingStep
  <2> QED BY <1>6, <2>1, IngestPolls DEF Timer
<1>7. CASE Server \/ UNCHANGED vars
  <2>1. UNCHANGED <<view, inflight, faults, timer, jobRows, card>>
    BY <1>7 DEF Server, ServerOfProducts, Reprice, Bump, Expire, Finish, shell, ingestVars, vars
  <2> QED BY <2>1 DEF KeepsRefreshing, PollingStep
<1> QED BY <1>3, <1>4, <1>5, <1>6, <1>7 DEF Next

\* In every reachable state in which the ingest view shows a job that is not finished, in
\* the list or on the card only, the next refresh is under way or the timer is armed,
\* whatever refreshes overlap, are superseded or come late, and wherever the user has been
\* meanwhile; until a request fails.
THEOREM UnfinishedIsPolled == Spec => []PollingGoesOn
<1>1. ASSUME IsNetwork(inflight)
      PROVE  Refreshing(inflight) <=> CurrentInFlight(Refreshes) # {}
  <2>1. DOMAIN inflight = 1 .. Len(inflight)
    BY <1>1, NetworkIsSeq
  <2> QED BY <2>1 DEF Refreshing, CurrentInFlight, InFlight
<1> DEFINE Polling == view = "ingest" /\ faults = 0 /\ ShowsUnfinished => timer \/ Refreshing(inflight)
<1>2. Init => Polling
  BY DEF Init, InitIngest, NoJobs, NoCard, ShowsUnfinished, ShownUnfinished
<1>3. Submission /\ Polling /\ [Next]_vars => Polling'
  <2> SUFFICES ASSUME Submission, Polling, [Next]_vars PROVE Polling'
    OBVIOUS
  <2>1. PollingStep
    BY StepsPoll DEF Submission, FormsTyped
  <2>2. UNCHANGED <<jobRows, card>> => ShowsUnfinished' = ShowsUnfinished
    BY DEF ShowsUnfinished, ShownUnfinished
  <2> QED BY <2>1, <2>2 DEF PollingStep, KeepsRefreshing
<1>4. Submission /\ Polling => PollingGoesOn
  BY <1>1 DEF Submission, PollingGoesOn, ShowsUnfinished
<1> QED BY <1>2, <1>3, <1>4, SubmissionInvariant, PTL DEF Spec

-----------------------------------------------------------------------------
(***************************************************************************)
(* The table of products.  Rows are asked for page by page, each after the *)
(* last one of the page before, while prices change.  What is shown, and   *)
(* what a page in flight brings, is a stretch of the listing: rows in      *)
(* order, from a cursor to the next one, and among them every product that *)
(* has not moved and lies between the two.  Two stretches that meet are    *)
(* one, and a price that changes leaves a stretch one.                     *)
(***************************************************************************)
(* Keys in order.                                                            *)

InOrder(order, k, l) == IF order = "asc" THEN Less(k, l) ELSE Less(l, k)

\* Either order is a total one, and a row follows those before it.
LEMMA OrderIsTotal ==
  ASSUME NEW order, NEW k \in Nat \X Nat, NEW l \in Nat \X Nat, NEW m \in Nat \X Nat
  PROVE  /\ InOrder(order, k, l) => ~InOrder(order, l, k) /\ k # l
         /\ k = l \/ InOrder(order, k, l) \/ InOrder(order, l, k)
         /\ InOrder(order, k, l) /\ InOrder(order, l, m) => InOrder(order, k, m)
         /\ Follows(order, l, k) <=> InOrder(order, k, l)
<1>1. /\ k[1] \in Nat /\ k[2] \in Nat /\ l[1] \in Nat /\ l[2] \in Nat /\ m[1] \in Nat /\ m[2] \in Nat
      /\ k[1] = l[1] /\ k[2] = l[2] => k = l
  OBVIOUS
<1> QED BY <1>1 DEF InOrder, Follows, Less

\* A set of numbers that is not empty has a least one.
LEMMA LeastNumber ==
  ASSUME NEW T, T \subseteq Nat, T # {}
  PROVE  \E n \in T : \A m \in T : ~(m < n)
<1>1. PICK n \in T : \A m \in T : <<m, n>> \notin OpToRel(<, Nat)
  BY NatLessThanWellFounded, WFMin
<1> QED BY <1>1 DEF OpToRel

\* A finite set of keys that is not empty has a last one.
LEMMA LastKey ==
  ASSUME NEW S, S \subseteq Nat \X Nat, IsFiniteSet(S), S # {}, NEW order
  PROVE  \E m \in S : \A k \in S \ {m} : InOrder(order, k, m)
<1> DEFINE HasLast(T) == \E m \in T : \A k \in T \ {m} : InOrder(order, k, m)
           Bad == {n \in Nat : \E T \in SUBSET S : T # {} /\ Cardinality(T) = n /\ ~HasLast(T)}
<1> HIDE DEF HasLast
<1>1. SUFFICES ASSUME Bad # {} PROVE FALSE
  <2>1. Cardinality(S) \in Nat
    BY FS_CardinalityType
  <2> QED BY <1>1, <2>1 DEF HasLast
<1>2. PICK n \in Bad : \A m \in Bad : ~(m < n)
  BY <1>1, LeastNumber
<1>3. PICK T \in SUBSET S : T # {} /\ Cardinality(T) = n /\ ~HasLast(T)
  BY <1>2
<1>4. PICK x \in T : TRUE
  BY <1>3
<1>5. /\ IsFiniteSet(T) /\ T \ {x} \in SUBSET S
      /\ Cardinality(T \ {x}) \in Nat /\ Cardinality(T \ {x}) = n - 1
  BY <1>3, FS_Subset, FS_RemoveElement, FS_CardinalityType
<1>6. T \ {x} # {}
  BY <1>3 DEF HasLast
<1>7. HasLast(T \ {x})
  BY <1>2, <1>5, <1>6
<1>8. PICK m \in T \ {x} : \A k \in (T \ {x}) \ {m} : InOrder(order, k, m)
  BY <1>7 DEF HasLast
<1>9. CASE InOrder(order, x, m)
  BY <1>3, <1>8, <1>9 DEF HasLast
<1>10. CASE InOrder(order, m, x)
  <2>1. \A k \in T \ {x} : InOrder(order, k, x)
    BY <1>4, <1>8, <1>10, OrderIsTotal
  <2> QED BY <1>3, <1>4, <2>1 DEF HasLast
<1> QED BY <1>4, <1>8, <1>9, <1>10, OrderIsTotal

Sorts(s, S, order) ==
  s \in Bijection(1 .. Cardinality(S), S) /\ \A i, j \in DOMAIN s : i < j => InOrder(order, s[i], s[j])

\* The keys but for the last one, in order, and then the last one are in order.
LEMMA SortedAndLast ==
  ASSUME NEW S, IsFiniteSet(S), NEW order, NEW m \in S, \A k \in S \ {m} : InOrder(order, k, m),
         NEW q, Sorts(q, S \ {m}, order)
  PROVE  \E s : Sorts(s, S, order)
<1> DEFINE n == Cardinality(S)
           s == [i \in 1 .. n |-> IF i < n THEN q[i] ELSE m]
<1>1. n \in Nat /\ n > 0 /\ Cardinality(S \ {m}) = n - 1
  BY FS_RemoveElement, FS_CardinalityType, FS_EmptySet
<1> HIDE DEF n
<1>2. /\ q \in [1 .. n - 1 -> S \ {m}] /\ \A i, j \in 1 .. n - 1 : q[i] = q[j] => i = j
      /\ \A k \in S \ {m} : \E i \in 1 .. n - 1 : q[i] = k
      /\ \A i, j \in 1 .. n - 1 : i < j => InOrder(order, q[i], q[j])
  BY <1>1 DEF Sorts, Bijection, Injection, IsInjective, Surjection
<1>3. s \in [1 .. n -> S] /\ s[n] = m /\ \A i \in 1 .. n - 1 : s[i] = q[i]
  BY <1>1, <1>2
<1> HIDE DEF s
<1>4. \A i \in 1 .. n : i \in 1 .. n - 1 \/ i = n
  BY <1>1
<1>5. \A i, j \in 1 .. n : s[i] = s[j] => i = j
  BY <1>2, <1>3, <1>4
<1>6. \A k \in S : \E i \in 1 .. n : s[i] = k
  <2> TAKE k \in S
  <2>1. CASE k = m
    BY <1>1, <1>3, <2>1
  <2>2. CASE k # m
    <3>1. PICK i \in 1 .. n - 1 : q[i] = k
      BY <1>2, <2>2
    <3> QED BY <1>1, <1>3, <3>1
  <2> QED BY <2>1, <2>2
<1>7. \A i, j \in 1 .. n : i < j => InOrder(order, s[i], s[j])
  BY <1>1, <1>2, <1>3, <1>4
<1>8. DOMAIN s = 1 .. n
  BY <1>3
<1> QED BY <1>3, <1>5, <1>6, <1>7, <1>8 
        DEF Sorts, Bijection, Injection, IsInjective, Surjection, n

\* A finite set of keys can be put in order.
LEMMA SortedExists ==
  ASSUME NEW S, S \subseteq Nat \X Nat, IsFiniteSet(S), NEW order
  PROVE  \E s : Sorts(s, S, order)
<1> DEFINE Sortable(T) == \E s : Sorts(s, T, order)
           Bad == {n \in Nat : \E T \in SUBSET S : Cardinality(T) = n /\ ~Sortable(T)}
<1> HIDE DEF Sortable
<1>1. SUFFICES ASSUME Bad # {} PROVE FALSE
  <2>1. Cardinality(S) \in Nat
    BY FS_CardinalityType
  <2> QED BY <1>1, <2>1 DEF Sortable
<1>2. PICK n \in Bad : \A m \in Bad : ~(m < n)
  BY <1>1, LeastNumber
<1>3. PICK T \in SUBSET S : Cardinality(T) = n /\ ~Sortable(T)
  BY <1>2
<1>4. IsFiniteSet(T)
  BY FS_Subset
<1>5. CASE T = {}
  <2>1. Cardinality(T) = 0
    BY <1>5, FS_EmptySet
  <2>2. Sorts([i \in 1 .. 0 |-> i], T, order)
    BY <1>5, <2>1 DEF Sorts, Bijection, Injection, IsInjective, Surjection
  <2> QED BY <1>3, <2>2 DEF Sortable
<1>6. CASE T # {}
  <2>1. PICK m \in T : \A k \in T \ {m} : InOrder(order, k, m)
    BY <1>4, <1>6, LastKey
  <2>2. /\ T \ {m} \in SUBSET S
        /\ Cardinality(T \ {m}) \in Nat /\ Cardinality(T \ {m}) = n - 1
    BY <1>3, <1>4, FS_RemoveElement, FS_CardinalityType
  <2>3. Sortable(T \ {m})
    BY <1>2, <2>2
  <2> QED BY <1>3, <1>4, <2>1, <2>3, SortedAndLast DEF Sortable
<1> QED BY <1>5, <1>6

\* So Sorted puts them in order.
LEMMA SortedSorts ==
  ASSUME NEW S, S \subseteq Nat \X Nat, IsFiniteSet(S), NEW order
  PROVE  Sorts(Sorted(S, order), S, order)
<1>1. PICK s : Sorts(s, S, order)
  BY SortedExists
<1>2. \E t \in Bijection(1 .. Cardinality(S), S) :
        \A i, j \in DOMAIN t : i < j => IF order = "asc" THEN Less(t[i], t[j]) ELSE Less(t[j], t[i])
  BY <1>1 DEF Sorts, InOrder
<1> QED BY <1>2 DEF Sorts, InOrder, Sorted

-----------------------------------------------------------------------------
(* Stretches of a listing.                                                   *)

PageCursors == [key : Keys, listing : Filters]

\* The cursors of a listing, and where it begins and ends.
Ends(f) == {c \in PageCursors : c.listing = f} \cup {Nothing}

\* items are rows of the listing f, in its order and after from; next, if there is a
\* next page, is the last of them.
InListing(items, f, from, next) ==
  /\ items \in Seq(Keys) /\ {from, next} \subseteq Ends(f)
  /\ \A i \in DOMAIN items : items[i][2] \in Matching(f) /\ After(f.order, items[i], from)
  /\ \A i, j \in DOMAIN items : i < j => Follows(f.order, items[j], items[i])
  /\ next # Nothing => items # <<>> /\ next.key = items[Len(items)]

\* Of the products that have not moved, items has those that are between from and next.
HasUnmoved(prices, except, items, f, from, next) ==
  \A p \in Matching(f) \ except :
    /\ \A i \in DOMAIN items : items[i][2] = p => items[i] = <<prices[p], p>>
    /\ (\E i \in DOMAIN items : items[i][2] = p) <=>
         /\ After(f.order, <<prices[p], p>>, from)
         /\ next = Nothing \/ ~Follows(f.order, <<prices[p], p>>, next.key)

Stretch(prices, except, items, f, from, next) ==
  InListing(items, f, from, next) /\ HasUnmoved(prices, except, items, f, from, next)

\* Keys are pairs of numbers.
LEMMA KeysAreOrdered == Keys \subseteq Nat \X Nat
BY ProductsAssumption DEF Keys

\* A cursor is not Nothing.
LEMMA CursorsAreThere == Nothing \notin PageCursors
BY KeysAreOrdered, NothingAssumption DEF PageCursors, Cursors

\* What a page is cut from: the keys that match, each of its product.
LEMMA FoundKeys ==
  ASSUME NEW prices \in [Products -> Prices], NEW f \in Filters, NEW from
  PROVE  /\ Found(prices, f, from) \subseteq Keys /\ IsFiniteSet(Found(prices, f, from))
         /\ \A k \in Found(prices, f, from) :
              k[2] \in Matching(f) /\ k = Key(prices, k[2]) /\ After(f.order, k, from)
         /\ \A p \in Matching(f) :
              After(f.order, Key(prices, p), from) => Key(prices, p) \in Found(prices, f, from)
<1>1. Matching(f) \subseteq Products /\ IsFiniteSet(Matching(f))
  BY ProductsAssumption, FS_Subset DEF Matching
<1>2. IsFiniteSet({Key(prices, p) : p \in Matching(f)})
  <2> DEFINE keyOf == [p \in Matching(f) |-> Key(prices, p)]
             K == {Key(prices, p) : p \in Matching(f)}
  <2>1. keyOf \in Surjection(Matching(f), K)
    BY DEF Surjection
  <2> HIDE DEF keyOf, K
  <2>2. IsFiniteSet(K)
    BY <1>1, <2>1, FS_Surjection DEF ExistsSurjection
  <2> QED BY <2>2 DEF K
<1>3. Found(prices, f, from) \subseteq {Key(prices, p) : p \in Matching(f)}
  BY DEF Found
<1>4. IsFiniteSet(Found(prices, f, from))
  BY <1>2, <1>3, FS_Subset
<1>5. \A p \in Matching(f) : Key(prices, p) \in Keys /\ Key(prices, p)[2] = p
  BY <1>1 DEF Key, Keys
<1> QED BY <1>3, <1>4, <1>5 DEF Found

\* What the server answers is a stretch of the listing at the prices it is made of.
LEMMA PageIsStretch ==
  ASSUME NEW prices \in [Products -> Prices], NEW f \in Filters, NEW from \in Ends(f), NEW except
  PROVE  Stretch(prices, except, Page(prices, f, from).items, f, from, Page(prices, f, from).next)
<1> DEFINE S == Found(prices, f, from)
           s == Sorted(S, f.order)
           n == Cardinality(S)
           items == Page(prices, f, from).items
           next == Page(prices, f, from).next
<1>1. /\ S \subseteq Keys /\ IsFiniteSet(S)
      /\ \A k \in S : k[2] \in Matching(f) /\ k = Key(prices, k[2]) /\ After(f.order, k, from)
      /\ \A p \in Matching(f) : After(f.order, Key(prices, p), from) => Key(prices, p) \in S
  BY FoundKeys
<1> HIDE DEF S
<1>2. Sorts(s, S, f.order)
  BY <1>1, KeysAreOrdered, SortedSorts
<1> HIDE DEF s
<1>3. n \in Nat
  BY <1>1, FS_CardinalityType
<1>4. /\ s \in [1 .. n -> S] /\ \A k \in S : \E i \in 1 .. n : s[i] = k
      /\ \A i, j \in 1 .. n : i < j => InOrder(f.order, s[i], s[j])
  BY <1>2 DEF Sorts, Bijection, Injection, Surjection
<1> HIDE DEF n
<1>5. s \in Seq(S) /\ Len(s) = n /\ s \in Seq(Keys)
  BY <1>1, <1>3, <1>4
<1>6. Page(prices, f, from) = IF Len(s) > PageSize
                        THEN [items |-> SubSeq(s, 1, PageSize), next |-> [key |-> s[PageSize], listing |-> f]]
                        ELSE [items |-> s, next |-> Nothing]
  BY DEF Page, s, S
<1>7. PICK m \in 0 .. n :
        /\ items \in Seq(Keys) /\ Len(items) = m /\ \A i \in 1 .. m : items[i] = s[i]
        /\ (next = Nothing /\ m = n) \/ (m > 0 /\ next = [key |-> s[m], listing |-> f])
  <2>1. CASE n > PageSize
    <3>1. items = SubSeq(s, 1, PageSize) /\ next = [key |-> s[PageSize], listing |-> f] /\ PageSize \in 1 .. n
      BY <1>3, <1>5, <1>6, <2>1, PageSizeAssumption
    <3> HIDE DEF items, next
    <3>2. items \in Seq(Keys) /\ Len(items) = PageSize /\ \A i \in 1 .. PageSize : items[i] = s[i]
      BY <1>3, <1>5, <3>1
    <3> QED BY <1>3, <3>1, <3>2, PageSizeAssumption
  <2>2. CASE ~(n > PageSize)
    <3>1. items = s /\ next = Nothing
      BY <1>5, <1>6, <2>2
    <3> QED BY <1>3, <1>5, <3>1
  <2> QED BY <2>1, <2>2
<1> HIDE DEF items, next
<1>8. \A i \in 1 .. n : s[i] \in S /\ s[i] \in Keys /\ s[i] \in Nat \X Nat
  BY <1>1, <1>4, KeysAreOrdered
<1>9. DOMAIN items = 1 .. m /\ \A i \in 1 .. m : i \in 1 .. n /\ items[i] = s[i]
  BY <1>3, <1>7
<1>10. InListing(items, f, from, next)
  <2>1. next \in Ends(f)
    <3>1. CASE next = Nothing
      BY <3>1 DEF Ends
    <3>2. CASE next # Nothing
      <4>1. m \in 1 .. n /\ next = [key |-> s[m], listing |-> f]
        BY <1>3, <1>7, <3>2
      <4> QED BY <1>8, <4>1 DEF Ends, PageCursors
    <3> QED BY <3>1, <3>2
  <2>2. \A i, j \in 1 .. m : i < j => Follows(f.order, items[j], items[i])
    BY <1>4, <1>8, <1>9, OrderIsTotal
  <2>3. next # Nothing => items # <<>> /\ next.key = items[Len(items)]
    BY <1>7
  <2> QED BY <1>1, <1>7, <1>8, <1>9, <2>1, <2>2, <2>3 DEF InListing
<1>11. HasUnmoved(prices, except, items, f, from, next)
  <2> SUFFICES ASSUME NEW p \in Matching(f)
               PROVE  /\ \A i \in 1 .. m : items[i][2] = p => items[i] = Key(prices, p)
                      /\ (\E i \in 1 .. m : items[i][2] = p) <=>
                           /\ After(f.order, Key(prices, p), from)
                           /\ next = Nothing \/ ~Follows(f.order, Key(prices, p), next.key)
    BY <1>9 DEF HasUnmoved, Key
  <2>1. \A i \in 1 .. m : items[i][2] = p => items[i] = Key(prices, p)
    BY <1>1, <1>8, <1>9
  <2>2. Key(prices, p)[2] = p
    BY DEF Key
  <2>3. ASSUME NEW i \in 1 .. m, items[i][2] = p
        PROVE  After(f.order, Key(prices, p), from) /\ (next = Nothing \/ ~Follows(f.order, Key(prices, p), next.key))
    <3>1. s[i] = Key(prices, p) /\ Key(prices, p) \in S
      BY <1>8, <1>9, <2>1, <2>3
    <3>2. After(f.order, Key(prices, p), from)
      BY <1>1, <3>1
    <3>3. ASSUME next # Nothing, Follows(f.order, Key(prices, p), next.key) PROVE FALSE
      <4>1. next.key = s[m] /\ m \in 1 .. n
        BY <1>3, <1>7, <3>3
      <4>2. InOrder(f.order, s[m], s[i])
        BY <1>8, <1>9, <3>1, <3>3, <4>1, OrderIsTotal
      <4>3. i = m \/ i < m
        OBVIOUS
      <4>4. i = m \/ InOrder(f.order, s[i], s[m])
        BY <1>4, <1>9, <4>1, <4>3
      <4> QED BY <1>8, <1>9, <4>1, <4>2, <4>4, OrderIsTotal
    <3> QED BY <3>2, <3>3
  <2>4. ASSUME After(f.order, Key(prices, p), from), next = Nothing \/ ~Follows(f.order, Key(prices, p), next.key)
        PROVE  \E i \in 1 .. m : items[i][2] = p
    <3>1. PICK j \in 1 .. n : s[j] = Key(prices, p)
      BY <1>1, <1>4, <2>4
    <3>2. ASSUME j > m PROVE FALSE
      <4>1. next # Nothing /\ next.key = s[m] /\ m \in 1 .. n
        <5>1. m \in 1 .. n /\ next = [key |-> s[m], listing |-> f]
          BY <1>3, <1>7, <3>2
        <5>2. next \in PageCursors
          BY <1>8, <5>1 DEF PageCursors
        <5> QED BY <5>1, <5>2, CursorsAreThere
      <4>2. InOrder(f.order, s[m], s[j])
        BY <1>4, <3>2, <4>1
      <4> QED BY <1>8, <2>4, <3>1, <4>1, <4>2, OrderIsTotal
    <3>3. j \in 1 .. m
      BY <1>3, <3>2
    <3> QED BY <1>9, <2>2, <3>1, <3>3
  <2> QED BY <2>1, <2>3, <2>4
<1> QED BY <1>10, <1>11 DEF Stretch, items, next

\* A stretch and the one after it are one.
LEMMA StretchesJoin ==
  ASSUME NEW prices \in [Products -> Prices], NEW except, NEW f \in Filters,
         NEW a, NEW b, NEW from, NEW mid, NEW to,
         Stretch(prices, except, a, f, from, mid), mid # Nothing, Stretch(prices, except, b, f, mid, to)
  PROVE  Stretch(prices, except, a \o b, f, from, to)
<1> DEFINE c == a \o b
           m == Len(a)
           n == Len(b)
<1>1. a \in Seq(Keys) /\ b \in Seq(Keys) /\ m \in Nat /\ n \in Nat
  BY DEF Stretch, InListing
<1>2. /\ c \in Seq(Keys) /\ Len(c) = m + n
      /\ \A i \in 1 .. m : c[i] = a[i]
      /\ \A i \in 1 .. n : c[m + i] = b[i]
  BY <1>1
<1>3. DOMAIN a = 1 .. m /\ DOMAIN b = 1 .. n /\ DOMAIN c = 1 .. m + n
  BY <1>1, <1>2
<1>4. m \in 1 .. m /\ mid.key = a[m] /\ mid.key \in Keys
  BY <1>1, <1>3 DEF Stretch, InListing
<1> HIDE DEF c, m, n
<1>5. /\ \A i \in 1 .. m : a[i] \in Keys /\ a[i] \in Nat \X Nat
      /\ \A i \in 1 .. n : b[i] \in Keys /\ b[i] \in Nat \X Nat
      /\ mid.key \in Nat \X Nat
  BY <1>1, <1>3, <1>4, KeysAreOrdered
<1>6. /\ \A i \in 1 .. m : a[i][2] \in Matching(f) /\ After(f.order, a[i], from)
      /\ \A i, j \in 1 .. m : i < j => Follows(f.order, a[j], a[i])
      /\ \A i \in 1 .. n : b[i][2] \in Matching(f) /\ Follows(f.order, b[i], mid.key)
      /\ \A i, j \in 1 .. n : i < j => Follows(f.order, b[j], b[i])
  BY <1>3, <1>4, KeysAreOrdered DEF Stretch, InListing, After
<1>7. \A i \in 1 .. m + n : i \in 1 .. m \/ \E j \in 1 .. n : i = m + j
  <2> TAKE i \in 1 .. m + n
  <2>1. CASE i > m
    <3> DEFINE j == i - m
    <3>1. j \in 1 .. n /\ i = m + j
      BY <1>1, <2>1
    <3> QED BY <3>1
  <2> QED BY <1>1, <2>1
<1>8. /\ from \in Ends(f) /\ to \in Ends(f)
      /\ from # Nothing => from.key \in Nat \X Nat /\ Follows(f.order, mid.key, from.key)
      /\ to # Nothing => n \in 1 .. n /\ to.key = b[n] /\ to.key \in Nat \X Nat
  <2>1. {from, to} \subseteq Ends(f) /\ (to # Nothing => b # <<>> /\ to.key = b[Len(b)])
    BY DEF Stretch, InListing
  <2>2. from # Nothing => from.key \in Nat \X Nat
    BY <2>1, KeysAreOrdered DEF Ends, PageCursors
  <2>3. from # Nothing => Follows(f.order, mid.key, from.key)
    BY <1>4, <1>6 DEF After
  <2>4. to # Nothing => n \in 1 .. n /\ to.key = b[n] /\ to.key \in Nat \X Nat
    BY <1>1, <1>3, <1>5, <2>1 DEF n
  <2> QED BY <2>1, <2>2, <2>3, <2>4
<1>9. \A i \in 1 .. n : After(f.order, b[i], from)
  BY <1>5, <1>6, <1>8, OrderIsTotal DEF After
<1>10. \A i \in 1 .. m, j \in 1 .. n : Follows(f.order, b[j], a[i])
  <2> TAKE i \in 1 .. m, j \in 1 .. n
  <2>1. i = m \/ i < m
    BY <1>1
  <2>2. a[i] = mid.key \/ Follows(f.order, mid.key, a[i])
    BY <1>4, <1>6, <2>1
  <2> QED BY <1>5, <1>6, <2>2, OrderIsTotal
<1>11. InListing(c, f, from, to)
  <2>1. \A i \in 1 .. m + n : c[i][2] \in Matching(f) /\ After(f.order, c[i], from)
    BY <1>2, <1>6, <1>7, <1>9
  <2>2. ASSUME NEW i \in 1 .. m + n, NEW j \in 1 .. m + n, i < j
        PROVE  Follows(f.order, c[j], c[i])
    <3>1. CASE j \in 1 .. m
      <4>1. i \in 1 .. m
        BY <1>1, <2>2, <3>1
      <4> QED BY <1>2, <1>6, <2>2, <3>1, <4>1
    <3>2. ASSUME NEW k \in 1 .. n, j = m + k PROVE Follows(f.order, c[j], c[i])
      <4>1. CASE i \in 1 .. m
        BY <1>2, <1>10, <3>2, <4>1
      <4>2. ASSUME NEW l \in 1 .. n, i = m + l PROVE Follows(f.order, c[j], c[i])
        <5>1. l < k
          BY <1>1, <2>2, <3>2, <4>2
        <5> QED BY <1>2, <1>6, <3>2, <4>2, <5>1
      <4> QED BY <1>7, <4>1, <4>2
    <3> QED BY <1>7, <3>1, <3>2
  <2>3. to # Nothing => c # <<>> /\ to.key = c[Len(c)]
    BY <1>1, <1>2, <1>8
  <2> QED BY <1>2, <1>3, <1>8, <2>1, <2>2, <2>3 DEF InListing
<1>12. HasUnmoved(prices, except, c, f, from, to)
  <2> SUFFICES ASSUME NEW p \in Matching(f) \ except
               PROVE  /\ \A i \in 1 .. m + n : c[i][2] = p => c[i] = <<prices[p], p>>
                      /\ (\E i \in 1 .. m + n : c[i][2] = p) <=>
                           /\ After(f.order, <<prices[p], p>>, from)
                           /\ to = Nothing \/ ~Follows(f.order, <<prices[p], p>>, to.key)
    BY <1>3 DEF HasUnmoved
  <2> DEFINE k == <<prices[p], p>>
  <2>1. k \in Keys /\ k \in Nat \X Nat
    BY KeysAreOrdered DEF Matching, Keys
  <2>2. /\ \A i \in 1 .. m : a[i][2] = p => a[i] = k
        /\ (\E i \in 1 .. m : a[i][2] = p) <=>
             After(f.order, k, from) /\ (mid = Nothing \/ ~Follows(f.order, k, mid.key))
    BY <1>3 DEF Stretch, HasUnmoved
  <2>3. /\ \A i \in 1 .. n : b[i][2] = p => b[i] = k
        /\ (\E i \in 1 .. n : b[i][2] = p) <=>
             Follows(f.order, k, mid.key) /\ (to = Nothing \/ ~Follows(f.order, k, to.key))
    BY <1>3 DEF Stretch, HasUnmoved, After
  <2> HIDE DEF k
  <2>4. ASSUME NEW i \in 1 .. m + n, c[i][2] = p PROVE c[i] = k
    <3>1. CASE i \in 1 .. m
      BY <1>2, <2>2, <2>4, <3>1
    <3>2. ASSUME NEW j \in 1 .. n, i = m + j PROVE c[i] = k
      BY <1>2, <2>3, <2>4, <3>2
    <3> QED BY <1>7, <3>1, <3>2
  <2>5. (\E i \in 1 .. m + n : c[i][2] = p) <=>
          (\E i \in 1 .. m : a[i][2] = p) \/ (\E i \in 1 .. n : b[i][2] = p)
    <3>1. \A i \in 1 .. m : i \in 1 .. m + n /\ c[i] = a[i]
      BY <1>1, <1>2
    <3>2. \A i \in 1 .. n : m + i \in 1 .. m + n /\ c[m + i] = b[i]
      BY <1>1, <1>2
    <3> QED BY <1>7, <3>1, <3>2
  <2>6. Follows(f.order, k, mid.key) => After(f.order, k, from)
    BY <1>5, <1>8, <2>1, OrderIsTotal DEF After
  <2>7. to # Nothing => Follows(f.order, to.key, mid.key)
    BY <1>6, <1>8
  <2>8. to # Nothing /\ Follows(f.order, k, to.key) => Follows(f.order, k, mid.key)
    BY <1>5, <1>8, <2>1, <2>7, OrderIsTotal
  <2> QED BY <2>2, <2>3, <2>4, <2>5, <2>6, <2>8, KeysAreOrdered DEF k
<1> QED BY <1>11, <1>12 DEF Stretch, c

\* A stretch at some prices is one at all others that agree with them on the products
\* that have not moved.
LEMMA StretchSurvives ==
  ASSUME NEW prices, NEW except, NEW items, NEW f, NEW from, NEW next,
         Stretch(prices, except, items, f, from, next), NEW others, NEW but,
         \A q \in Matching(f) \ but : q \notin except /\ others[q] = prices[q]
  PROVE  Stretch(others, but, items, f, from, next)
BY DEF Stretch, HasUnmoved

-----------------------------------------------------------------------------
(* What the pages in flight and the table have to do with each other.        *)

Present == priced[Now]

CatalogTyped ==
  /\ Now \in Nat \ {0} /\ priced \in Seq([Products -> Prices])
  /\ oldest \in [Scopes -> 1 .. Now]

\* Whatever a page of the scope is made of, the price of p in it is the present one.
Settled(p, scope) == \A n \in oldest[scope] .. Now : priced[n][p] = Present[p]

AnnouncedAreSettled ==
  \A p \in Products \ unannounced : Settled(p, CategoryOf[p]) /\ Settled(p, AllCategories)

UnmovedAreSettled == \A p \in Matching(filter) \ moved : Settled(p, filter.category)

Cached == CatalogTyped /\ AnnouncedAreSettled /\ UnmovedAreSettled

CurrentPages(q) == {i \in Of("page", q) : q[i].current}

TableTyped ==
  /\ filter \in Filters /\ cursor \in Ends(filter) /\ rows \in Seq(Keys)
  /\ more \in [hidden : BOOLEAN, disabled : BOOLEAN] /\ (more.hidden <=> cursor = Nothing)

RowsMatch == \A i \in DOMAIN rows : rows[i][2] \in Matching(filter)

\* A request for a page, and the answer it may have.
AsksFor(r, f, prices, except) ==
  /\ r.arg.filter = f /\ r.arg.from \in Ends(f)
  /\ r.served => Stretch(prices, except, r.reply.items, f, r.arg.from, r.reply.next)

PagesMatch == \A i \in CurrentPages(inflight) : AsksFor(inflight[i], filter, Present, moved)

\* No request for a page, current or not, has the cursor of another listing.
NoneRefused(q) == \A i \in Of("page", q) : ~Refused(q[i].arg.filter, q[i].arg.from)

\* A page that is asked for is the first one, or continues where the table ends.
Continues(a, end) ==
  IF a.reset THEN a.from = Nothing /\ end = Nothing ELSE a.from = end /\ end # Nothing

OnePage == \A i, j \in CurrentPages(inflight) : i = j

TableIsStretch == rows # <<>> => Stretch(Present, moved, rows, filter, Nothing, cursor)

Walk ==
  session.patient =>
    /\ OnePage
    /\ \A i \in CurrentPages(inflight) : Continues(inflight[i].arg, cursor)
    /\ cursor # Nothing => rows # <<>>
    /\ TableIsStretch

PageInv == Cached /\ TableTyped /\ RowsMatch /\ PagesMatch /\ NoneRefused(inflight) /\ Walk

\* The current pages of a network that carries the pages of another are some of that.
LEMMA CarriedPages ==
  ASSUME NEW new, NEW old, NEW S, Carried("page", new, old, S), S \subseteq Of("page", old)
  PROVE  \E f \in [CurrentPages(new) -> CurrentPages(old) \cap S] :
           /\ \A i \in CurrentPages(new) : new[i] = old[f[i]]
           /\ \A i, j \in CurrentPages(new) : f[i] = f[j] => i = j
<1>1. PICK g \in [Of("page", new) -> S] :
        /\ \A i \in Of("page", new) : new[i] = old[g[i]]
        /\ \A i, j \in Of("page", new) : g[i] = g[j] => i = j
  BY DEF Carried
<1> DEFINE f == [i \in CurrentPages(new) |-> g[i]]
<1>2. \A i \in CurrentPages(new) : i \in Of("page", new) /\ g[i] \in CurrentPages(old) \cap S
  BY <1>1 DEF CurrentPages
<1>3. f \in [CurrentPages(new) -> CurrentPages(old) \cap S] /\ \A i \in CurrentPages(new) : f[i] = g[i]
  BY <1>2
<1> HIDE DEF f
<1> QED BY <1>1, <1>2, <1>3

\* What carries the pages of a network none of which is refused has none that is.
LEMMA CarriedRefused ==
  ASSUME NEW new, NEW old, NEW S, Carried("page", new, old, S), S \subseteq Of("page", old),
         NoneRefused(old)
  PROVE  NoneRefused(new)
BY DEF Carried, NoneRefused

\* Where catalog and filter stay as they are, what is settled stays settled.
LEMMA CachedStays ==
  ASSUME Cached, UNCHANGED <<catalogVars, moved, filter>>
  PROVE  Cached' /\ Present' = Present
BY DEF Cached, catalogVars, CatalogTyped, AnnouncedAreSettled, UnmovedAreSettled, Settled, Present,
       Now, Matching

\* Pages that are in flight no more disturb nothing; nor does what is no page.
LEMMA FewerPages ==
  ASSUME PageInv, Carried("page", inflight', inflight, Of("page", inflight)),
         UNCHANGED <<catalogVars, moved, filter, cursor, rows, session>>,
         more' \in [hidden : BOOLEAN, disabled : BOOLEAN], more'.hidden <=> more.hidden
  PROVE  PageInv'
<1>1. PICK f \in [CurrentPages(inflight') -> CurrentPages(inflight)] :
        /\ \A i \in CurrentPages(inflight') : inflight'[i] = inflight[f[i]]
        /\ \A i, j \in CurrentPages(inflight') : f[i] = f[j] => i = j
  BY CarriedPages
<1>2. Cached' /\ Present' = Present
  BY CachedStays DEF PageInv
<1>3. TableTyped' /\ RowsMatch'
  BY DEF PageInv, TableTyped, RowsMatch, Matching
<1>4. PagesMatch'
  BY <1>1, <1>2 DEF PageInv, PagesMatch
<1>5. NoneRefused(inflight')
  BY CarriedRefused DEF PageInv
<1>6. OnePage => OnePage'
  BY <1>1 DEF OnePage
<1>7. (\A i \in CurrentPages(inflight) : Continues(inflight[i].arg, cursor))
        => \A i \in CurrentPages(inflight') : Continues(inflight'[i].arg, cursor)
  BY <1>1
<1>8. Walk'
  BY <1>2, <1>6, <1>7 DEF PageInv, Walk, TableIsStretch
<1> QED BY <1>2, <1>3, <1>4, <1>5, <1>8 DEF PageInv

\* A reset leaves one page in flight that matters, the first one of the listing.  From
\* then on the products that are not announced count as moved.
LEMMA ResetKeepsPages ==
  ASSUME PageInv, NEW base, Carried("page", base, inflight, Of("page", inflight)),
         NEW f \in Filters, ResetTable(base, f), filter' = f, UNCHANGED catalogVars
  PROVE  PageInv'
<1> DEFINE mid == Superseded({"page"}, base)
           r == Request("page", [reset |-> TRUE, filter |-> f, from |-> Nothing])
           n == Len(mid) + 1
<1>0. IsNetwork(base) /\ NoneRefused(base)
  BY CarriedRefused DEF PageInv, Carried
<1>1. IsNetwork(mid) /\ NoneRefused(mid) /\ \A i \in Of("page", mid) : ~mid[i].current
  BY <1>0, NetworkSuperseded DEF Of, NoneRefused
<1>2. /\ IsRequest(r) /\ r.kind = "page" /\ ~r.served
      /\ r.arg = [reset |-> TRUE, filter |-> f, from |-> Nothing]
  BY SentIsRequest DEF Request
<1>3. inflight' = Append(mid, r)
  BY DEF ResetTable
<1> HIDE DEF mid, r
<1>4. /\ IsNetwork(inflight') /\ Len(inflight') = n /\ inflight'[n] = r
      /\ \A i \in 1 .. Len(mid) : inflight'[i] = mid[i]
  BY <1>1, <1>2, <1>3, NetworkAndSend
<1>5. \A i \in Of("page", inflight') :
        (i = n /\ inflight'[i] = r) \/ (i \in Of("page", mid) /\ inflight'[i] = mid[i])
  BY <1>1, <1>4 DEF Of, IsNetwork
<1>6. \A i \in CurrentPages(inflight') : i = n /\ inflight'[i] = r
  BY <1>1, <1>5 DEF CurrentPages
<1>7. /\ cursor' = Nothing /\ rows' = <<>> /\ more' = [hidden |-> TRUE, disabled |-> TRUE]
      /\ moved' = unannounced
  BY DEF ResetTable
<1>8. Cached'
  <2>1. CatalogTyped' /\ AnnouncedAreSettled' /\ Present' = Present
    BY DEF PageInv, Cached, catalogVars, CatalogTyped, AnnouncedAreSettled, Settled, Present, Now
  <2>2. UnmovedAreSettled'
    <3> SUFFICES ASSUME NEW p \in Matching(f) \ unannounced PROVE Settled(p, f.category)
      BY <1>7 DEF UnmovedAreSettled, Settled, Present, Now, catalogVars, Matching
    <3>1. p \in Products /\ f.category \in {AllCategories, CategoryOf[p]}
      BY DEF Matching
    <3> QED BY <3>1 DEF PageInv, Cached, AnnouncedAreSettled
  <2> QED BY <2>1, <2>2 DEF Cached
<1>9. TableTyped' /\ RowsMatch'
  BY <1>7 DEF TableTyped, RowsMatch, Ends
<1>10. PagesMatch'
  BY <1>2, <1>6 DEF PagesMatch, AsksFor, Ends
<1>11. NoneRefused(inflight')
  BY <1>1, <1>2, <1>5 DEF NoneRefused, Refused
<1>12. Walk'
  BY <1>2, <1>6, <1>7 DEF Walk, OnePage, TableIsStretch, Continues
<1> QED BY <1>8, <1>9, <1>10, <1>11, <1>12 DEF PageInv

\* Asking for more continues where the table ends; a user who waits has nothing in flight.
LEMMA LoadMoreKeepsPages ==
  ASSUME IsNetwork(inflight), PageInv, LoadMore
  PROVE  PageInv'
<1> DEFINE r == Request("page", [reset |-> FALSE, filter |-> filter, from |-> cursor])
           n == Len(inflight) + 1
<1>1. /\ IsRequest(r) /\ r.kind = "page" /\ ~r.served
      /\ r.arg = [reset |-> FALSE, filter |-> filter, from |-> cursor]
  BY SentIsRequest DEF Request
<1>2. /\ inflight' = Append(inflight, r) /\ ~more.hidden /\ more' = [more EXCEPT !.disabled = TRUE]
      /\ session.patient => inflight = <<>>
      /\ UNCHANGED <<catalogVars, moved, filter, cursor, rows, session>>
  BY DEF LoadMore, User
<1> HIDE DEF r
<1>3. /\ Len(inflight') = n /\ inflight'[n] = r
      /\ \A i \in 1 .. Len(inflight) : inflight'[i] = inflight[i]
  BY <1>1, <1>2, NetworkAndSend
<1>4. \A i \in Of("page", inflight') :
        (i = n /\ inflight'[i] = r) \/ (i \in Of("page", inflight) /\ inflight'[i] = inflight[i])
  BY <1>3 DEF Of, IsNetwork
<1>5. \A i \in CurrentPages(inflight') :
        (i = n /\ inflight'[i] = r) \/ (i \in CurrentPages(inflight) /\ inflight'[i] = inflight[i])
  BY <1>4 DEF CurrentPages
<1>6. Cached' /\ Present' = Present
  BY <1>2, CachedStays DEF PageInv
<1>7. TableTyped' /\ RowsMatch' /\ cursor # Nothing
  BY <1>2 DEF PageInv, TableTyped, RowsMatch, Matching
<1>8. PagesMatch'
  <2> SUFFICES ASSUME NEW i \in CurrentPages(inflight')
               PROVE  AsksFor(inflight'[i], filter, Present, moved)
    BY <1>2, <1>6 DEF PagesMatch
  <2>1. CASE inflight'[i] = r
    BY <1>1, <2>1 DEF AsksFor, PageInv, TableTyped
  <2>2. CASE i \in CurrentPages(inflight) /\ inflight'[i] = inflight[i]
    BY <2>2 DEF PageInv, PagesMatch
  <2> QED BY <1>5, <2>1, <2>2
<1>9. NoneRefused(inflight')
  <2>1. ~Refused(filter, cursor)
    BY DEF PageInv, TableTyped, Ends, Refused
  <2> QED BY <1>1, <1>4, <2>1 DEF PageInv, NoneRefused
<1>10. Walk'
  <2> SUFFICES ASSUME session.patient
               PROVE  /\ OnePage'
                      /\ \A i \in CurrentPages(inflight') : Continues(inflight'[i].arg, cursor)
                      /\ cursor # Nothing => rows # <<>>
                      /\ TableIsStretch
    BY <1>2, <1>6 DEF Walk, TableIsStretch
  <2>1. CurrentPages(inflight) = {}
    BY <1>2 DEF CurrentPages, Of
  <2> QED BY <1>1, <1>5, <1>7, <2>1 DEF PageInv, Walk, OnePage, Continues
<1> QED BY <1>6, <1>7, <1>8, <1>9, <1>10 DEF PageInv

\* What the server answers a current page, however old the prices, is a stretch of the
\* listing that was asked for at the present ones, but for the products that have moved.
LEMMA AnyAgeIsStretch ==
  ASSUME Cached, filter \in Filters, NEW n \in oldest[filter.category] .. Now,
         NEW from \in Ends(filter)
  PROVE  LET page == Page(priced[n], filter, from)
         IN  Stretch(Present, moved, page.items, filter, from, page.next)
<1>1. filter.category \in Scopes
  BY DEF Filters
<1>2. n \in 1 .. Len(priced) /\ priced[n] \in [Products -> Prices]
  BY <1>1 DEF Cached, CatalogTyped, Now
<1>3. \A p \in Matching(filter) \ moved : priced[n][p] = Present[p]
  BY DEF Cached, UnmovedAreSettled, Settled
<1>4. Stretch(priced[n], moved, Page(priced[n], filter, from).items, filter, from,
              Page(priced[n], filter, from).next)
  BY <1>2, PageIsStretch
<1> QED BY <1>3, <1>4, StretchSurvives

\* An answer of the server keeps it.
LEMMA ServeKeepsPages ==
  ASSUME IsNetwork(inflight), PageInv, NEW k \in DOMAIN inflight, ServePage(k)
  PROVE  PageInv'
<1> DEFINE a == inflight[k].arg
<1>1. PICK reply :
        /\ inflight' = [inflight EXCEPT ![k] = [inflight[k] EXCEPT !.served = TRUE, !.reply = reply]]
        /\ ~Refused(a.filter, a.from) =>
             \E n \in oldest[a.filter.category] .. Now : reply = Page(priced[n], a.filter, a.from)
  BY DEF ServePage, Reply
<1>2. /\ inflight[k].kind = "page"
      /\ UNCHANGED <<catalogVars, moved, filter, cursor, rows, more, session>>
  BY DEF ServePage, Unserved, InFlight, NoFault, productVars, listVars
<1> DEFINE r == [inflight[k] EXCEPT !.served = TRUE, !.reply = reply]
<1>3. k \in 1 .. Len(inflight) /\ IsRequest(inflight[k])
  BY NetworkIsSeq DEF IsNetwork
<1>4. /\ IsRequest(r) /\ r.kind = "page" /\ r.current = inflight[k].current
      /\ r.arg = a /\ r.reply = reply
  BY <1>2, <1>3 DEF IsRequest
<1>5. inflight' = [inflight EXCEPT ![k] = r]
  BY <1>1
<1> HIDE DEF r, a
<1>6. /\ Len(inflight') = Len(inflight) /\ inflight'[k] = r
      /\ \A i \in 1 .. Len(inflight) : i # k => inflight'[i] = inflight[i]
  BY <1>3, <1>4, <1>5, NetworkAndUpdate
<1>7. Of("page", inflight') = Of("page", inflight) /\ k \in Of("page", inflight)
        /\ \A i \in Of("page", inflight) : /\ inflight'[i].arg = inflight[i].arg
                                           /\ inflight'[i].current = inflight[i].current
                                           /\ i = k \/ inflight'[i] = inflight[i]
  BY <1>2, <1>3, <1>4, <1>6 DEF Of, a
<1>8. CurrentPages(inflight') = CurrentPages(inflight)
  BY <1>7 DEF CurrentPages
<1>9. Cached' /\ Present' = Present
  BY <1>2, CachedStays DEF PageInv
<1>10. TableTyped' /\ RowsMatch'
  BY <1>2 DEF PageInv, TableTyped, RowsMatch, Matching
<1>11. PagesMatch'
  <2> SUFFICES ASSUME NEW i \in CurrentPages(inflight)
               PROVE  AsksFor(inflight'[i], filter, Present, moved)
    BY <1>2, <1>8, <1>9 DEF PagesMatch
  <2>1. AsksFor(inflight[i], filter, Present, moved)
    BY DEF PageInv, PagesMatch
  <2>2. CASE i = k
    <3>1. a.filter = filter /\ a.from \in Ends(filter)
      BY <2>1, <2>2 DEF AsksFor, a
    <3>2. ~Refused(a.filter, a.from)
      BY <1>7 DEF PageInv, NoneRefused, a
    <3>3. PICK n \in oldest[filter.category] .. Now : reply = Page(priced[n], filter, a.from)
      BY <1>1, <3>1, <3>2 DEF a
    <3>4. Stretch(Present, moved, reply.items, filter, a.from, reply.next)
      BY <3>1, <3>3, AnyAgeIsStretch DEF PageInv, TableTyped
    <3> QED BY <1>4, <1>6, <2>2, <3>1, <3>4 DEF AsksFor
  <2>3. CASE i # k
    BY <1>7, <2>1, <2>3 DEF CurrentPages
  <2> QED BY <2>2, <2>3
<1>12. NoneRefused(inflight')
  BY <1>7 DEF PageInv, NoneRefused
<1>13. Walk'
  BY <1>2, <1>7, <1>8, <1>9 DEF PageInv, Walk, OnePage, TableIsStretch, CurrentPages
<1> QED BY <1>9, <1>10, <1>11, <1>12, <1>13 DEF PageInv

\* The prices of now are prices.
LEMMA PresentTyped == CatalogTyped => Present \in [Products -> Prices]
BY DEF CatalogTyped, Present, Now

\* The answer to a page that is current starts the table, or continues it.
LEMMA AnswerKeepsPages ==
  ASSUME IsNetwork(inflight), PageInv, NEW k \in DOMAIN inflight, AnswerPage(k)
  PROVE  PageInv'
<1>1. /\ k \in 1 .. Len(inflight) /\ k \in Of("page", inflight) /\ inflight[k].served
      /\ inflight' = Others(k) /\ UNCHANGED <<catalogVars, moved, filter, session>>
  BY NetworkIsSeq DEF AnswerPage, Served, InFlight, NoFault, Of
<1>2. Carried("page", inflight', inflight, Of("page", inflight) \ {k})
  BY <1>1, Carriers
<1>0. /\ Carried("page", inflight', inflight, Of("page", inflight))
      /\ Cached' /\ Present' = Present /\ NoneRefused(inflight')
  <2>1. Carried("page", inflight', inflight, Of("page", inflight))
    BY <1>2, CarriedMore
  <2> QED BY <1>1, <2>1, CachedStays, CarriedRefused DEF PageInv
<1>3. CASE ~inflight[k].current \/ inflight[k].reply = Nothing
  <2>2. more' = [more EXCEPT !.disabled = FALSE] /\ UNCHANGED <<rows, cursor>>
    BY <1>3 DEF AnswerPage
  <2>3. more' \in [hidden : BOOLEAN, disabled : BOOLEAN] /\ (more'.hidden <=> more.hidden)
    BY <2>2 DEF PageInv, TableTyped
  <2> QED BY <1>0, <1>1, <2>2, <2>3, FewerPages
<1>4. CASE inflight[k].current /\ inflight[k].reply # Nothing
  <2> DEFINE r == inflight[k]
             page == inflight[k].reply
  <2>1. k \in CurrentPages(inflight)
    BY <1>1, <1>4 DEF CurrentPages
  <2>2. AsksFor(r, filter, Present, moved)
    BY <2>1 DEF PageInv, PagesMatch
  <2>3. /\ rows' = IF r.arg.reset THEN page.items ELSE rows \o page.items
        /\ cursor' = page.next
        /\ more' = [hidden |-> page.next = Nothing, disabled |-> FALSE]
    BY <1>4 DEF AnswerPage
  <2>4. Stretch(Present, moved, page.items, filter, r.arg.from, page.next)
    BY <1>1, <2>2 DEF AsksFor
  <2>5. PICK f \in [CurrentPages(inflight') -> CurrentPages(inflight) \ {k}] :
          \A i \in CurrentPages(inflight') : inflight'[i] = inflight[f[i]]
    <3>1. Of("page", inflight) \ {k} \subseteq Of("page", inflight)
      OBVIOUS
    <3>2. CurrentPages(inflight) \cap (Of("page", inflight) \ {k}) = CurrentPages(inflight) \ {k}
      BY DEF CurrentPages
    <3> QED BY <1>2, <3>1, <3>2, CarriedPages
  <2> HIDE DEF r, page
  <2>6. /\ page.items \in Seq(Keys) /\ page.next \in Ends(filter)
        /\ \A i \in DOMAIN page.items : page.items[i][2] \in Matching(filter)
    BY <2>4 DEF Stretch, InListing
  <2>7. TableTyped'
    <3>1. rows' \in Seq(Keys)
      <4>1. rows \in Seq(Keys)
        BY DEF PageInv, TableTyped
      <4>2. rows \o page.items \in Seq(Keys)
        BY <2>6, <4>1
      <4> QED BY <2>3, <2>6, <4>2
    <3>2. cursor' \in Ends(filter)' /\ filter' \in Filters
      BY <1>1, <2>3, <2>6 DEF Ends, PageInv, TableTyped
    <3>3. more' \in [hidden : BOOLEAN, disabled : BOOLEAN] /\ (more'.hidden <=> cursor' = Nothing)
      BY <2>3
    <3> QED BY <3>1, <3>2, <3>3 DEF TableTyped
  <2>8. RowsMatch'
    <3>1. CASE r.arg.reset
      BY <1>1, <2>3, <2>6, <3>1 DEF RowsMatch, Matching
    <3>2. CASE ~r.arg.reset
      <4>1. rows' = rows \o page.items /\ rows \in Seq(Keys)
        BY <2>3, <3>2 DEF PageInv, TableTyped
      <4>2. \A i \in DOMAIN rows' : \/ i \in DOMAIN rows /\ rows'[i] = rows[i]
                                    \/ \E j \in DOMAIN page.items : rows'[i] = page.items[j]
        BY <2>6, <4>1
      <4> QED BY <1>1, <2>6, <4>2 DEF PageInv, RowsMatch, Matching
    <3> QED BY <3>1, <3>2
  <2>9. PagesMatch'
    BY <1>0, <1>1, <2>5 DEF PageInv, PagesMatch
  <2>10. Walk'
    <3> SUFFICES ASSUME session.patient
                 PROVE  /\ CurrentPages(inflight') = {}
                        /\ cursor' # Nothing => rows' # <<>>
                        /\ rows' # <<>> => Stretch(Present, moved, rows', filter, Nothing, cursor')
      BY <1>0, <1>1 DEF Walk, OnePage, TableIsStretch
    <3>1. CurrentPages(inflight) \ {k} = {}
      BY <2>1 DEF PageInv, Walk, OnePage
    <3>2. CurrentPages(inflight') = {}
      BY <2>5, <3>1
    <3>3. Continues(r.arg, cursor)
      BY <2>1 DEF PageInv, Walk, r
    <3>4. page.next # Nothing => page.items # <<>>
      BY <2>4 DEF Stretch, InListing
    <3>5. CASE r.arg.reset
      BY <2>3, <2>4, <3>2, <3>3, <3>4, <3>5 DEF Continues
    <3>6. CASE ~r.arg.reset
      <4>1. r.arg.from = cursor /\ cursor # Nothing /\ rows # <<>>
        BY <3>3, <3>6 DEF Continues, PageInv, Walk
      <4>2. Stretch(Present, moved, rows, filter, Nothing, cursor)
        BY <4>1 DEF PageInv, Walk, TableIsStretch
      <4>3. Stretch(Present, moved, rows \o page.items, filter, Nothing, page.next)
        BY <1>0, <2>4, <4>1, <4>2, StretchesJoin, PresentTyped DEF PageInv, Cached, TableTyped
      <4>4. rows \o page.items # <<>>
        BY <2>6, <4>1 DEF PageInv, TableTyped
      <4> QED BY <2>3, <3>2, <3>6, <4>3, <4>4
    <3> QED BY <3>5, <3>6
  <2> QED BY <1>0, <2>7, <2>8, <2>9, <2>10 DEF PageInv
<1> QED BY <1>3, <1>4

\* A page that fails leaves the table as it is, or empty when it was the first one.
LEMMA FailKeepsPages ==
  ASSUME IsNetwork(inflight), PageInv, NEW k \in DOMAIN inflight, FailPage(k)
  PROVE  PageInv'
<1>1. /\ k \in 1 .. Len(inflight) /\ k \in Of("page", inflight) /\ inflight' = Others(k)
      /\ UNCHANGED <<catalogVars, moved, filter, cursor, session>>
      /\ more' = [more EXCEPT !.disabled = FALSE]
  BY NetworkIsSeq DEF FailPage, Fails, InFlight, Of
<1>2. Carried("page", inflight', inflight, Of("page", inflight) \ {k})
  BY <1>1, Carriers
<1>3. Carried("page", inflight', inflight, Of("page", inflight))
  BY <1>2, CarriedMore
<1>4. more' \in [hidden : BOOLEAN, disabled : BOOLEAN] /\ (more'.hidden <=> more.hidden)
  BY <1>1 DEF PageInv, TableTyped
<1>5. CASE rows' = rows
  BY <1>1, <1>3, <1>4, <1>5, FewerPages
<1>6. CASE rows' = <<>> /\ k \in CurrentPages(inflight) /\ inflight[k].arg.reset
  <2>1. PICK f \in [CurrentPages(inflight') -> CurrentPages(inflight) \ {k}] :
          \A i \in CurrentPages(inflight') : inflight'[i] = inflight[f[i]]
    <3>1. Of("page", inflight) \ {k} \subseteq Of("page", inflight)
      OBVIOUS
    <3>2. CurrentPages(inflight) \cap (Of("page", inflight) \ {k}) = CurrentPages(inflight) \ {k}
      BY DEF CurrentPages
    <3> QED BY <1>2, <3>1, <3>2, CarriedPages
  <2>2. TableTyped' /\ RowsMatch'
    BY <1>1, <1>4, <1>6 DEF PageInv, TableTyped, RowsMatch, Ends
  <2>3. PagesMatch' /\ NoneRefused(inflight') /\ Cached'
    BY <1>1, <1>3, <2>1, CachedStays, CarriedRefused DEF PageInv, PagesMatch
  <2>4. Walk'
    <3> SUFFICES ASSUME session.patient PROVE CurrentPages(inflight') = {} /\ cursor = Nothing
      BY <1>1, <1>6 DEF Walk, OnePage, TableIsStretch
    <3>1. CurrentPages(inflight) \ {k} = {} /\ Continues(inflight[k].arg, cursor)
      BY <1>6 DEF PageInv, Walk, OnePage
    <3> QED BY <1>6, <2>1, <3>1 DEF Continues
  <2> QED BY <2>2, <2>3, <2>4 DEF PageInv
<1>7. rows' = rows \/ (rows' = <<>> /\ inflight[k].current /\ inflight[k].arg.reset)
  BY DEF FailPage
<1> QED BY <1>1, <1>5, <1>6, <1>7 DEF CurrentPages

\* A price that changes is that of a product that has moved from then on.
LEMMA RepriceKeepsPages ==
  ASSUME PageInv, NEW p \in Products, NEW v \in Prices, Reprice(p, v)
  PROVE  PageInv'
<1> DEFINE new == [priced[Now] EXCEPT ![p] = v]
<1>1. /\ priced' = Append(priced, new)
      /\ unannounced' = unannounced \cup {p} /\ moved' = moved \cup {p}
      /\ UNCHANGED <<oldest, inflight, session, filter, cursor, rows, more>>
  BY DEF Reprice, shell
<1>2. /\ Now \in Nat \ {0} /\ priced \in Seq([Products -> Prices]) /\ Now = Len(priced)
      /\ oldest \in [Scopes -> 1 .. Now] /\ Present \in [Products -> Prices]
  BY PresentTyped DEF PageInv, Cached, CatalogTyped, Now
<1>3. new \in [Products -> Prices] /\ \A q \in Products \ {p} : new[q] = Present[q]
  BY <1>2 DEF Present
<1> HIDE DEF new
<1>4. /\ priced' \in Seq([Products -> Prices]) /\ Now' = Now + 1 /\ Present' = new
      /\ \A n \in 1 .. Now : priced'[n] = priced[n]
  BY <1>1, <1>2, <1>3 DEF Now, Present
<1>5. ASSUME NEW q \in Products \ {p}, NEW scope \in Scopes, Settled(q, scope)
      PROVE  Settled(q, scope)'
  <2> SUFFICES ASSUME NEW n \in oldest[scope] .. Now' PROVE priced'[n][q] = Present'[q]
    BY <1>1 DEF Settled
  <2>1. CASE n = Now'
    BY <2>1 DEF Present
  <2>2. CASE n # Now'
    <3>1. n \in oldest[scope] .. Now /\ n \in 1 .. Now
      BY <1>2, <1>4, <2>2
    <3> QED BY <1>3, <1>4, <1>5, <3>1 DEF Settled
  <2> QED BY <2>1, <2>2
<1>6. Cached'
  <2>1. CatalogTyped'
    BY <1>1, <1>2, <1>4 DEF CatalogTyped
  <2>2. AnnouncedAreSettled'
    <3> SUFFICES ASSUME NEW q \in Products \ unannounced'
                 PROVE  Settled(q, CategoryOf[q])' /\ Settled(q, AllCategories)'
      BY DEF AnnouncedAreSettled
    <3>1. q \in Products \ {p} /\ CategoryOf[q] \in Scopes /\ AllCategories \in Scopes
      BY <1>1, CategoriesAssumption DEF Scopes
    <3>2. Settled(q, CategoryOf[q]) /\ Settled(q, AllCategories)
      BY <1>1 DEF PageInv, Cached, AnnouncedAreSettled
    <3> QED BY <1>5, <3>1, <3>2
  <2>3. UnmovedAreSettled'
    <3> SUFFICES ASSUME NEW q \in Matching(filter) \ moved' PROVE Settled(q, filter.category)'
      BY <1>1 DEF UnmovedAreSettled, Matching
    <3>1. q \in Products \ {p} /\ filter.category \in Scopes
      BY <1>1 DEF Matching, PageInv, TableTyped, Filters
    <3>2. Settled(q, filter.category)
      BY <1>1 DEF PageInv, Cached, UnmovedAreSettled
    <3> QED BY <1>1, <1>5, <3>1, <3>2 DEF Settled
  <2> QED BY <2>1, <2>2, <2>3 DEF Cached
<1>7. \A items, f, from, next :
        Stretch(Present, moved, items, f, from, next) => Stretch(Present', moved', items, f, from, next)
  <2>1. \A f : \A q \in Matching(f) \ moved' : q \notin moved /\ Present'[q] = Present[q]
    BY <1>1, <1>3, <1>4 DEF Matching
  <2> QED BY <2>1, StretchSurvives
<1>8. TableTyped' /\ RowsMatch'
  BY <1>1 DEF PageInv, TableTyped, RowsMatch, Matching, Ends
<1>9. PagesMatch' /\ NoneRefused(inflight')
  BY <1>1, <1>7 DEF PageInv, PagesMatch, AsksFor, NoneRefused
<1>10. Walk'
  BY <1>1, <1>7 DEF PageInv, Walk, OnePage, TableIsStretch
<1> QED BY <1>6, <1>8, <1>9, <1>10 DEF PageInv

\* A bump, and the TTL, only take away ages; what they take from the unannounced has one
\* price left.
LEMMA ForgettingKeepsPages ==
  ASSUME PageInv, (\E c \in Categories : Bump(c)) \/ \E n \in 1 .. Now : Expire(n)
  PROVE  PageInv'
<1>1. UNCHANGED <<shell, priced, listVars>>
  BY DEF Bump, Expire
<1>2. CatalogTyped /\ Now' = Now /\ Present' = Present
  BY <1>1 DEF PageInv, Cached, Now, Present
<1>3. Now \in Nat /\ Now > 0 /\ oldest \in [Scopes -> 1 .. Now]
  BY <1>2 DEF CatalogTyped, Now
<1>4. oldest' \in [Scopes -> 1 .. Now] /\ \A scope \in Scopes : oldest[scope] <= oldest'[scope]
  <2>1. ASSUME NEW c \in Categories, Bump(c)
        PROVE  oldest' \in [Scopes -> 1 .. Now] /\ \A scope \in Scopes : oldest[scope] <= oldest'[scope]
    <3>1. oldest' = [oldest EXCEPT ![c] = Now, ![AllCategories] = Now]
      BY <2>1 DEF Bump
    <3>2. Now \in 1 .. Now
      BY <1>3
    <3>3. oldest' \in [Scopes -> 1 .. Now]
      BY <1>3, <3>1, <3>2
    <3>4. \A scope \in Scopes : oldest'[scope] \in {oldest[scope], Now}
      BY <1>3, <3>1
    <3>5. \A scope \in Scopes : oldest[scope] \in 1 .. Now
      BY <1>3
    <3> QED BY <1>3, <3>3, <3>4, <3>5
  <2>2. ASSUME NEW n \in 1 .. Now, Expire(n)
        PROVE  oldest' \in [Scopes -> 1 .. Now] /\ \A scope \in Scopes : oldest[scope] <= oldest'[scope]
    BY <1>3, <2>2 DEF Expire
  <2> QED BY <2>1, <2>2
<1>5. ASSUME NEW p, NEW scope \in Scopes, Settled(p, scope)
      PROVE  Settled(p, scope)'
  BY <1>1, <1>2, <1>3, <1>4, <1>5 DEF Settled
<1>6. ASSUME NEW p \in unannounced \ unannounced', NEW scope \in {CategoryOf[p], AllCategories} \cap Scopes
      PROVE  Settled(p, scope)'
  <2>1. ASSUME NEW c \in Categories, Bump(c) PROVE Settled(p, scope)'
    <3>1. scope \in {c, AllCategories}
      BY <1>6, <2>1 DEF Bump
    <3>2. oldest'[scope] = Now
      BY <1>3, <2>1, <3>1 DEF Bump
    <3> QED BY <1>1, <1>2, <1>3, <3>2 DEF Settled, Present
  <2>2. ASSUME NEW n \in 1 .. Now, Expire(n) PROVE Settled(p, scope)'
    <3>1. \A m \in n .. Now : priced[m][p] = priced[Now][p]
      BY <1>6, <2>2 DEF Expire
    <3>2. oldest'[scope] >= n
      BY <1>3, <2>2 DEF Expire
    <3>3. oldest'[scope] \in 1 .. Now
      BY <1>4
    <3> QED BY <1>1, <1>2, <1>3, <3>1, <3>2, <3>3 DEF Settled, Present
  <2> QED BY <2>1, <2>2
<1>7. Cached'
  <2>1. CatalogTyped'
    BY <1>1, <1>2, <1>4 DEF Bump, Expire, CatalogTyped
  <2>2. AnnouncedAreSettled'
    <3> SUFFICES ASSUME NEW p \in Products \ unannounced'
                 PROVE  Settled(p, CategoryOf[p])' /\ Settled(p, AllCategories)'
      BY DEF AnnouncedAreSettled
    <3>1. CategoryOf[p] \in Scopes /\ AllCategories \in Scopes
      BY CategoriesAssumption DEF Scopes
    <3>2. CASE p \in unannounced
      BY <1>6, <3>1, <3>2
    <3>3. CASE p \notin unannounced
      BY <1>5, <3>1, <3>3 DEF PageInv, Cached, AnnouncedAreSettled
    <3> QED BY <3>2, <3>3
  <2>3. UnmovedAreSettled'
    <3> SUFFICES ASSUME NEW p \in Matching(filter) \ moved PROVE Settled(p, filter.category)'
      BY <1>1 DEF UnmovedAreSettled, Matching, listVars, Settled
    <3>1. filter.category \in Scopes /\ Settled(p, filter.category)
      BY DEF PageInv, Cached, UnmovedAreSettled, TableTyped, Filters
    <3> QED BY <1>1, <1>5, <3>1 DEF Settled, listVars
  <2> QED BY <2>1, <2>2, <2>3 DEF Cached
<1>8. TableTyped' /\ RowsMatch' /\ PagesMatch' /\ NoneRefused(inflight') /\ Walk'
  BY <1>1, <1>2 DEF shell, listVars, PageInv, TableTyped, RowsMatch, Matching, Ends, PagesMatch, Walk,
                    OnePage, TableIsStretch
<1> QED BY <1>7, <1>8 DEF PageInv

\* What a step can do to the table and its pages.
PageStep ==
  \/ Quiet("page") /\ UNCHANGED listingVars
  \/ \E base : \E f \in Filters :
       /\ Carried("page", base, inflight, Of("page", inflight)) /\ ResetTable(base, f)
       /\ filter' = f /\ UNCHANGED catalogVars
  \/ LoadMore
  \/ \E i \in DOMAIN inflight : ServePage(i) \/ AnswerPage(i) \/ FailPage(i)
  \/ ServerOfProducts

\* A submission that ends well resets the table, or lists the promotions, or neither.
LEMMA SubmissionIsPageStep ==
  ASSUME IsNetwork(inflight), TableTyped,
         \/ Submit
         \/ \E i \in DOMAIN inflight : ServeSubmit(i) \/ AnswerSubmit(i) \/ FailSubmit(i)
  PROVE  PageStep
<1> USE DEF listingVars, productVars
<1>1. CASE Submit
  <2>1. CarriesAll("page")
    BY <1>1, SendCarries DEF Submit
  <2> QED BY <1>1, <2>1 DEF Submit, User, Quiet, PageStep
<1>2. ASSUME NEW i \in DOMAIN inflight, ServeSubmit(i) PROVE PageStep
  <2>1. inflight[i].kind # "page" /\ \E value : Reply(i, value)
    BY <1>2 DEF ServeSubmit, Unserved, InFlight
  <2>2. CarriesAll("page")
    BY <2>1, ReplyCarries
  <2> QED BY <1>2, <2>2 DEF ServeSubmit, NoFault, Quiet, PageStep
<1>3. ASSUME NEW i \in DOMAIN inflight, FailSubmit(i) PROVE PageStep
  <2>1. CarriesAll("page")
    BY <1>3, Carriers DEF FailSubmit, CarriesAll
  <2> QED BY <1>3, <2>1 DEF FailSubmit, Fails, Quiet, PageStep
<1>4. ASSUME NEW i \in DOMAIN inflight, AnswerSubmit(i) PROVE PageStep
  <2>1. \/ ResetTable(Others(i), filter) /\ UNCHANGED <<catalogVars, filter>>
        \/ inflight' = Others(i) /\ UNCHANGED productVars
        \/ inflight' = ListPromotions(Others(i)) /\ UNCHANGED productVars
    BY <1>4 DEF AnswerSubmit, AfterSubmit
  <2>2. CASE ResetTable(Others(i), filter) /\ UNCHANGED <<catalogVars, filter>>
    <3>1. Carried("page", Others(i), inflight, Of("page", inflight)) /\ filter \in Filters
      BY Carriers DEF TableTyped
    <3> QED BY <2>2, <3>1 DEF PageStep
  <2>3. CASE UNCHANGED productVars /\ inflight' \in {Others(i), ListPromotions(Others(i))}
    <3>1. CarriesAll("page")
      BY <2>3, Carriers, ListCarries DEF CarriesAll
    <3> QED BY <1>4, <2>3, <3>1 DEF AnswerSubmit, NoFault, Quiet, PageStep
  <2> QED BY <2>1, <2>2, <2>3
<1> QED BY <1>1, <1>2, <1>3, <1>4

\* A view that is entered resets the table when products are out of date.
LEMMA RouteIsPageStep ==
  ASSUME IsNetwork(inflight), TableTyped, NEW v \in Views, Route(v)
  PROVE  PageStep
<1> USE DEF listingVars, productVars
<1>1. \/ ResetTable(inflight, filter) /\ UNCHANGED <<catalogVars, filter>>
      \/ inflight' = inflight /\ UNCHANGED productVars
      \/ inflight' = ListPromotions(inflight) /\ UNCHANGED productVars
      \/ Refresh(inflight) /\ UNCHANGED productVars
  BY DEF Route
<1>2. CASE ResetTable(inflight, filter) /\ UNCHANGED <<catalogVars, filter>>
  BY <1>2, Carriers DEF PageStep, TableTyped
<1>3. CASE /\ UNCHANGED productVars
           /\ inflight' = inflight \/ inflight' = ListPromotions(inflight) \/ Refresh(inflight)
  <2>1. CarriesAll("page")
    BY <1>3, Carriers, ListCarries, RefreshCarries DEF Refresh, Refreshes, CarriesAll
  <2> QED BY <1>3, <2>1 DEF Route, User, Quiet, PageStep
<1> QED BY <1>1, <1>2, <1>3

\* Every step is one of the table, or leaves it alone.
LEMMA StepsOfPages ==
  ASSUME IsNetwork(inflight), TableTyped, [Next]_vars
  PROVE  PageStep
<1> USE DEF listingVars
<1>1. ASSUME \/ UserOfPromotions \/ AnswersOfPromotions \/ FaultsOfPromotions
             \/ UserOfIngest \/ AnswersOfIngest \/ FaultsOfIngest \/ Tick
      PROVE  PageStep
  <2>1. UNCHANGED productVars => UNCHANGED listingVars
    BY DEF productVars
  <2> QED BY <1>1, <2>1, IngestIsQuiet, PromotionsAreQuiet, SubmissionIsPageStep
          DEF Refreshes, PageStep
<1>2. ASSUME UserOfProducts \/ AnswersOfProducts \/ FaultsOfProducts PROVE PageStep
  <2>1. ASSUME \/ \E p \in Products : OpenProduct(p)
               \/ CloseDrawer
               \/ \E i \in DOMAIN inflight : AnswerProduct(i) \/ FailProduct(i)
        PROVE  PageStep
    BY <2>1, DrawerIsQuiet DEF PageStep
  <2>2. ASSUME NEW f \in Filters, SetFilter(f) PROVE PageStep
    BY <2>2, Carriers DEF SetFilter, PageStep
  <2> QED BY <1>2, <2>1, <2>2 DEF UserOfProducts, AnswersOfProducts, FaultsOfProducts, PageStep
<1>3. CASE Act
  <2>1. ASSUME CloseDrawer PROVE PageStep
    BY <2>1, DrawerIsQuiet DEF PageStep
  <2> QED BY <1>1, <1>2, <1>3, <2>1, RouteIsPageStep DEF Act
<1>4. CASE Answer \/ Fault
  BY <1>1, <1>2, <1>4 DEF Answer, Fault
<1>5. CASE Timer
  <2>1. ASSUME NEW pr \in PromotionIds, Disarm(pr) PROVE PageStep
    BY <2>1, Carriers DEF Disarm, shell, productVars, Quiet, PageStep
  <2> QED BY <1>1, <1>5, <2>1 DEF Timer
<1>6. CASE Server
  <2>1. ASSUME NEW j \in Jobs, NEW s \in TERMINAL, Finish(j, s) PROVE PageStep
    BY <2>1, Carriers DEF Finish, shell, productVars, Quiet, PageStep
  <2> QED BY <1>6, <2>1 DEF Server, PageStep
<1>7. CASE UNCHANGED vars
  BY <1>7, Carriers DEF vars, shell, productVars, Quiet, PageStep
<1> QED BY <1>3, <1>4, <1>5, <1>6, <1>7 DEF Next

\* The page that has just been loaded has asked for the first page, or for none.
LEMMA PageInit == Init => PageInv
<1> SUFFICES ASSUME Init PROVE PageInv
  OBVIOUS
<1>1. PICK kind, arg :
        /\ kind \in {"page", "promotions", "jobs"}
        /\ inflight = <<Request(kind, arg)>>
        /\ kind = "page" => arg = [reset |-> TRUE, filter |-> filter, from |-> Nothing]
  <2>1. view = "products" \/ view = "promotions" \/ view = "ingest"
    BY SessionsAreSessions DEF Init, Session, Views
  <2> QED BY <2>1 DEF Init
<1> DEFINE r == Request(kind, arg)
<1>2. IsRequest(r) /\ r.kind = kind /\ ~r.served /\ r.arg = arg
  BY SentIsRequest DEF Request
<1> HIDE DEF r
<1>3. Len(inflight) = 1 /\ inflight[1] = r
  BY <1>1 DEF r
<1>4. \A i \in CurrentPages(inflight) : i = 1 /\ inflight[i] = r /\ kind = "page"
  BY <1>2, <1>3 DEF CurrentPages, Of
<1>5. /\ cursor = Nothing /\ rows = <<>> /\ unannounced = {} /\ moved = {}
      /\ priced = <<FirstPrice>> /\ oldest = [scope \in Scopes |-> 1]
      /\ filter \in Filters /\ more = [hidden |-> TRUE, disabled |-> FALSE]
  BY DEF Init, InitProducts, Filters, Scopes
<1>6. Cached
  <2>1. Now = 1 /\ Present = FirstPrice /\ CatalogTyped
    BY <1>5, ProductsAssumption DEF CatalogTyped, Now, Present
  <2>2. \A p, scope : scope \in Scopes => Settled(p, scope)
    BY <1>5, <2>1 DEF Settled, Present
  <2>3. filter.category \in Scopes /\ AllCategories \in Scopes /\ \A p \in Products : CategoryOf[p] \in Scopes
    BY <1>5, CategoriesAssumption DEF Filters, Scopes
  <2> QED BY <2>1, <2>2, <2>3 DEF Cached, AnnouncedAreSettled, UnmovedAreSettled, Matching
<1>8. TableTyped /\ RowsMatch
  BY <1>5 DEF TableTyped, RowsMatch, Ends
<1>9. PagesMatch
  BY <1>1, <1>2, <1>4 DEF PagesMatch, AsksFor, Ends
<1>10. NoneRefused(inflight)
  BY <1>1, <1>2, <1>3 DEF NoneRefused, Of, Refused
<1>7. Walk
  <2>1. cursor = Nothing /\ rows = <<>>
    BY DEF Init, InitProducts
  <2>2. \A i \in CurrentPages(inflight) : Continues(inflight[i].arg, cursor)
    BY <1>1, <1>2, <1>4, <2>1 DEF Continues
  <2>3. OnePage
    BY <1>4 DEF OnePage
  <2> QED BY <2>1, <2>2, <2>3 DEF Walk, TableIsStretch
<1> QED BY <1>6, <1>7, <1>8, <1>9, <1>10 DEF PageInv

\* In every reachable state the table is a stretch of the listing that ends at the cursor.
LEMMA PageInvariant == Spec => []PageInv
<1>1. Submission => IsNetwork(inflight)
  BY DEF Submission
<1>2. IsNetwork(inflight) /\ PageInv /\ [Next]_vars => PageInv'
  <2> SUFFICES ASSUME IsNetwork(inflight), PageInv, [Next]_vars PROVE PageInv'
    OBVIOUS
  <2>1. PageStep
    BY StepsOfPages DEF PageInv
  <2>2. CASE Quiet("page") /\ UNCHANGED listingVars
    BY <2>2, FewerPages DEF Quiet, CarriesAll, listingVars, listVars, PageInv, TableTyped
  <2>3. CASE ServerOfProducts
    BY <2>3, RepriceKeepsPages, ForgettingKeepsPages DEF ServerOfProducts
  <2> QED BY <2>1, <2>2, <2>3, ResetKeepsPages, LoadMoreKeepsPages, ServeKeepsPages,
             AnswerKeepsPages, FailKeepsPages DEF PageStep
<1> QED BY <1>1, <1>2, PageInit, SubmissionInvariant, PTL DEF Spec

\* The requests for pages that matter are those the properties speak of.
LEMMA PagesInFlight ==
  ASSUME IsNetwork(inflight)
  PROVE  CurrentInFlight({"page"}) = CurrentPages(inflight)
BY Carriers DEF CurrentInFlight, InFlight, CurrentPages, Of

\* In every reachable state the rows are of the filter that is set, whatever answers come
\* late; for a user who waits they are in its order; and no page in flight, also of those
\* that are not waited for any more, was asked for with the cursor of another listing.
THEOREM RowsMatchTheFilter == Spec => []RowsAreOfTheFilter
<1>1. Submission /\ PageInv => RowsAreOfTheFilter
  <2> SUFFICES ASSUME Submission, PageInv PROVE RowsAreOfTheFilter
    OBVIOUS
  <2>1. \A i \in DOMAIN rows : rows[i][2] \in Matching(filter)
    BY DEF PageInv, RowsMatch
  <2>2. ASSUME session.patient, NEW i \in DOMAIN rows, NEW j \in DOMAIN rows, i < j
        PROVE  Follows(filter.order, rows[j], rows[i])
    <3>1. rows # <<>>
      BY <2>2
    <3> QED BY <2>2, <3>1 DEF PageInv, Walk, TableIsStretch, Stretch, InListing
  <2>3. \A i \in CurrentInFlight({"page"}) : inflight[i].arg.filter = filter
    BY PagesInFlight DEF Submission, PageInv, PagesMatch, AsksFor
  <2>4. InFlight({"page"}) = Of("page", inflight)
    BY Carriers DEF Submission, InFlight, Of
  <2> QED BY <2>1, <2>2, <2>3, <2>4 DEF PageInv, NoneRefused, RowsAreOfTheFilter
<1> QED BY <1>1, SubmissionInvariant, PageInvariant, PTL

\* For a user who waits for the answers, when the last page has come every product of the
\* listing that has not been repriced since the first page was asked for, and whose last
\* change before that had been announced or was older than the TTL, is shown exactly once,
\* however many pages there were, however old each of them was, and whatever the other
\* products did meanwhile.
THEOREM UnmovedAreShownOnce == Spec => []UnmovedShownOnce
<1>1. PageInv => UnmovedShownOnce
  <2> SUFFICES ASSUME PageInv, session.patient, rows # <<>>, cursor = Nothing,
                      NEW p \in Matching(filter) \ moved
               PROVE  Cardinality({i \in DOMAIN rows : rows[i][2] = p}) = 1
    BY DEF UnmovedShownOnce
  <2> DEFINE at == {i \in DOMAIN rows : rows[i][2] = p}
             key == <<Present[p], p>>
  <2>1. Stretch(Present, moved, rows, filter, Nothing, Nothing)
    BY DEF PageInv, Walk, TableIsStretch
  <2>2. /\ \A i \in DOMAIN rows : rows[i][2] = p => rows[i] = key
        /\ \E i \in DOMAIN rows : rows[i][2] = p
        /\ \A i, j \in DOMAIN rows : i < j => Follows(filter.order, rows[j], rows[i])
    BY <2>1 DEF Stretch, InListing, HasUnmoved, After
  <2>3. key \in Nat \X Nat
    BY KeysAreOrdered, PresentTyped DEF PageInv, Cached, Matching, Keys
  <2> HIDE DEF key
  <2>4. ~Follows(filter.order, key, key)
    BY <2>3, OrderIsTotal
  <2>5. \A i, j \in at : ~(i < j)
    BY <2>2, <2>4
  <2>6. at \subseteq Nat /\ at # {}
    BY <2>2 DEF PageInv, TableTyped
  <2>7. PICK i \in at : TRUE
    BY <2>6
  <2>8. at = {i}
    BY <2>5, <2>6, <2>7
  <2> HIDE DEF at
  <2>9. Cardinality(at) = 1
    BY <2>8, FS_Singleton
  <2> QED BY <2>9 DEF at
<1> QED BY <1>1, PageInvariant, PTL
=============================================================================
