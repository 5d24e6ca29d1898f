------------------------------ MODULE UiRequests ------------------------------
(***************************************************************************)
(* What the parts of ui/app.js share: the view in the location hash, the   *)
(* flag products.stale, and the requests that wait for an answer.  fetch   *)
(* gives no order: the server acts on requests, and answers or failures    *)
(* come back, in any order.                                                *)
(*                                                                         *)
(* Where the code numbers the requests of a kind and ignores the answer to *)
(* any but the last (products.seq, ingest.run, seq of the picker), a       *)
(* request is current or not.                                              *)
(***************************************************************************)
EXTENDS Naturals, Sequences, FiniteSets, SequencesExt

CONSTANTS
  Nothing,
  Sessions       \* see Session

VARIABLES
  view,
  stale,         \* products.stale
  inflight,      \* requests sent and not answered
  session,
  events,        \* what the user has done
  faults         \* requests that have failed

shell == <<view, stale, inflight, session, events, faults>>

Views == {"products", "promotions", "ingest"}

\* How the page is used: the views, whether the user waits for the answers before he
\* acts, and (bounds) how often he acts, how many requests fail and how many prices change.
Session == [views : SUBSET Views, patient : BOOLEAN, events : Nat, faults : Nat, repricings : Nat]

Request(kind, arg) ==
  [kind |-> kind, arg |-> arg, current |-> TRUE, served |-> FALSE, reply |-> Nothing]

\* The requests of these kinds are superseded.
Superseded(kinds, requests) ==
  [i \in DOMAIN requests |->
     IF requests[i].kind \in kinds THEN [requests[i] EXCEPT !.current = FALSE] ELSE requests[i]]

InFlight(kinds) == {i \in DOMAIN inflight : inflight[i].kind \in kinds}
CurrentInFlight(kinds) == {i \in InFlight(kinds) : inflight[i].current}
Others(i) == RemoveAt(inflight, i)

\* The server acts on request i, whose answer will be value.
Reply(i, value) == inflight' = [inflight EXCEPT ![i].served = TRUE, ![i].reply = value]
Unserved(i, kinds) == i \in InFlight(kinds) /\ ~inflight[i].served
Served(i, kinds) == i \in InFlight(kinds) /\ inflight[i].served

\* The user does something.
User ==
  /\ events < session.events /\ events' = events + 1
  /\ session.patient => inflight = <<>>
  /\ UNCHANGED <<session, faults>>

\* Request i fails, before or after the server acted on it.
Fails(i) == faults < session.faults /\ faults' = faults + 1 /\ UNCHANGED <<session, events>>

NoFault == UNCHANGED <<session, events, faults>>
=============================================================================
