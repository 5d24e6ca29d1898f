------------------------------ MODULE OperatorUi ------------------------------
(***************************************************************************)
(* ui/app.js as one page: its three views, which share the location hash,  *)
(* the flag products.stale, the modal dialogs and the network.             *)
(***************************************************************************)
EXTENDS PromotionsView, IngestView

ASSUME SessionsAreSessions == Sessions \subseteq Session

vars == <<shell, productVars, promotionVars, ingestVars>>

\* route: the hash changes.  A view that is entered loads what it needs.
Route(v) ==
  /\ User
  /\ v # view /\ v \in session.views /\ ~DialogOpen
  /\ view' = v
  /\ \/ /\ v = "products" /\ stale
        /\ ResetTable(inflight, filter)
        /\ timer' = FALSE /\ UNCHANGED <<catalogVars, filter, drawer>>
     \/ v = "products" /\ ~stale /\ timer' = FALSE /\ UNCHANGED <<inflight, productVars>>
     \/ v = "promotions" /\ inflight' = ListPromotions(inflight) /\ timer' = FALSE /\ UNCHANGED productVars
     \/ v = "ingest" /\ Refresh(inflight) /\ UNCHANGED productVars
  /\ UNCHANGED <<stale, promotionVars, job, selected, watching, jobRows, card, uploading, replaying>>

\* The page has been loaded: the first view routes.
Init ==
  /\ session \in Sessions
  /\ view \in session.views
  /\ InitProducts /\ InitPromotions /\ InitIngest
  /\ stale = TRUE /\ events = 0 /\ faults = 0
  /\ inflight = <<CASE view = "products" -> Request("page", [reset |-> TRUE, filter |-> filter, from |-> Nothing])
                    [] view = "promotions" -> Request("promotions", Nothing)
                    [] view = "ingest" -> Request("jobs", [upload |-> FALSE])>>

Act ==
  \/ \E v \in Views : Route(v)
  \/ ~DialogOpen /\ UserOfProducts /\ UNCHANGED <<promotionVars, ingestVars>>
  \/ drawer.open /\ CloseDrawer /\ UNCHANGED <<promotionVars, ingestVars>>
  \/ UserOfPromotions /\ UNCHANGED ingestVars
  \/ ~DialogOpen /\ UserOfIngest /\ UNCHANGED promotionVars

Answer ==
  \/ AnswersOfProducts /\ UNCHANGED <<promotionVars, ingestVars>>
  \/ AnswersOfPromotions /\ UNCHANGED ingestVars
  \/ AnswersOfIngest /\ UNCHANGED promotionVars

Timer ==
  \/ Tick /\ UNCHANGED promotionVars
  \/ \E pr \in PromotionIds : Disarm(pr) /\ UNCHANGED ingestVars

Server ==
  \/ ServerOfProducts /\ UNCHANGED <<promotionVars, ingestVars>>
  \/ \E j \in Jobs, s \in TERMINAL : Finish(j, s) /\ UNCHANGED promotionVars

Fault ==
  \/ FaultsOfProducts /\ UNCHANGED <<promotionVars, ingestVars>>
  \/ FaultsOfPromotions /\ UNCHANGED ingestVars
  \/ FaultsOfIngest /\ UNCHANGED promotionVars

Next == Act \/ Answer \/ Timer \/ Server \/ Fault

Spec == Init /\ [][Next]_vars

\* Every request is answered or fails in the end, and timers fire.
FairSpec == Spec /\ WF_vars(Answer) /\ WF_vars(Timer)
=============================================================================
