---------------------------- MODULE PromotionsView ----------------------------
(***************************************************************************)
(* The promotions table, the modal forms and the product picker of         *)
(* ui/app.js.  There is one modal element; each form that is opened        *)
(* replaces its content.                                                   *)
(***************************************************************************)
EXTENDS ProductsView

CONSTANTS
  PromotionIds,
  Terms          \* what may be searched for; each finds other products

VARIABLES
  promotion,     \* on the server: absent, live or cancelled
  table,         \* the status of each promotion as shown
  armed, disabled,     \* the Cancel buttons
  modal,         \* the form that is shown (0: none) and whether it is submitting
  forms,         \* number of forms opened so far
  picker,        \* of the form last opened
  created        \* forms whose submission the server has accepted; history

promotionVars == <<promotion, table, armed, disabled, modal, forms, picker, created>>
formVars == <<modal, forms, picker, created>>
tableVars == <<table, armed, disabled>>

FormKinds == {"product", "promotion", "assign"}
EmptyTable == [pr \in PromotionIds |-> "absent"]
NoButtons == [pr \in PromotionIds |-> FALSE]
NoForm == [form |-> 0, kind |-> Nothing, busy |-> FALSE]
FreshPicker == [results |-> Nothing, shown |-> Nothing, picked |-> Nothing]
DialogOpen == drawer.open \/ modal.form # 0

-----------------------------------------------------------------------------
(* The table: loadPromotions, after the requests in base.                    *)
ListPromotions(base) == Append(base, Request("promotions", Nothing))

ServePromotions(i) ==
  /\ Unserved(i, {"promotions"})
  /\ Reply(i, promotion)
  /\ NoFault
  /\ UNCHANGED <<view, stale, productVars, promotionVars>>

\* The rows are new elements, and so are their buttons.
ShowTable(rowsShown, requests) ==
  /\ table' = rowsShown /\ armed' = NoButtons /\ disabled' = NoButtons
  /\ inflight' = Superseded({"cancel"}, requests)

AnswerPromotions(i) ==
  /\ Served(i, {"promotions"})
  /\ ShowTable(inflight[i].reply, Others(i))
  /\ NoFault
  /\ UNCHANGED <<view, stale, productVars, promotion, formVars>>

FailPromotions(i) ==
  /\ i \in InFlight({"promotions"}) /\ Fails(i)
  /\ ShowTable(EmptyTable, Others(i))
  /\ UNCHANGED <<view, stale, productVars, promotion, formVars>>

\* The first click arms the button, the second one cancels.
ClickCancel(pr) ==
  /\ User
  /\ view = "promotions" /\ ~DialogOpen /\ table[pr] = "live" /\ ~disabled[pr]
  /\ IF armed[pr]
       THEN /\ disabled' = [disabled EXCEPT ![pr] = TRUE]
            /\ inflight' = Append(inflight, Request("cancel", pr))
            /\ UNCHANGED armed
       ELSE armed' = [armed EXCEPT ![pr] = TRUE] /\ UNCHANGED <<disabled, inflight>>
  /\ UNCHANGED <<view, stale, productVars, promotion, table, formVars>>

\* setTimeout, 3 s after the first click.
Disarm(pr) ==
  /\ armed[pr]
  /\ armed' = [armed EXCEPT ![pr] = FALSE]
  /\ UNCHANGED <<shell, productVars, promotion, table, disabled, formVars>>

\* cancel of promotions/service.ts: idempotent.
ServeCancel(i) ==
  /\ Unserved(i, {"cancel"})
  /\ promotion' = [promotion EXCEPT ![inflight[i].arg] = "cancelled"]
  /\ Reply(i, Nothing)
  /\ NoFault
  /\ UNCHANGED <<view, stale, productVars, tableVars, formVars>>

AnswerCancel(i) ==
  /\ Served(i, {"cancel"})
  /\ stale' = TRUE
  /\ inflight' = ListPromotions(Others(i))
  /\ NoFault
  /\ UNCHANGED <<view, productVars, promotionVars>>

FailCancel(i) ==
  /\ i \in InFlight({"cancel"}) /\ Fails(i)
  /\ inflight' = Others(i)
  /\ disabled' = IF inflight[i].current THEN [disabled EXCEPT ![inflight[i].arg] = FALSE] ELSE disabled
  /\ UNCHANGED <<view, stale, productVars, promotion, table, armed, formVars>>

-----------------------------------------------------------------------------
(* The forms.                                                                *)

\* openModal, bindPicker: the picker is a new one.
ShowForm(kind, product) ==
  /\ modal' = [form |-> forms + 1, kind |-> kind, busy |-> FALSE]
  /\ forms' = forms + 1
  /\ picker' = [FreshPicker EXCEPT !.picked = product]
  /\ UNCHANGED <<inflight, created>>

OpenForm(kind) ==
  /\ User
  /\ ~DialogOpen
  /\ \/ kind = "product" /\ view = "products"
     \/ kind = "promotion" /\ view = "promotions"
     \/ kind = "assign" /\ view = "promotions" /\ \E pr \in PromotionIds : table[pr] = "live"
  /\ ShowForm(kind, Nothing)
  /\ UNCHANGED <<view, stale, productVars, promotion, tableVars>>

\* "Add promotion" in the drawer, for the product it shows.
Promote ==
  /\ User
  /\ drawer.open /\ drawer.shown # Nothing
  /\ drawer' = [drawer EXCEPT !.open = FALSE]
  /\ ShowForm("promotion", drawer.shown)
  /\ UNCHANGED <<view, stale, catalogVars, listVars, promotion, tableVars>>

CloseForm ==
  /\ User
  /\ modal.form # 0
  /\ modal' = NoForm
  /\ UNCHANGED <<view, stale, inflight, productVars, promotion, tableVars, forms, picker, created>>

\* Mutant of Submit: the button is not disabled.
SubmitAgain ==
  /\ User
  /\ modal.form # 0
  /\ inflight' = Append(inflight, Request("submit", [form |-> modal.form, kind |-> modal.kind]))
  /\ UNCHANGED <<view, stale, productVars, promotion, tableVars, formVars>>

Submit ==
  /\ User
  /\ modal.form # 0 /\ ~modal.busy
  /\ modal' = [modal EXCEPT !.busy = TRUE]
  /\ inflight' = Append(inflight, Request("submit", [form |-> modal.form, kind |-> modal.kind]))
  /\ UNCHANGED <<view, stale, productVars, promotion, tableVars, forms, picker, created>>

\* The server accepts or refuses; the same product or promotion again is a conflict.
ServeSubmit(i) ==
  /\ Unserved(i, {"submit"})
  /\ \/ /\ inflight[i].arg.kind = "assign" \/ inflight[i].arg.form \notin created
        /\ Reply(i, "accepted")
        /\ created' = created \cup {inflight[i].arg.form}
        /\ IF inflight[i].arg.kind = "promotion"
             THEN \E pr \in PromotionIds : /\ promotion[pr] = "absent"
                                           /\ promotion' = [promotion EXCEPT ![pr] = "live"]
             ELSE UNCHANGED promotion
     \/ Reply(i, "refused") /\ UNCHANGED <<created, promotion>>
  /\ NoFault
  /\ UNCHANGED <<view, stale, productVars, tableVars, modal, forms, picker>>

\* After success each kind of form loads what it changed.
AfterSubmit(kind, base) ==
  IF kind = "product" \/ (kind = "promotion" /\ view = "products")
    THEN ResetTable(base, filter) /\ UNCHANGED <<catalogVars, filter, drawer>>
    ELSE /\ inflight' = IF kind = "assign" \/ view = "promotions" THEN ListPromotions(base) ELSE base
         /\ UNCHANGED productVars

\* modal.close() closes whatever form is shown.
AnswerSubmit(i) ==
  /\ Served(i, {"submit"})
  /\ IF inflight[i].reply = "accepted"
       THEN /\ stale' = TRUE
            /\ AfterSubmit(inflight[i].arg.kind, Others(i))
            /\ modal' = NoForm
       ELSE /\ inflight' = Others(i)
            /\ modal' = IF modal.form = inflight[i].arg.form THEN [modal EXCEPT !.busy = FALSE] ELSE modal
            /\ UNCHANGED <<stale, productVars>>
  /\ NoFault
  /\ UNCHANGED <<view, promotion, tableVars, forms, picker, created>>

FailSubmit(i) ==
  /\ i \in InFlight({"submit"}) /\ Fails(i)
  /\ inflight' = Others(i)
  /\ modal' = IF modal.form = inflight[i].arg.form THEN [modal EXCEPT !.busy = FALSE] ELSE modal
  /\ UNCHANGED <<view, stale, productVars, promotion, tableVars, forms, picker, created>>

-----------------------------------------------------------------------------
(* The product picker of the form.                                           *)

\* The text has been term for 200 ms.
Search(term) ==
  /\ User
  /\ modal.form # 0 /\ modal.kind # "product" /\ picker.picked = Nothing
  /\ inflight' = Append(Superseded({"search"}, inflight), Request("search", [form |-> modal.form, term |-> term]))
  /\ UNCHANGED <<view, stale, productVars, promotionVars>>

\* The answer to any search is kept in results; that to the last one is shown.  An answer
\* for the picker of an earlier form is seen by nobody.
AnswerSearch(i) ==
  /\ i \in InFlight({"search"})
  /\ inflight' = Others(i)
  /\ LET term == inflight[i].arg.term
     IN  picker' = IF inflight[i].arg.form # forms THEN picker
                   ELSE [picker EXCEPT !.results = term,
                                       !.shown = IF inflight[i].current THEN term ELSE @]
  /\ NoFault
  /\ UNCHANGED <<view, stale, productVars, promotion, tableVars, modal, forms, created>>

FailSearch(i) ==
  /\ i \in InFlight({"search"}) /\ Fails(i)
  /\ inflight' = Others(i)
  /\ UNCHANGED <<view, stale, productVars, promotionVars>>

\* A click on the n-th line shown takes the n-th of results.
Pick ==
  /\ User
  /\ modal.form # 0 /\ picker.picked = Nothing /\ picker.shown # Nothing
  /\ picker' = [picker EXCEPT !.picked = picker.results]
  /\ UNCHANGED <<view, stale, inflight, productVars, promotion, tableVars, modal, forms, created>>

\* "Change" empties the choice and hides the list.
ChangePick ==
  /\ User
  /\ modal.form # 0 /\ picker.picked # Nothing
  /\ picker' = [picker EXCEPT !.picked = Nothing, !.shown = Nothing]
  /\ UNCHANGED <<view, stale, inflight, productVars, promotion, tableVars, modal, forms, created>>

-----------------------------------------------------------------------------
InitPromotions ==
  /\ promotion \in {f \in [PromotionIds -> {"absent", "live"}] : \E pr \in PromotionIds : f[pr] = "absent"}
  /\ table = EmptyTable /\ armed = NoButtons /\ disabled = NoButtons
  /\ modal = NoForm /\ forms = 0 /\ picker = FreshPicker /\ created = {}

UserOfPromotions ==
  \/ \E pr \in PromotionIds : ClickCancel(pr)
  \/ \E kind \in FormKinds : OpenForm(kind)
  \/ Promote \/ CloseForm \/ Submit \/ Pick \/ ChangePick
  \/ \E term \in Terms : Search(term)

AnswersOfPromotions ==
  \E i \in DOMAIN inflight :
    \/ ServePromotions(i) \/ AnswerPromotions(i) \/ ServeCancel(i) \/ AnswerCancel(i)
    \/ ServeSubmit(i) \/ AnswerSubmit(i) \/ AnswerSearch(i)

FaultsOfPromotions ==
  \E i \in DOMAIN inflight :
    FailPromotions(i) \/ FailCancel(i) \/ FailSubmit(i) \/ FailSearch(i)

-----------------------------------------------------------------------------
\* A form is submitted once at a time, whatever is clicked, and so what it creates is
\* not sent twice; only a failure that hides the server's answer leads to a second try.
SubmittedOnce ==
  /\ \A i, j \in InFlight({"submit"}) : inflight[i].arg.form = inflight[j].arg.form => i = j
  /\ faults = 0 => \A i \in InFlight({"submit"}) : inflight[i].arg.form \in created => inflight[i].served
=============================================================================
