------------------------------ MODULE Payments ------------------------------
(***************************************************************************)
(* The payment views of the popup and the side panel (popup/views), the      *)
(* transaction history they write and the activity view that polls the       *)
(* status of its records (popup/hooks/use-transactions.ts and                *)
(* use-transaction-statuses.ts). A form's contents are one value; the        *)
(* worker is what answers a request, or loses it.                            *)
(*                                                                         *)
(* Leaving a view unmounts it, but what it asked goes on in the document;    *)
(* closing the surface ends the document and everything under way in it.     *)
(***************************************************************************)
EXTENDS Naturals, Sequences, SequencesExt, FiniteSets

CONSTANTS
    Surfaces,    \* the popup, the side panel
    Reaches,     \* the views each surface is led to
    Forms,       \* valid contents of a form
    Empty,       \* a form that fails its validation
    MaxRecords,  \* MAX_RECORDS of the history
    Mounts,      \* bound on the mounts of views in each surface
    Asks,        \* bound on the requests of the payment views
    Polls,       \* bound on the polls of one transaction under way in a surface
    None

Tabs == {"home", "swap", "lend", "bridge", "activity"}
Panes == {"spark", "withdraw", "deposit", "invoice", "lightning"}  \* of the Spark view
Requoting == {"swap", "bridge", "buy"}     \* an edit drops the quote
Direct == {"lend", "smart", "spark", "lightning"}
Views == Tabs \cup Panes \cup {"send", "buy", "smart"}
Recorded == {"send", "swap", "bridge", "lend", "smart"}

Statuses == {"pending", "success", "failed"}
Final == {"success", "failed"}

ASSUME FormsAssumption == Empty \notin Forms /\ None \notin Forms \cup Statuses \cup {Empty}
ASSUME ReachesAssumption == Reaches \in [Surfaces -> SUBSET Views]
ASSUME BoundsAssumption == {MaxRecords, Asks, Polls} \subseteq Nat \ {0} /\ Mounts \in [Surfaces -> Nat]

Nos == 1 .. Asks

VARIABLES
    view,      \* what each surface shows
    requests,  \* requests to the worker that are not answered
    asked,     \* number of requests so far
    truth,     \* what the chain says of the transaction a request became
    history,   \* localStorage 'wdk:tx-history', newest first
    answered,  \* history: recorded sends whose answer arrived, newest first
    polls      \* RPC_GET_TRANSACTION_STATUS under way

vars == <<view, requests, asked, truth, history, answered, polls>>
records == <<history, answered>>

\* shown: the form whose quote or review the user sees
View == [is : Views, mount : Nat, form : Forms \cup {Empty},
         phase : {"form", "review", "quoting", "quoted", "sending", "done"},
         shown : Forms \cup {Empty, None},
         txs : Seq([no : Nos, status : Statuses \cup {"submitted"}]),
         live : [Nos -> Statuses \cup {"none"}]]

Request == [no : Nos, what : {"quote", "send", "link", "address"}, is : Views,
            on : Surfaces, mount : Nat,
            form : Forms \cup {Empty}, shown : Forms \cup {Empty, None}]

TypeOK ==
    /\ view \in [Surfaces -> View] /\ \A s \in Surfaces : view[s].mount <= Mounts[s]
    /\ requests \subseteq Request /\ asked \in 0 .. Asks
    /\ truth \in [Nos -> Statuses \cup {"none"}]
    /\ history \in Seq([no : Nos, status : Statuses \cup {"submitted"}])
    /\ Len(history) <= MaxRecords
    /\ \A i \in DOMAIN history : history[i].status \in {"submitted", truth[history[i].no]}
    /\ answered \in Seq(Nos)
    /\ polls \in [Surfaces -> [Nos -> Seq(Statuses \cup {None})]]

NoPolls == [n \in Nos |-> <<>>]

Mounted(v, k) == [is |-> v, mount |-> k, form |-> Empty, phase |-> "form", shown |-> None,
                  txs |-> IF v = "activity" THEN history ELSE <<>>,
                  live |-> [n \in Nos |-> "none"]]

Init ==
    /\ history = <<>> /\ answered = <<>>
    /\ view = [s \in Surfaces |-> Mounted("home", 0)]
    /\ requests = {} /\ asked = 0
    /\ truth = [n \in Nos |-> "none"]
    /\ polls = [s \in Surfaces |-> NoPolls]

At(s, vs, phases) == view[s].is \in vs /\ view[s].phase \in phases
Filled(s) == view[s].form # Empty

-----------------------------------------------------------------------------
(* Moving between the views of a surface.                                    *)

Leads(from, to) ==
    \/ from \in Tabs /\ to \in Tabs
    \/ from = "home" /\ to \in {"send", "buy", "smart"} \cup Panes
    \/ from \in Panes /\ to \in Panes
    \/ to = "home"

Show(s, v) ==
    /\ view' = [view EXCEPT ![s] = Mounted(v, @.mount + 1)]
    /\ polls' = [polls EXCEPT ![s] = NoPolls]

\* A tab, a view pushed over the home tab and back, a pane of the Spark view.
Go(s, v) ==
    /\ v # view[s].is /\ Leads(view[s].is, v) /\ v \in Reaches[s]
    /\ view[s].mount < Mounts[s]
    /\ Show(s, v)
    /\ UNCHANGED <<requests, asked, truth, records>>

\* The browser closes the popup or the panel; it opens again on the home tab.
Close(s) ==
    /\ view[s].mount < Mounts[s]
    /\ Show(s, "home")
    /\ requests' = {r \in requests : r.on # s}
    /\ UNCHANGED <<asked, truth, records>>

-----------------------------------------------------------------------------
(* Filling in a form.                                                        *)

Fill(s, f, phase) ==
    /\ f # view[s].form
    /\ view' = [view EXCEPT ![s].form = f, ![s].phase = phase, ![s].shown = None]
    /\ UNCHANGED <<requests, asked, truth, records, polls>>

\* The send view shows its inputs in the form phase only.
SendEdit(s, f) == At(s, {"send"}, {"form"}) /\ Fill(s, f, "form")

\* Swap, bridge and buy take an edit in every phase and fall back to the form,
\* whatever they have under way.
QuoteEdit(s, f) == At(s, Requoting, {"form", "quoting", "quoted", "sending"}) /\ Fill(s, f, "form")

\* The others keep their phase; the withdraw pane drops the fee it shows.
PlainEdit(s, f) ==
    /\ At(s, Direct \cup {"withdraw", "invoice"}, {"form", "sending"})
    /\ Fill(s, f, view[s].phase)

-----------------------------------------------------------------------------
(* Reviewing, quoting and confirming.                                        *)

Ask(s, what, phase, shown) ==
    /\ asked < Asks /\ asked' = asked + 1
    /\ requests' = requests \cup
           {[no |-> asked + 1, what |-> what, is |-> view[s].is, on |-> s,
             mount |-> view[s].mount, form |-> view[s].form, shown |-> view[s].shown]}
    /\ view' = [view EXCEPT ![s].phase = phase, ![s].shown = shown]
    /\ UNCHANGED <<truth, records, polls>>

Review(s) ==
    /\ At(s, {"send"}, {"form"}) /\ Filled(s)
    /\ view' = [view EXCEPT ![s].phase = "review", ![s].shown = view[s].form]
    /\ UNCHANGED <<requests, asked, truth, records, polls>>

\* The sheet with the review: both of its buttons are disabled while busy.
Sheet(s) == At(s, {"send"}, {"review"})

CancelReview(s) ==
    /\ Sheet(s)
    /\ view' = [view EXCEPT ![s].phase = "form", ![s].shown = None]
    /\ UNCHANGED <<requests, asked, truth, records, polls>>

SendConfirm(s) == Sheet(s) /\ Ask(s, "send", "sending", view[s].shown)

SwapQuote(s) == At(s, {"swap"}, {"form"}) /\ Filled(s) /\ Ask(s, "quote", "quoting", None)
BridgeQuote(s) == At(s, {"bridge"}, {"form"}) /\ Filled(s) /\ Ask(s, "quote", "quoting", None)
BuyQuote(s) == At(s, {"buy"}, {"form"}) /\ Filled(s) /\ Ask(s, "quote", "quoting", None)

SwapConfirm(s) == At(s, {"swap"}, {"quoted"}) /\ Filled(s) /\ Ask(s, "send", "sending", None)
BridgeConfirm(s) == At(s, {"bridge"}, {"quoted"}) /\ Filled(s) /\ Ask(s, "send", "sending", None)
BuyConfirm(s) == At(s, {"buy"}, {"quoted"}) /\ Ask(s, "link", "sending", None)

\* The withdraw pane is busy while either of its requests is under way; which
\* button it offers depends on the fee it shows alone.
WithdrawQuote(s) ==
    /\ At(s, {"withdraw"}, {"form"}) /\ view[s].shown = None /\ Filled(s)
    /\ Ask(s, "quote", "sending", None)

WithdrawConfirm(s) ==
    /\ At(s, {"withdraw"}, {"form"}) /\ view[s].shown # None
    /\ Ask(s, "send", "sending", view[s].shown)

\* Defect: the button is not disabled while a payment is under way.
LendConfirmAgain(s) ==
    At(s, {"lend"}, {"form", "sending"}) /\ Filled(s) /\ Ask(s, "send", "sending", None)

LendConfirm(s) == At(s, {"lend"}, {"form"}) /\ Filled(s) /\ Ask(s, "send", "sending", None)
SmartConfirm(s) == At(s, {"smart"}, {"form"}) /\ Filled(s) /\ Ask(s, "send", "sending", None)
SparkConfirm(s) == At(s, {"spark"}, {"form"}) /\ Filled(s) /\ Ask(s, "send", "sending", None)
PayInvoice(s) == At(s, {"lightning"}, {"form"}) /\ Filled(s) /\ Ask(s, "send", "sending", None)
MakeInvoice(s) == At(s, {"invoice"}, {"form"}) /\ Filled(s) /\ Ask(s, "address", "sending", None)
DepositAddress(s) == At(s, {"deposit"}, {"form"}) /\ Ask(s, "address", "sending", None)

\* 'Send again', 'Withdraw again', 'Pay another'; a new invoice keeps its inputs.
Again(s) ==
    /\ At(s, {"spark", "withdraw", "lightning", "invoice"}, {"done"})
    /\ view' = [view EXCEPT ![s].phase = "form", ![s].shown = None,
                            ![s].form = IF view[s].is = "invoice" THEN @ ELSE Empty]
    /\ UNCHANGED <<requests, asked, truth, records, polls>>

-----------------------------------------------------------------------------
(* Answers. A request may be refused before or after it did what it asks.     *)

Broadcast(r) ==
    /\ r.what = "send" /\ r.form # Empty /\ truth[r.no] = "none"
    /\ truth' = [truth EXCEPT ![r.no] = "pending"]
    /\ UNCHANGED <<view, requests, asked, records, polls>>

\* The view that asked, if it is still there.
Then(r, phase, shown) ==
    view' = IF view[r.on].mount = r.mount
            THEN [view EXCEPT ![r.on].phase = phase, ![r.on].shown = shown]
            ELSE view

addTransaction(r) ==
    history' = SubSeq(<<[no |-> r.no, status |-> "submitted"]>> \o history,
                      1, IF Len(history) < MaxRecords THEN Len(history) + 1 ELSE MaxRecords)

\* Defect: the view records a send only when it is still mounted.
KeepIfMounted(r) ==
    IF r.is \in Recorded
    THEN /\ answered' = <<r.no>> \o answered
         /\ IF view[r.on].mount = r.mount THEN addTransaction(r) ELSE UNCHANGED history
    ELSE UNCHANGED records

\* What a payment view does first with the answer to a send.
Keep(r) ==
    IF r.is \in Recorded
    THEN addTransaction(r) /\ answered' = <<r.no>> \o answered
    ELSE UNCHANGED records

Quoted(r) ==
    /\ r.what = "quote"
    /\ Then(r, IF r.is = "withdraw" THEN "form" ELSE "quoted", r.form)
    /\ UNCHANGED records

Sent(r) ==
    /\ r.what = "send" /\ truth[r.no] # "none"
    /\ Keep(r)
    /\ Then(r, "done", None)

Opened(r) ==
    /\ r.what \in {"link", "address"}
    /\ Then(r, IF r.is = "buy" THEN "form" ELSE "done", None)
    /\ UNCHANGED records

\* Back to the review, or to the form; the withdraw pane keeps the fee it shows.
Refused(r) ==
    /\ Then(r, IF r.is = "send" THEN "review" ELSE "form",
            IF r.is \in {"send", "withdraw"} THEN view[r.on].shown ELSE None)
    /\ UNCHANGED records

Answer(r) ==
    /\ Quoted(r) \/ Sent(r) \/ Opened(r) \/ Refused(r)
    /\ requests' = requests \ {r}
    /\ UNCHANGED <<asked, truth, polls>>

-----------------------------------------------------------------------------
(* The activity view.                                                        *)

Pollable(txs) == SelectSeq(txs, LAMBDA t : t.status \notin Final)
Target(s, n) == \E i \in DOMAIN view[s].txs :
                    view[s].txs[i].no = n /\ view[s].txs[i].status \notin Final

\* The window gets the focus: the records are read again, and the polls under
\* way are dropped when the transactions to poll are others.
Focus(s) ==
    /\ view[s].is = "activity" /\ view[s].txs # history
    /\ view' = [view EXCEPT ![s].txs = history]
    /\ LET key(txs) == [i \in DOMAIN Pollable(txs) |-> Pollable(txs)[i].no]
       IN polls' = IF key(history) # key(view[s].txs) THEN [polls EXCEPT ![s] = NoPolls]
                                                      ELSE polls
    /\ UNCHANGED <<requests, asked, truth, records>>

\* Defect: a transaction that was polled once is not polled again.
PollOnce(s, n) ==
    /\ Target(s, n) /\ view[s].live[n] = "none"
    /\ Len(polls[s][n]) < Polls
    /\ polls' = [polls EXCEPT ![s][n] = Append(@, None)]
    /\ UNCHANGED <<view, requests, asked, truth, records>>

\* Polls of a transaction go out every POLL_INTERVAL_MS whether or not the
\* earlier ones are answered, until an answer is final.
Poll(s, n) ==
    /\ Target(s, n) /\ view[s].live[n] \notin Final
    /\ Len(polls[s][n]) < Polls
    /\ polls' = [polls EXCEPT ![s][n] = Append(@, None)]
    /\ UNCHANGED <<view, requests, asked, truth, records>>

PollRead(s, n) ==
    /\ \E i \in DOMAIN polls[s][n] :
           /\ polls[s][n][i] = None
           /\ polls' = [polls EXCEPT ![s][n][i] = truth[n]]
    /\ UNCHANGED <<view, requests, asked, truth, records>>

updateTransactionStatus(n, status) ==
    history' = [i \in DOMAIN history |->
                   IF history[i].no = n THEN [history[i] EXCEPT !.status = status] ELSE history[i]]

\* Defect: whatever a poll says is written to the history.
PersistAny(n, status) == updateTransactionStatus(n, status)

Persist(n, status) ==
    IF status \in Final THEN updateTransactionStatus(n, status) ELSE UNCHANGED history

PollAnswered(s, n) ==
    /\ \E i \in DOMAIN polls[s][n] :
           /\ polls[s][n][i] # None
           /\ view' = [view EXCEPT ![s].live[n] = polls[s][n][i]]
           /\ Persist(n, polls[s][n][i])
           /\ polls' = [polls EXCEPT ![s][n] = RemoveAt(@, i)]
    /\ UNCHANGED <<requests, asked, truth, answered>>

PollFails(s, n) ==
    /\ \E i \in DOMAIN polls[s][n] : polls' = [polls EXCEPT ![s][n] = RemoveAt(@, i)]
    /\ UNCHANGED <<view, requests, asked, truth, records>>

\* The chain includes a transaction, or drops it.
Mined(n, status) ==
    /\ truth[n] = "pending"
    /\ truth' = [truth EXCEPT ![n] = status]
    /\ UNCHANGED <<view, requests, asked, records, polls>>

-----------------------------------------------------------------------------
Edit(s, f) == SendEdit(s, f) \/ QuoteEdit(s, f) \/ PlainEdit(s, f)

Press(s) ==
    \/ Review(s) \/ CancelReview(s) \/ SendConfirm(s)
    \/ SwapQuote(s) \/ SwapConfirm(s) \/ BridgeQuote(s) \/ BridgeConfirm(s)
    \/ BuyQuote(s) \/ BuyConfirm(s) \/ WithdrawQuote(s) \/ WithdrawConfirm(s)
    \/ LendConfirm(s) \/ SmartConfirm(s) \/ SparkConfirm(s) \/ PayInvoice(s)
    \/ MakeInvoice(s) \/ DepositAddress(s) \/ Again(s)

Next ==
    \/ \E s \in Surfaces : \/ \E v \in Views : Go(s, v)
                           \/ \E f \in Forms \cup {Empty} : Edit(s, f)
                           \/ Close(s) \/ Press(s) \/ Focus(s)
    \/ \E r \in requests : Broadcast(r) \/ Answer(r)
    \/ \E s \in Surfaces, n \in Nos :
           Poll(s, n) \/ PollRead(s, n) \/ PollAnswered(s, n) \/ PollFails(s, n)
    \/ \E n \in Nos, status \in Final : Mined(n, status)

Active == {s \in Surfaces : "activity" \in Reaches[s]}

\* The interval keeps polling, and a node that is asked again and again answers.
Fairness == \A s \in Active, n \in Nos :
    /\ WF_vars(Poll(s, n)) /\ SF_vars(PollRead(s, n))
    /\ SF_vars(PollAnswered(s, n))

Spec == Init /\ [][Next]_vars /\ Fairness

-----------------------------------------------------------------------------
(* Properties.                                                               *)

InFlight(what) == {r \in requests : r.what = what}

\* What is sent is what the review showed (send-view.tsx), whatever was edited, cancelled
\* or answered late meanwhile; and a mounted view other than the requoting ones has at
\* most one payment under way. It may begin another after an answer: a payment that was
\* broadcast and then refused goes back to its review (send-view.tsx:155).
ReviewedIsSent ==
    /\ \A r \in InFlight("send") : r.is = "send" => r.form = r.shown
    /\ \A r, q \in InFlight("send") :
           r.is \notin Requoting /\ q.is = r.is /\ q.on = r.on /\ q.mount = r.mount => q = r

\* The history is the newest MaxRecords of the recorded sends that were answered
\* (use-transactions.ts), in the order of their answers, whichever surface sent
\* them and whether or not the view that did is still mounted.
HistoryIsNewest ==
    /\ Len(history) = IF Len(answered) < MaxRecords THEN Len(answered) ELSE MaxRecords
    /\ \A i \in DOMAIN history : history[i].no = answered[i]

\* Resolved statuses "stick across popup reopens" (use-transaction-statuses.ts): no
\* late answer, of this surface or the other, takes a record's final status back.
ResolvedSticks == [][
    \A i \in DOMAIN history, j \in DOMAIN history' :
        history[i].no = history'[j].no /\ history[i].status \in Final
            => history'[j].status = history[i].status]_vars

\* While an activity view stays open, the outcome of each transaction it lists ends
\* up in the history, in spite of failed polls and of late ones in any order, unless
\* newer records push it out.
Listed(s, n) == Target(s, n) /\ truth[n] \in Final

Learnt(n) == \A i \in DOMAIN history : history[i].no = n => history[i].status = truth[n]

StatusIsLearnt == \A s \in Active, n \in Nos :
    Listed(s, n) ~> (Learnt(n) \/ ~Listed(s, n))

\* "the sends the wallet has broadcast" (activity-view.tsx): every broadcast of a view
\* that records its sends is listed, once its answer is no longer under way. The code
\* records at the answer, in the document that asked.
BroadcastIsListed == \A n \in Nos :
    truth[n] # "none" /\ Len(answered) <= MaxRecords
        => \/ \E r \in requests : r.no = n
           \/ \E i \in DOMAIN answered : answered[i] = n

\* Swap, bridge and withdraw: what is confirmed is what the quote on the screen is of.
QuotedIsSent == \A r \in InFlight("send") :
    r.is \in {"swap", "bridge", "withdraw"} => r.form = r.shown

=============================================================================
