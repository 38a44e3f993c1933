--------------------------- MODULE PaymentsProofs ---------------------------
(***************************************************************************)
(* For any surfaces, views they are led to, forms, size of the history and   *)
(* bounds on mounts, requests and polls: what is sent was reviewed, a view   *)
(* has at most one payment under way, the history is the newest answered     *)
(* sends, and a status that is final stays.                                  *)
(***************************************************************************)
EXTENDS Payments, SequenceTheorems, TLAPS

Phases == {"form", "review", "quoting", "quoted", "sending", "done"}
Tx == [no : Nos, status : Statuses \cup {"submitted"}]

LEMMA Bounds == MaxRecords \in Nat \ {0} /\ Asks \in Nat \ {0} /\ Mounts \in [Surfaces -> Nat]
BY BoundsAssumption DEF BoundsAssumption

\* Removing one element leaves a sequence of others.
LEMMA Removed ==
    ASSUME NEW S, NEW q \in Seq(S), NEW i \in DOMAIN q
    PROVE  /\ RemoveAt(q, i) \in Seq(S)
           /\ \A k \in DOMAIN RemoveAt(q, i) : \E j \in DOMAIN q : RemoveAt(q, i)[k] = q[j]
<1>0. DOMAIN q = 1..Len(q) /\ Len(q) \in Nat
  OBVIOUS
<1>1. i \in Nat \ {0} /\ i <= Len(q)
  BY <1>0
<1> DEFINE a == SubSeq(q, 1, i - 1)  b == SubSeq(q, i + 1, Len(q))
<1>2. a \in Seq(S) /\ Len(a) = i - 1 /\ \A k \in 1..Len(a) : a[k] = q[k]
  BY <1>0, <1>1
<1>3. b \in Seq(S) /\ Len(b) = Len(q) - i /\ \A k \in 1..Len(b) : b[k] = q[k + i]
  BY <1>0, <1>1
<1>4. RemoveAt(q, i) = a \o b
  BY DEF RemoveAt
<1> HIDE DEF a, b
<1> DEFINE c == a \o b
<1>5. /\ c \in Seq(S) /\ Len(c) = Len(a) + Len(b)
      /\ \A k \in 1..(Len(a) + Len(b)) : c[k] = IF k <= Len(a) THEN a[k] ELSE b[k - Len(a)]
  BY <1>2, <1>3, ConcatProperties
<1> HIDE DEF c
<1>6. ASSUME NEW k \in 1..(Len(a) + Len(b))
      PROVE  \E j \in 1..Len(q) : c[k] = q[j]
  <2>0. k \in Nat /\ k >= 1 /\ k <= Len(a) + Len(b)
    BY <1>0, <1>1, <1>2, <1>3
  <2>1. CASE k <= Len(a)
    <3>1. k \in 1..Len(a) /\ k \in 1..Len(q)
      BY <2>0, <2>1, <1>0, <1>1, <1>2
    <3> QED
      BY <3>1, <2>1, <1>2, <1>5
  <2>2. CASE k > Len(a)
    <3>1. k - Len(a) \in 1..Len(b) /\ (k - Len(a)) + i \in 1..Len(q)
      BY <2>0, <2>2, <1>0, <1>1, <1>2, <1>3
    <3>2. ~(k <= Len(a))
      BY <2>0, <2>2, <1>1, <1>2
    <3>3. c[k] = b[k - Len(a)]
      BY <3>2, <1>5
    <3>4. b[k - Len(a)] = q[(k - Len(a)) + i]
      BY <3>1, <1>3
    <3> QED
      BY <3>1, <3>3, <3>4
  <2> QED
    BY <2>0, <2>1, <2>2, <1>1, <1>2
<1>7. DOMAIN c = 1..(Len(a) + Len(b))
  BY <1>5
<1> QED
  BY <1>0, <1>4, <1>5, <1>6, <1>7 DEF c

-----------------------------------------------------------------------------
(* The inductive invariant                                                   *)

\* A request of the send view is a payment that was reviewed. The view that made a
\* request is the one that is mounted, or an earlier one of its surface; if it still
\* is, and takes no edit meanwhile, it waits, for this request alone.
Reviewed ==
    /\ \A s \in Surfaces : At(s, {"send"}, {"review", "sending"}) => view[s].shown = view[s].form
    /\ \A r \in requests : r.is = "send" => r.what = "send" /\ r.form = r.shown

Waiting ==
    \A r \in requests :
        /\ r.mount <= view[r.on].mount
        /\ r.mount = view[r.on].mount =>
               r.is = view[r.on].is /\ (r.is \notin Requoting => view[r.on].phase = "sending")

Single ==
    \A r, q \in requests :
        r.is \notin Requoting /\ q.on = r.on /\ q.mount = r.mount => q = r

FormsInv == Reviewed /\ Waiting /\ Single

\* Requests have numbers of their own, and what was answered is under way no more.
Distinct ==
    /\ \A r \in requests : r.no <= asked /\ \A q \in requests : q.no = r.no => q = r
    /\ \A i \in DOMAIN answered :
           /\ answered[i] <= asked
           /\ \A r \in requests : r.no # answered[i]
           /\ \A j \in DOMAIN answered : answered[j] = answered[i] => j = i

\* What a record or a poll says of the outcome is the outcome, and only what was
\* broadcast is recorded, listed or polled.
Begun(n) == truth[n] # "none"

Recording ==
    \A i \in DOMAIN history :
        /\ Begun(history[i].no)
        /\ history[i].status \in {"submitted"} \cup ({truth[history[i].no]} \cap Final)

Telling ==
    \A s \in Surfaces, n \in Nos : \A i \in DOMAIN polls[s][n] :
        Begun(n) /\ (polls[s][n][i] \in Final => polls[s][n][i] = truth[n])

Listing == \A s \in Surfaces : \A i \in DOMAIN view[s].txs : Begun(view[s].txs[i].no)

RecordsInv == HistoryIsNewest /\ Distinct /\ Recording /\ Telling /\ Listing

IInv == TypeOK /\ FormsInv /\ RecordsInv

-----------------------------------------------------------------------------
(* What the user does to a form                                              *)

Contents == Forms \cup {Empty}
Showing == Forms \cup {Empty, None}

\* A surface's view gets other contents, another phase and another form to show.
Turns(s, form, phase, shown) ==
    /\ form \in Contents /\ phase \in Phases /\ shown \in Showing
    /\ view' \in [Surfaces -> View]
    /\ \A t \in Surfaces \ {s} : view'[t] = view[t]
    /\ view'[s].is = view[s].is /\ view'[s].mount = view[s].mount /\ view'[s].txs = view[s].txs
    /\ view'[s].form = form /\ view'[s].phase = phase /\ view'[s].shown = shown

\* The user of the send view keeps what is reviewed, and only an answer ends the
\* wait of a view that takes no edit.
Lawful(s, form, phase, shown) ==
    /\ view[s].is = "send" /\ phase \in {"review", "sending"} => shown = form
    /\ view[s].is \notin Requoting /\ view[s].phase = "sending" => phase = "sending"

\* The view asks the worker for something.
Sends(s, r, phase) ==
    /\ r \in Request /\ r.on = s /\ r.no = asked + 1 /\ asked < Asks
    /\ r.is = view[s].is /\ r.mount = view[s].mount
    /\ r.is = "send" => r.what = "send" /\ r.form = r.shown
    /\ r.is \notin Requoting => view[s].phase # "sending" /\ phase = "sending"
    /\ requests' = requests \cup {r} /\ asked' = asked + 1

UserStep(s) ==
    /\ UNCHANGED <<truth, records, polls>>
    /\ \E form \in Contents, phase \in Phases, shown \in Showing :
           /\ Turns(s, form, phase, shown) /\ Lawful(s, form, phase, shown)
           /\ UNCHANGED <<requests, asked>> \/ \E r \in Request : Sends(s, r, phase)

\* One field at a time.
LEMMA SetOne ==
    ASSUME NEW v \in [Surfaces -> View], NEW s \in Surfaces
    PROVE  /\ \A form \in Contents : [v EXCEPT ![s].form = form] \in [Surfaces -> View]
           /\ \A phase \in Phases : [v EXCEPT ![s].phase = phase] \in [Surfaces -> View]
           /\ \A shown \in Showing : [v EXCEPT ![s].shown = shown] \in [Surfaces -> View]
<1>1. ASSUME NEW form \in Contents
      PROVE  [v[s] EXCEPT !.form = form] \in View
  BY DEF View, Contents
<1>2. ASSUME NEW phase \in Phases
      PROVE  [v[s] EXCEPT !.phase = phase] \in View
  BY DEF View, Phases
<1>3. ASSUME NEW shown \in Showing
      PROVE  [v[s] EXCEPT !.shown = shown] \in View
  BY DEF View, Showing
<1> QED
  BY <1>1, <1>2, <1>3

LEMMA SetForm ==
    ASSUME TypeOK, NEW s \in Surfaces, NEW form \in Contents, NEW phase \in Phases,
           NEW shown \in Showing,
           view' = [view EXCEPT ![s].form = form, ![s].phase = phase, ![s].shown = shown]
    PROVE  Turns(s, form, phase, shown)
<1> DEFINE v1 == [view EXCEPT ![s].form = form]
           v2 == [v1 EXCEPT ![s].phase = phase]
<1>1. view \in [Surfaces -> View]
  BY DEF TypeOK
<1>2. v1 \in [Surfaces -> View]
  BY <1>1, SetOne
<1>3. v2 \in [Surfaces -> View]
  BY <1>2, SetOne
<1>4. view' = [v2 EXCEPT ![s].shown = shown]
  OBVIOUS
<1> HIDE DEF v2
<1>5. [v2 EXCEPT ![s].shown = shown] \in [Surfaces -> View]
  BY ONLY <1>3, SetOne, s \in Surfaces, shown \in Showing
<1>6. view' \in [Surfaces -> View]
  BY <1>4, <1>5, Zenon
<1> USE DEF v2
<1> QED
  BY <1>1, <1>6 DEF View, Turns

LEMMA SetPhase ==
    ASSUME TypeOK, NEW s \in Surfaces, NEW phase \in Phases, NEW shown \in Showing,
           view' = [view EXCEPT ![s].phase = phase, ![s].shown = shown]
    PROVE  Turns(s, view[s].form, phase, shown) /\ view[s].form \in Contents
<1> DEFINE v1 == [view EXCEPT ![s].phase = phase]
<1>1. view \in [Surfaces -> View]
  BY DEF TypeOK
<1>2. v1 \in [Surfaces -> View]
  BY <1>1, SetOne
<1>3. view' = [v1 EXCEPT ![s].shown = shown]
  OBVIOUS
<1> HIDE DEF v1
<1>6. [v1 EXCEPT ![s].shown = shown] \in [Surfaces -> View]
  BY ONLY <1>2, SetOne, s \in Surfaces, shown \in Showing
<1>4. view' \in [Surfaces -> View]
  BY <1>3, <1>6, Zenon
<1> USE DEF v1
<1>5. view[s].form \in Contents
  BY <1>1 DEF View, Contents
<1> QED
  BY <1>1, <1>4, <1>5 DEF View, Turns

LEMMA Filling ==
    ASSUME TypeOK, NEW s \in Surfaces, NEW f \in Contents, NEW phase \in Phases,
           Fill(s, f, phase), Lawful(s, f, phase, None)
    PROVE  UserStep(s)
BY SetForm DEF Fill, UserStep, Showing

LEMMA Asking ==
    ASSUME TypeOK, NEW s \in Surfaces, NEW what, NEW phase \in Phases, NEW shown \in Showing,
           Ask(s, what, phase, shown), what \in {"quote", "send", "link", "address"},
           view[s].is = "send" =>
               what = "send" /\ view[s].shown = view[s].form /\ shown = view[s].shown,
           view[s].is \notin Requoting => view[s].phase # "sending" /\ phase = "sending"
    PROVE  UserStep(s)
<1> DEFINE r == [no |-> asked + 1, what |-> what, is |-> view[s].is, on |-> s,
                 mount |-> view[s].mount, form |-> view[s].form, shown |-> view[s].shown]
<1>1. asked \in 0..Asks /\ view[s] \in View
  BY DEF TypeOK
<1>2. asked + 1 \in Nos
  BY <1>1, Bounds DEF Ask, Nos
<1>3. r \in Request
  BY <1>1, <1>2 DEF Request, View
<1>4. Sends(s, r, phase)
  BY <1>3 DEF Sends, Ask
<1>5. Turns(s, view[s].form, phase, shown) /\ view[s].form \in Contents
  BY SetPhase DEF Ask
<1>6. Lawful(s, view[s].form, phase, shown)
  BY DEF Lawful
<1> HIDE DEF r
<1> QED
  BY <1>3, <1>4, <1>5, <1>6 DEF UserStep, Ask

LEMMA Editing ==
    ASSUME TypeOK, NEW s \in Surfaces, NEW f \in Contents, Edit(s, f)
    PROVE  UserStep(s)
<1>1. view[s] \in View /\ "form" \in Phases
  BY DEF TypeOK, Phases
<1>2. CASE SendEdit(s, f)
  BY <1>1, <1>2, Filling DEF SendEdit, At, Lawful
<1>3. CASE QuoteEdit(s, f)
  BY <1>1, <1>3, Filling DEF QuoteEdit, At, Lawful, Requoting
<1>4. CASE PlainEdit(s, f)
  <2>1. view[s].phase \in {"form", "sending"} /\ view[s].phase \in Phases /\ view[s].is # "send"
    BY <1>4 DEF PlainEdit, At, Direct, Phases
  <2>2. Lawful(s, f, view[s].phase, None) /\ Fill(s, f, view[s].phase)
    BY <1>4, <2>1 DEF PlainEdit, Lawful
  <2> QED
    BY <2>1, <2>2, Filling
<1> QED
  BY <1>2, <1>3, <1>4 DEF Edit

LEMMA Pressing ==
    ASSUME TypeOK, Reviewed, NEW s \in Surfaces, Press(s)
    PROVE  UserStep(s)
<1>0. /\ view[s] \in View /\ Phases = {"form", "review", "quoting", "quoted", "sending", "done"}
      /\ None \in Showing /\ view[s].shown \in Showing /\ view[s].form \in Contents
      /\ view[s].form \in Showing
  BY DEF TypeOK, View, Phases, Showing, Contents
<1>1. CASE Review(s)
  <2>1. Turns(s, view[s].form, "review", view[s].form)
    BY <1>0, <1>1, SetPhase DEF Review
  <2>2. Lawful(s, view[s].form, "review", view[s].form)
    BY <1>1 DEF Review, At, Lawful
  <2> QED
    BY <1>0, <1>1, <2>1, <2>2 DEF Review, UserStep
<1>2. CASE CancelReview(s)
  <2>1. Turns(s, view[s].form, "form", None)
    BY <1>0, <1>2, SetPhase DEF CancelReview
  <2>2. Lawful(s, view[s].form, "form", None)
    BY <1>2 DEF CancelReview, Sheet, At, Lawful
  <2> QED
    BY <1>0, <1>2, <2>1, <2>2 DEF CancelReview, UserStep
<1>3. CASE SendConfirm(s)
  BY <1>0, <1>3, Asking DEF SendConfirm, Sheet, At, Reviewed, Requoting
<1>4. CASE SwapQuote(s) \/ BridgeQuote(s) \/ BuyQuote(s) \/ SwapConfirm(s) \/ BridgeConfirm(s)
           \/ BuyConfirm(s)
  <2>1. view[s].is \in Requoting /\ view[s].is # "send"
    BY <1>4 DEF SwapQuote, BridgeQuote, BuyQuote, SwapConfirm, BridgeConfirm, BuyConfirm, At, Requoting
  <2>2. \/ Ask(s, "quote", "quoting", None) \/ Ask(s, "send", "sending", None)
        \/ Ask(s, "link", "sending", None)
    BY <1>4 DEF SwapQuote, BridgeQuote, BuyQuote, SwapConfirm, BridgeConfirm, BuyConfirm
  <2> QED
    BY <1>0, <2>1, <2>2, Asking
<1>5. CASE WithdrawQuote(s) \/ WithdrawConfirm(s) \/ LendConfirm(s) \/ SmartConfirm(s)
           \/ SparkConfirm(s) \/ PayInvoice(s) \/ MakeInvoice(s) \/ DepositAddress(s)
  <2>1. view[s].is # "send" /\ view[s].phase = "form"
    BY <1>5 DEF WithdrawQuote, WithdrawConfirm, LendConfirm, SmartConfirm, SparkConfirm,
                PayInvoice, MakeInvoice, DepositAddress, At
  <2>2. \E what \in {"quote", "send", "address"}, shown \in Showing : Ask(s, what, "sending", shown)
    BY <1>0, <1>5 DEF WithdrawQuote, WithdrawConfirm, LendConfirm, SmartConfirm, SparkConfirm,
                      PayInvoice, MakeInvoice, DepositAddress
  <2> QED
    BY <1>0, <2>1, <2>2, Asking
<1>6. CASE Again(s)
  <2> DEFINE form == IF view[s].is = "invoice" THEN view[s].form ELSE Empty
  <2>1. form \in Contents
    BY <1>0 DEF Contents
  <2> DEFINE v1 == [view EXCEPT ![s].phase = "form"]
             v2 == [v1 EXCEPT ![s].shown = None]
  <2>4. view \in [Surfaces -> View]
    BY DEF TypeOK
  <2>5. v1 \in [Surfaces -> View]
    BY <1>0, <2>4, SetOne
  <2>9. v1[s].form = view[s].form /\ v1[s].is = view[s].is
    BY <2>4 DEF View
  <2> HIDE DEF v1
  <2>6. v2 \in [Surfaces -> View]
    BY <1>0, <2>5, SetOne
  <2>10. v2[s].form = view[s].form /\ v2[s].is = view[s].is
    BY <2>5, <2>9 DEF View
  <2>7. view' = [v2 EXCEPT ![s].form = form]
    BY <1>6, <2>10 DEF Again, v1
  <2> HIDE DEF v2
  <2>8. view' \in [Surfaces -> View]
    BY <2>1, <2>6, <2>7, SetOne
  <2>2. Turns(s, form, "form", None)
    BY <1>0, <2>1, <2>4, <2>7, <2>8 DEF View, Turns, v2, v1
  <2>3. Lawful(s, form, "form", None)
    BY <1>6 DEF Again, At, Lawful
  <2> HIDE DEF form
  <2> QED
    BY <1>0, <1>6, <2>1, <2>2, <2>3 DEF Again, UserStep
<1> QED
  BY <1>1, <1>2, <1>3, <1>4, <1>5, <1>6 DEF Press

-----------------------------------------------------------------------------
(* What is sent was reviewed, and one at a time                              *)

\* A request of a surface that is there, by fields.
LEMMA Fields ==
    ASSUME TypeOK
    PROVE  /\ \A s \in Surfaces : view[s] \in View /\ view[s].mount \in Nat
           /\ \A r \in requests : /\ r \in Request /\ r.on \in Surfaces /\ r.mount \in Nat
                                /\ r.no \in Nos /\ r.is \in Views
BY DEF TypeOK, View, Request

LEMMA FormsUser ==
    ASSUME TypeOK, FormsInv, NEW s \in Surfaces, UserStep(s)
    PROVE  FormsInv'
<1>1. PICK form \in Contents, phase \in Phases, shown \in Showing :
          /\ Turns(s, form, phase, shown) /\ Lawful(s, form, phase, shown)
          /\ UNCHANGED <<requests, asked>> \/ \E r \in Request : Sends(s, r, phase)
  BY DEF UserStep
<1>2. /\ \A t \in Surfaces \ {s} : view'[t] = view[t]
      /\ view'[s].is = view[s].is /\ view'[s].mount = view[s].mount
      /\ view'[s].form = form /\ view'[s].phase = phase /\ view'[s].shown = shown
  BY <1>1 DEF Turns
<1>3. /\ view[s].is = "send" /\ phase \in {"review", "sending"} => shown = form
      /\ view[s].is \notin Requoting /\ view[s].phase = "sending" => phase = "sending"
  BY <1>1 DEF Lawful
<1>4. \A t \in Surfaces : At(t, {"send"}, {"review", "sending"})' => view'[t].shown = view'[t].form
  BY <1>2, <1>3 DEF FormsInv, Reviewed, At
<1>5. \A r \in requests :
          /\ r.mount <= view'[r.on].mount
          /\ r.mount = view'[r.on].mount =>
                 r.is = view'[r.on].is /\ (r.is \notin Requoting => view'[r.on].phase = "sending")
  BY <1>2, <1>3, Fields DEF FormsInv, Waiting
<1>6. CASE UNCHANGED requests
  BY <1>4, <1>5, <1>6 DEF FormsInv, Reviewed, Waiting, Single
<1>7. ASSUME NEW r \in Request, Sends(s, r, phase)
      PROVE  FormsInv'
  <2>1. /\ requests' = requests \cup {r} /\ r.on = s
        /\ r.is = view[s].is /\ r.mount = view[s].mount /\ r.mount \in Nat
        /\ r.is = "send" => r.what = "send" /\ r.form = r.shown
        /\ r.is \notin Requoting => view[s].phase # "sending" /\ phase = "sending"
    BY <1>7, Fields DEF Sends
  <2>2. \A q \in requests : ~(q.on = s /\ q.mount = r.mount /\ r.is \notin Requoting)
    BY <2>1 DEF FormsInv, Waiting
  <2>3. \A q \in requests : ~(q.on = s /\ q.mount = r.mount /\ q.is \notin Requoting)
    BY <2>1 DEF FormsInv, Waiting
  <2>4. Reviewed'
    BY <1>4, <2>1 DEF FormsInv, Reviewed
  <2>5. Waiting'
    BY <1>2, <1>5, <2>1 DEF Waiting
  <2>6. Single'
    BY <2>1, <2>2, <2>3 DEF FormsInv, Single
  <2> QED
    BY <2>4, <2>5, <2>6 DEF FormsInv
<1> QED
  BY <1>1, <1>6, <1>7

LEMMA FormsShow ==
    ASSUME TypeOK, FormsInv, NEW s \in Surfaces, NEW v \in Views, Show(s, v),
           requests' \subseteq requests
    PROVE  FormsInv'
<1>1. /\ \A t \in Surfaces \ {s} : view'[t] = view[t]
      /\ view'[s].mount = view[s].mount + 1 /\ view'[s].phase = "form"
  BY DEF Show, TypeOK, Mounted
<1>2. Reviewed'
  BY <1>1 DEF FormsInv, Reviewed, At
<1>3. Waiting'
  BY <1>1, Fields DEF FormsInv, Waiting
<1>4. Single'
  BY DEF FormsInv, Single
<1> QED
  BY <1>2, <1>3, <1>4 DEF FormsInv

\* The phase an answer leaves the view in.
LEMMA Answering ==
    ASSUME TypeOK, FormsInv, NEW r \in requests, Answer(r)
    PROVE  \E phase \in Phases, shown \in Showing :
               /\ Then(r, phase, shown)
               /\ r.is = "send" => phase \in {"review", "done"}
               /\ r.is = "send" /\ phase = "review" => shown = view[r.on].shown
<1>1. /\ Phases = {"form", "review", "quoting", "quoted", "sending", "done"}
      /\ None \in Showing /\ r.form \in Showing /\ view[r.on].shown \in Showing
  BY Fields DEF Phases, Showing, Request, View
<1>2. r.is = "send" => r.what = "send"
  BY DEF FormsInv, Reviewed
<1>3. CASE Quoted(r)
  BY <1>1, <1>2, <1>3 DEF Quoted
<1>4. CASE Sent(r)
  BY <1>1, <1>4 DEF Sent
<1>5. CASE Opened(r)
  BY <1>1, <1>2, <1>5 DEF Opened
<1>6. CASE Refused(r)
  BY <1>1, <1>6 DEF Refused
<1> QED
  BY <1>3, <1>4, <1>5, <1>6 DEF Answer

LEMMA FormsAnswer ==
    ASSUME TypeOK, FormsInv, NEW r \in requests, Answer(r)
    PROVE  FormsInv'
<1>1. PICK phase \in Phases, shown \in Showing :
          /\ Then(r, phase, shown)
          /\ r.is = "send" => phase \in {"review", "done"}
          /\ r.is = "send" /\ phase = "review" => shown = view[r.on].shown
  BY Answering
<1>2. requests' = requests \ {r} /\ r.on \in Surfaces
  BY Fields DEF Answer
<1>3. Single'
  BY <1>2 DEF FormsInv, Single
<1>4. CASE view[r.on].mount # r.mount
  <2>1. view' = view
    BY <1>1, <1>4 DEF Then
  <2> QED
    BY <1>2, <1>3, <2>1 DEF FormsInv, Reviewed, Waiting, At
<1>5. CASE view[r.on].mount = r.mount
  <2>1. Turns(r.on, view[r.on].form, phase, shown)
    BY <1>1, <1>2, <1>5, SetPhase DEF Then
  <2>2. /\ \A t \in Surfaces \ {r.on} : view'[t] = view[t]
        /\ view'[r.on].is = view[r.on].is /\ view'[r.on].mount = view[r.on].mount
        /\ view'[r.on].form = view[r.on].form /\ view'[r.on].phase = phase
        /\ view'[r.on].shown = shown
    BY <2>1 DEF Turns
  <2>3. r.is = view[r.on].is /\ (r.is \notin Requoting => view[r.on].phase = "sending")
    BY <1>5 DEF FormsInv, Waiting
  <2>4. Reviewed'
    BY <1>1, <1>2, <2>2, <2>3 DEF FormsInv, Reviewed, At, Requoting
  <2>5. Waiting'
    <3>1. ASSUME NEW q \in requests', q.on = r.on, q.mount = r.mount
          PROVE  q.is = r.is /\ q.is \in Requoting
      BY <1>2, <1>5, <2>3, <3>1 DEF FormsInv, Single, Waiting
    <3> QED
      BY <1>2, <1>5, <2>2, <2>3, <3>1, Fields DEF FormsInv, Waiting
  <2> QED
    BY <1>3, <2>4, <2>5 DEF FormsInv
<1> QED
  BY <1>4, <1>5

\* The activity and what it polls leave every form alone.
LEMMA FormsElse ==
    ASSUME TypeOK, FormsInv, requests' = requests,
           \A s \in Surfaces : /\ view'[s].is = view[s].is /\ view'[s].mount = view[s].mount
                              /\ view'[s].form = view[s].form /\ view'[s].phase = view[s].phase
                              /\ view'[s].shown = view[s].shown
    PROVE  FormsInv'
BY Fields DEF FormsInv, Reviewed, Waiting, Single, At

-----------------------------------------------------------------------------
(* The history                                                               *)

LEMMA Added ==
    ASSUME TypeOK, NEW r \in requests, addTransaction(r)
    PROVE  /\ history' \in Seq(Tx) /\ DOMAIN history' = 1..Len(history')
           /\ Len(history') = IF Len(history) < MaxRecords THEN Len(history) + 1 ELSE MaxRecords
           /\ history'[1] = [no |-> r.no, status |-> "submitted"]
           /\ \A i \in DOMAIN history' : i # 1 =>
                  i - 1 \in DOMAIN history /\ history'[i] = history[i - 1]
<1> DEFINE x == [no |-> r.no, status |-> "submitted"]
           h == <<x>> \o history
           m == IF Len(history) < MaxRecords THEN Len(history) + 1 ELSE MaxRecords
<1>1. x \in Tx
  BY Fields DEF Tx
<1>2. history \in Seq(Tx) /\ Len(history) \in Nat /\ Len(history) <= MaxRecords
      /\ DOMAIN history = 1..Len(history)
  BY DEF TypeOK, Tx
<1> HIDE DEF x
<1>3. <<x>> \in Seq(Tx) /\ Len(<<x>>) = 1 /\ <<x>>[1] = x
  BY <1>1
<1>4. /\ h \in Seq(Tx) /\ Len(h) = Len(history) + 1
      /\ \A i \in 1..Len(history) + 1 : h[i] = IF i <= 1 THEN <<x>>[i] ELSE history[i - 1]
  BY <1>2, <1>3, ConcatProperties
<1>5. m \in Nat \ {0} /\ m <= Len(history) + 1 /\ m <= MaxRecords
  BY <1>2, Bounds
<1>6. history' = SubSeq(h, 1, m)
  BY DEF addTransaction, x
<1> HIDE DEF h, m
<1>7. \A i \in 1..m : i \in 1..Len(h) /\ h[i] \in Tx
  BY <1>2, <1>4, <1>5, ElementOfSeq
<1>8. /\ SubSeq(h, 1, m) \in Seq(Tx) /\ Len(SubSeq(h, 1, m)) = m
      /\ \A i \in 1..m : SubSeq(h, 1, m)[i] = h[i]
  BY <1>5, <1>7, SubSeqProperties
<1>9. DOMAIN history' = 1..m /\ Len(history') = m
  BY <1>6, <1>8
<1>10. history'[1] = x
  BY <1>3, <1>4, <1>5, <1>6, <1>8, <1>2
<1>11. ASSUME NEW i \in 1..m, i # 1
       PROVE  i - 1 \in DOMAIN history /\ history'[i] = history[i - 1]
  <2>1. i \in Nat /\ i > 1 /\ i <= Len(history) + 1
    BY <1>2, <1>5, <1>11
  <2>2. i - 1 \in 1..Len(history) /\ i \in 1..Len(history) + 1 /\ ~(i <= 1)
    BY <1>2, <2>1
  <2> QED
    BY <1>2, <1>4, <1>6, <1>8, <2>2
<1> QED
  BY <1>6, <1>8, <1>9, <1>10, <1>11 DEF x, m

LEMMA Prepended ==
    ASSUME answered \in Seq(Nos), NEW n \in Nos, answered' = <<n>> \o answered
    PROVE  /\ answered' \in Seq(Nos) /\ Len(answered') = Len(answered) + 1
           /\ DOMAIN answered' = 1..Len(answered) + 1 /\ DOMAIN answered = 1..Len(answered)
           /\ Len(answered) \in Nat
           /\ answered'[1] = n
           /\ \A i \in DOMAIN answered' : i # 1 =>
                  i - 1 \in DOMAIN answered /\ answered'[i] = answered[i - 1]
<1>1. <<n>> \in Seq(Nos) /\ Len(<<n>>) = 1 /\ <<n>>[1] = n
  OBVIOUS
<1>2. Len(answered) \in Nat /\ DOMAIN answered = 1..Len(answered)
  OBVIOUS
<1>3. /\ answered' \in Seq(Nos) /\ Len(answered') = Len(answered) + 1
      /\ \A i \in 1..Len(answered) + 1 :
             answered'[i] = IF i <= 1 THEN <<n>>[i] ELSE answered[i - 1]
  BY <1>1, ConcatProperties
<1>4. DOMAIN answered' = 1..Len(answered) + 1
  BY <1>3
<1>5. ASSUME NEW i \in 1..Len(answered) + 1, i # 1
      PROVE  i - 1 \in 1..Len(answered) /\ ~(i <= 1)
  BY <1>2, <1>5
<1> QED
  BY <1>1, <1>2, <1>3, <1>4, <1>5

LEMMA Updated ==
    ASSUME TypeOK, NEW n, NEW status \in Statuses, updateTransactionStatus(n, status)
    PROVE  /\ history' \in Seq(Tx) /\ Len(history') = Len(history)
           /\ DOMAIN history' = DOMAIN history
           /\ \A i \in DOMAIN history :
                  /\ history'[i].no = history[i].no
                  /\ history'[i].status = IF history[i].no = n THEN status ELSE history[i].status
<1> DEFINE e(i) == IF history[i].no = n THEN [history[i] EXCEPT !.status = status] ELSE history[i]
<1>1. history \in Seq(Tx) /\ Len(history) \in Nat /\ DOMAIN history = 1..Len(history)
  BY DEF TypeOK, Tx
<1>2. \A i \in 1..Len(history) : history[i] \in Tx
  BY <1>1, ElementOfSeq
<1>3. \A i \in 1..Len(history) : e(i) \in Tx
  BY <1>2 DEF Tx
<1>4. history' = [i \in 1..Len(history) |-> e(i)]
  BY <1>1 DEF updateTransactionStatus
<1>5. history' \in Seq(Tx)
  <2> HIDE DEF e
  <2>1. [i \in 1..Len(history) |-> e(i)] \in Seq(Tx)
    BY <1>1, <1>3, IsASeq
  <2> QED
    BY <1>4, <2>1
<1>6. Len(history') = Len(history) /\ DOMAIN history' = DOMAIN history
  BY <1>1, <1>4, <1>5
<1> QED
  BY <1>1, <1>2, <1>4, <1>5, <1>6 DEF Tx

-----------------------------------------------------------------------------
(* The records and what is learnt of them                                    *)

Safe == TypeOK /\ RecordsInv

\* The types of what one step leaves alone, and the statuses the invariant gives.
LEMMA StatusesTyped ==
    ASSUME Recording
    PROVE  \A i \in DOMAIN history : history[i].status \in {"submitted", truth[history[i].no]}
BY DEF Recording

LEMMA RecordsUser ==
    ASSUME Safe, NEW s \in Surfaces, UserStep(s)
    PROVE  Safe'
<1>1. PICK form \in Contents, phase \in Phases, shown \in Showing :
          /\ Turns(s, form, phase, shown)
          /\ UNCHANGED <<requests, asked>> \/ \E r \in Request : Sends(s, r, phase)
  BY DEF UserStep
<1>2. /\ view' \in [Surfaces -> View]
      /\ \A t \in Surfaces : view'[t].txs = view[t].txs /\ view'[t].mount = view[t].mount
  BY <1>1 DEF Turns
<1>3. UNCHANGED <<truth, history, answered, polls>>
  BY DEF UserStep, records
<1>4. /\ requests' \subseteq Request /\ asked' \in 0..Asks
      /\ \A r \in requests' : r.no <= asked' /\ \A q \in requests' : q.no = r.no => q = r
      /\ \A i \in DOMAIN answered :
             answered[i] <= asked' /\ \A r \in requests' : r.no # answered[i]
  <2>1. CASE UNCHANGED <<requests, asked>>
    BY <2>1 DEF Safe, TypeOK, RecordsInv, Distinct
  <2>2. ASSUME NEW r \in Request, Sends(s, r, phase)
        PROVE  /\ requests' \subseteq Request /\ asked' \in 0..Asks
               /\ \A q \in requests' : q.no <= asked' /\ \A p \in requests' : p.no = q.no => p = q
               /\ \A i \in DOMAIN answered :
                      answered[i] <= asked' /\ \A q \in requests' : q.no # answered[i]
    <3>1. /\ requests' = requests \cup {r} /\ asked' = asked + 1 /\ r.no = asked + 1 /\ asked < Asks
          /\ asked \in 0..Asks /\ requests \subseteq Request
      BY <2>2 DEF Sends, Safe, TypeOK
    <3>2. asked + 1 \in 0..Asks /\ asked \in Nat
      BY <3>1, Bounds
    <3>3. \A q \in requests : q.no \in Nat /\ q.no <= asked
      BY <3>1 DEF Request, Nos, Safe, RecordsInv, Distinct
    <3>4. \A i \in DOMAIN answered : answered[i] \in Nat /\ answered[i] <= asked
      <4>1. answered \in Seq(Nos)
        BY DEF Safe, TypeOK
      <4>2. \A i \in DOMAIN answered : answered[i] \in Nos
        BY <4>1
      <4> QED
        BY <4>2 DEF Safe, RecordsInv, Distinct, Nos
    <3>5. \A q \in requests : q.no # r.no
      BY <3>1, <3>2, <3>3
    <3>6. \A i \in DOMAIN answered : answered[i] # r.no /\ answered[i] <= asked'
      BY <3>1, <3>2, <3>4
    <3>7. \A q \in requests' : q.no <= asked'
      BY <3>1, <3>2, <3>3
    <3>8. \A q \in requests', p \in requests' : q.no = p.no => q = p
      BY <3>1, <3>5 DEF Safe, RecordsInv, Distinct
    <3>9. \A i \in DOMAIN answered : \A q \in requests' : q.no # answered[i]
      BY <3>1, <3>6 DEF Safe, RecordsInv, Distinct
    <3> QED
      BY <3>1, <3>2, <3>6, <3>7, <3>8, <3>9
  <2> QED
    BY <1>1, <2>1, <2>2
<1>5. Distinct'
  BY <1>3, <1>4 DEF Distinct, Safe, RecordsInv
<1>6. HistoryIsNewest' /\ Recording' /\ Telling' /\ Listing'
  BY <1>2, <1>3 DEF Safe, RecordsInv, HistoryIsNewest, Recording, Telling, Listing, Begun
<1>7. TypeOK'
  BY <1>2, <1>3, <1>4 DEF Safe, TypeOK
<1> QED
  BY <1>5, <1>6, <1>7 DEF Safe, RecordsInv

LEMMA RecordsShow ==
    ASSUME Safe, NEW s \in Surfaces, NEW v \in Views, Show(s, v), view[s].mount < Mounts[s],
           requests' \subseteq requests, UNCHANGED <<asked, truth, records>>
    PROVE  Safe'
<1>0. UNCHANGED <<history, answered>>
  BY DEF records
<1>1. Mounted(v, view[s].mount + 1) \in View
  BY <1>0, Fields DEF Safe, TypeOK, Mounted, View
<1>2. view \in [Surfaces -> View] /\ polls \in [Surfaces -> [Nos -> Seq(Statuses \cup {None})]]
  BY DEF Safe, TypeOK
<1>3. view' = [view EXCEPT ![s] = Mounted(v, view[s].mount + 1)]
  BY <1>2 DEF Show
<1>4. view' \in [Surfaces -> View]
  BY <1>1, <1>2, <1>3
<1>5. /\ \A t \in Surfaces \ {s} : view'[t] = view[t]
      /\ view'[s].mount = view[s].mount + 1 /\ view'[s].txs \in {history, <<>>}
  BY <1>2, <1>3 DEF Mounted
<1>6. view[s].mount + 1 <= Mounts[s]
  BY Bounds, Fields DEF Safe
<1>7. NoPolls \in [Nos -> Seq(Statuses \cup {None})]
  BY DEF NoPolls
<1>8. /\ polls' \in [Surfaces -> [Nos -> Seq(Statuses \cup {None})]]
      /\ \A t \in Surfaces \ {s} : polls'[t] = polls[t]
      /\ polls'[s] = NoPolls
  BY <1>2, <1>7 DEF Show
<1>9. Telling'
  <2>1. \A n \in Nos : DOMAIN polls'[s][n] = {}
    BY <1>8 DEF NoPolls
  <2>2. ASSUME NEW t \in Surfaces, NEW n \in Nos, NEW i \in DOMAIN polls'[t][n]
        PROVE  Begun(n)' /\ (polls'[t][n][i] \in Final => polls'[t][n][i] = truth'[n])
    <3>1. t # s /\ polls'[t] = polls[t]
      BY <1>8, <2>1
    <3> QED
      BY <3>1 DEF Safe, RecordsInv, Telling, Begun
  <2> QED
    BY <2>2 DEF Telling
<1>10. Listing'
  BY <1>0, <1>5 DEF Safe, RecordsInv, Listing, Recording, Begun
<1>11. HistoryIsNewest' /\ Distinct' /\ Recording'
  BY <1>0 DEF Safe, RecordsInv, HistoryIsNewest, Distinct, Recording, Begun
<1>12. TypeOK'
  BY <1>0, <1>4, <1>5, <1>6, <1>8 DEF Safe, TypeOK
<1> QED
  BY <1>9, <1>10, <1>11, <1>12 DEF Safe, RecordsInv

LEMMA RecordsAnswer ==
    ASSUME Safe, FormsInv, NEW r \in requests, Answer(r)
    PROVE  Safe'
<1>1. PICK phase \in Phases, shown \in Showing : Then(r, phase, shown)
  BY Answering DEF Safe
<1>2. /\ requests' = requests \ {r} /\ UNCHANGED <<asked, truth, polls>>
      /\ r \in Request /\ r.on \in Surfaces /\ r.no \in Nos
  BY Fields DEF Answer, Safe
<1>3. /\ view' \in [Surfaces -> View]
      /\ \A t \in Surfaces : view'[t].txs = view[t].txs /\ view'[t].mount = view[t].mount
  <2>1. CASE view' = view
    BY <2>1 DEF Safe, TypeOK
  <2>2. CASE view' # view
    BY <1>1, <1>2, <2>2, SetPhase DEF Then, Safe, Turns
  <2> QED
    BY <2>1, <2>2
<1>4. Telling' /\ Listing'
  BY <1>2, <1>3 DEF Safe, RecordsInv, Telling, Listing, Begun
<1>5. /\ requests' \subseteq Request
      /\ \A q \in requests' : q.no # r.no /\ q.no <= asked
      /\ \A q \in requests' : \A p \in requests' : p.no = q.no => p = q
      /\ r.no <= asked /\ \A i \in DOMAIN answered : answered[i] # r.no
  BY <1>2 DEF Safe, TypeOK, RecordsInv, Distinct
<1>6. CASE UNCHANGED <<history, answered>>
  <2>1. HistoryIsNewest' /\ Recording'
    BY <1>2, <1>6 DEF Safe, RecordsInv, HistoryIsNewest, Recording, Begun
  <2>2. Distinct'
    BY <1>2, <1>5, <1>6 DEF Safe, RecordsInv, Distinct
  <2>3. TypeOK'
    BY <1>2, <1>3, <1>5, <1>6 DEF Safe, TypeOK
  <2> QED
    BY <1>4, <2>1, <2>2, <2>3 DEF Safe, RecordsInv
<1>7. CASE Begun(r.no) /\ addTransaction(r) /\ answered' = <<r.no>> \o answered
  <2>1. /\ history' \in Seq(Tx) /\ DOMAIN history' = 1..Len(history')
        /\ Len(history') = IF Len(history) < MaxRecords THEN Len(history) + 1 ELSE MaxRecords
        /\ history'[1] = [no |-> r.no, status |-> "submitted"]
        /\ \A i \in DOMAIN history' : i # 1 =>
               i - 1 \in DOMAIN history /\ history'[i] = history[i - 1]
    BY <1>7, Added DEF Safe
  <2>2. answered \in Seq(Nos) /\ Len(history) \in Nat /\ Len(history) <= MaxRecords
    BY DEF Safe, TypeOK
  <2>3. /\ answered' \in Seq(Nos) /\ Len(answered') = Len(answered) + 1
        /\ DOMAIN answered' = 1..Len(answered) + 1 /\ DOMAIN answered = 1..Len(answered)
        /\ Len(answered) \in Nat
        /\ answered'[1] = r.no
        /\ \A i \in DOMAIN answered' : i # 1 =>
               i - 1 \in DOMAIN answered /\ answered'[i] = answered[i - 1]
    BY <1>2, <1>7, <2>2, Prepended
  <2>4. HistoryIsNewest'
    <3>1. /\ Len(history) = IF Len(answered) < MaxRecords THEN Len(answered) ELSE MaxRecords
          /\ \A i \in DOMAIN history : history[i].no = answered[i]
      BY DEF Safe, RecordsInv, HistoryIsNewest
    <3>2. Len(history') = IF Len(answered') < MaxRecords THEN Len(answered') ELSE MaxRecords
      BY <2>1, <2>2, <2>3, <3>1, Bounds
    <3>3. ASSUME NEW i \in DOMAIN history'
          PROVE  history'[i].no = answered'[i]
      <4>1. CASE i = 1
        BY <4>1, <2>1, <2>3
      <4>2. CASE i # 1
        <5>1. i \in Nat /\ i <= Len(history') /\ i >= 1 /\ Len(history') <= Len(answered) + 1
          BY <2>1, <2>2, <2>3, <3>1, Bounds
        <5>2. i \in DOMAIN answered'
          BY <5>1, <2>3
        <5> QED
          BY <4>2, <5>2, <2>1, <2>3, <3>1
      <4> QED
        BY <4>1, <4>2
    <3> QED
      BY <3>2, <3>3 DEF HistoryIsNewest
  <2>5. Recording'
    <3>1. ASSUME NEW i \in DOMAIN history'
          PROVE  /\ Begun(history'[i].no)
                 /\ history'[i].status \in {"submitted"} \cup ({truth[history'[i].no]} \cap Final)
      <4>1. CASE i = 1
        BY <4>1, <1>7, <2>1
      <4>2. CASE i # 1
        BY <4>2, <2>1 DEF Safe, RecordsInv, Recording
      <4> QED
        BY <4>1, <4>2
    <3> QED
      BY <1>2, <3>1 DEF Recording, Begun
  <2>6. Distinct'
    <3>1. ASSUME NEW i \in DOMAIN answered'
          PROVE  /\ answered'[i] <= asked
                 /\ \A q \in requests' : q.no # answered'[i]
                 /\ \A j \in DOMAIN answered' : answered'[j] = answered'[i] => j = i
      <4>1. CASE i = 1
        BY <4>1, <1>5, <2>3
      <4>2. CASE i # 1
        <5>1. i - 1 \in DOMAIN answered /\ answered'[i] = answered[i - 1]
          BY <4>2, <2>3
        <5>2. answered'[i] <= asked /\ \A q \in requests' : q.no # answered'[i]
          BY <1>2, <5>1 DEF Safe, RecordsInv, Distinct
        <5>3. ASSUME NEW j \in DOMAIN answered', answered'[j] = answered'[i]
              PROVE  j = i
          <6>1. j # 1
            BY <1>5, <2>3, <5>1, <5>3
          <6>2. j - 1 \in DOMAIN answered /\ answered'[j] = answered[j - 1]
            BY <6>1, <2>3
          <6>3. j - 1 = i - 1
            BY <5>1, <5>3, <6>2 DEF Safe, RecordsInv, Distinct
          <6> QED
            BY <6>3, <2>3
        <5> QED
          BY <5>2, <5>3
      <4> QED
        BY <4>1, <4>2
    <3> QED
      BY <1>2, <1>5, <3>1 DEF Distinct
  <2>7. TypeOK'
    <3>1. Len(history') <= MaxRecords
      BY <2>1, <2>2, Bounds
    <3>2. \A i \in DOMAIN history' : history'[i].status \in {"submitted", truth'[history'[i].no]}
      BY <2>5 DEF Recording
    <3> QED
      BY <1>2, <1>3, <1>5, <2>1, <2>3, <3>1, <3>2 DEF Safe, TypeOK, Tx
  <2> QED
    BY <1>4, <2>4, <2>5, <2>6, <2>7 DEF Safe, RecordsInv
<1>8. UNCHANGED <<history, answered>> \/ (Begun(r.no) /\ addTransaction(r) /\ answered' = <<r.no>> \o answered)
  BY DEF Answer, Quoted, Sent, Opened, Refused, Keep, records, Begun
<1> QED
  BY <1>6, <1>7, <1>8

\* A transaction is broadcast, or its outcome is settled.
LEMMA RecordsTruth ==
    ASSUME Safe, NEW n \in Nos, NEW t \in Statuses, truth[n] \notin Final, truth[n] = "none" \/ t \in Final,
           truth' = [truth EXCEPT ![n] = t], UNCHANGED <<view, requests, asked, records, polls>>
    PROVE  Safe'
<1>1. UNCHANGED <<view, requests, asked, history, answered, polls>>
  BY DEF records
<1>2. /\ truth' \in [Nos -> Statuses \cup {"none"}] /\ truth'[n] = t /\ t # "none"
      /\ \A m \in Nos : m # n => truth'[m] = truth[m]
  BY DEF Safe, TypeOK, Statuses
<1>3. \A m \in Nos : Begun(m) => Begun(m)'
  BY <1>2 DEF Begun
<1>4. \A i \in DOMAIN history : history[i].no \in Nos
  <2>1. history \in Seq(Tx)
    BY DEF Safe, TypeOK, Tx
  <2>2. \A i \in DOMAIN history : history[i] \in Tx
    BY <2>1
  <2> QED
    BY <2>2 DEF Tx
<1>5. \A s \in Surfaces : \A i \in DOMAIN view[s].txs : view[s].txs[i].no \in Nos
  <2>1. \A s \in Surfaces : view[s].txs \in Seq(Tx)
    BY DEF Safe, TypeOK, View, Tx
  <2>2. \A s \in Surfaces : \A i \in DOMAIN view[s].txs : view[s].txs[i] \in Tx
    BY <2>1
  <2> QED
    BY <2>2 DEF Tx
<1>6. Recording'
  <2>1. ASSUME NEW i \in DOMAIN history
        PROVE  /\ truth'[history[i].no] # "none"
               /\ history[i].status \in {"submitted"} \cup ({truth'[history[i].no]} \cap Final)
    <3>1. /\ Begun(history[i].no) /\ history[i].no \in Nos
          /\ history[i].status \in {"submitted"} \cup ({truth[history[i].no]} \cap Final)
      BY <1>4 DEF Safe, RecordsInv, Recording
    <3>2. CASE history[i].no = n
      BY <1>2, <3>1, <3>2 DEF Begun
    <3>3. CASE history[i].no # n
      BY <1>2, <3>1, <3>3 DEF Begun
    <3> QED
      BY <3>2, <3>3
  <2> QED
    BY <1>1, <2>1 DEF Recording, Begun
<1>7. Telling'
  <2>1. ASSUME NEW s \in Surfaces, NEW m \in Nos, NEW i \in DOMAIN polls[s][m]
        PROVE  Begun(m)' /\ (polls[s][m][i] \in Final => polls[s][m][i] = truth'[m])
    <3>1. Begun(m) /\ (polls[s][m][i] \in Final => polls[s][m][i] = truth[m])
      BY DEF Safe, RecordsInv, Telling
    <3>2. CASE m = n
      BY <1>2, <3>1, <3>2 DEF Begun
    <3>3. CASE m # n
      BY <1>2, <3>1, <3>3 DEF Begun
    <3> QED
      BY <3>2, <3>3
  <2> QED
    BY <1>1, <2>1 DEF Telling, Begun
<1>8. Listing'
  <2>1. \A s \in Surfaces : \A i \in DOMAIN view[s].txs : Begun(view[s].txs[i].no)'
    BY <1>2, <1>5 DEF Safe, RecordsInv, Listing, Begun
  <2> QED
    BY <1>1, <2>1 DEF Listing, Begun
<1>9. HistoryIsNewest' /\ Distinct'
  BY <1>1 DEF Safe, RecordsInv, HistoryIsNewest, Distinct
<1>10. TypeOK'
  <2>1. \A i \in DOMAIN history' : history'[i].status \in {"submitted", truth'[history'[i].no]}
    BY <1>6 DEF Recording
  <2> QED
    BY <1>1, <1>2, <2>1 DEF Safe, TypeOK
<1> QED
  BY <1>6, <1>7, <1>8, <1>9, <1>10 DEF Safe, RecordsInv

LEMMA RecordsFocus ==
    ASSUME Safe, NEW s \in Surfaces, Focus(s)
    PROVE  Safe'
<1>1. UNCHANGED <<requests, asked, truth, history, answered>>
  BY DEF Focus, records
<1>2. view \in [Surfaces -> View] /\ polls \in [Surfaces -> [Nos -> Seq(Statuses \cup {None})]]
      /\ history \in Seq([no : Nos, status : Statuses \cup {"submitted"}])
  BY DEF Safe, TypeOK
<1>3. view' = [view EXCEPT ![s].txs = history]
  BY DEF Focus
<1>4. /\ \A t \in Surfaces \ {s} : view'[t] = view[t]
      /\ view'[s].mount = view[s].mount /\ view'[s].txs = history
  BY <1>2, <1>3 DEF View
<1>5. [view[s] EXCEPT !.txs = history] \in View
  BY <1>2 DEF View
<1>6. view' \in [Surfaces -> View]
  BY <1>2, <1>3, <1>5
<1>7. NoPolls \in [Nos -> Seq(Statuses \cup {None})] /\ \A n \in Nos : DOMAIN NoPolls[n] = {}
  BY DEF NoPolls
<1>8. polls' = polls \/ polls' = [polls EXCEPT ![s] = NoPolls]
  BY DEF Focus
<1>9. /\ polls' \in [Surfaces -> [Nos -> Seq(Statuses \cup {None})]]
      /\ \A t \in Surfaces : polls'[t] = polls[t] \/ polls'[t] = NoPolls
  BY <1>2, <1>7, <1>8
<1>10. Telling'
  <2>1. ASSUME NEW t \in Surfaces, NEW n \in Nos, NEW i \in DOMAIN polls'[t][n]
        PROVE  Begun(n)' /\ (polls'[t][n][i] \in Final => polls'[t][n][i] = truth'[n])
    <3>1. polls'[t] = polls[t]
      BY <1>7, <1>9
    <3> QED
      BY <1>1, <3>1 DEF Safe, RecordsInv, Telling, Begun
  <2> QED
    BY <2>1 DEF Telling
<1>11. Listing'
  BY <1>1, <1>4 DEF Safe, RecordsInv, Listing, Recording, Begun
<1>12. HistoryIsNewest' /\ Distinct' /\ Recording'
  BY <1>1 DEF Safe, RecordsInv, HistoryIsNewest, Distinct, Recording, Begun
<1>13. TypeOK'
  BY <1>1, <1>4, <1>6, <1>9 DEF Safe, TypeOK
<1> QED
  BY <1>10, <1>11, <1>12, <1>13 DEF Safe, RecordsInv

\* One list of polls changes, to answers that tell the truth.
LEMMA PollsStep ==
    ASSUME Safe, NEW s \in Surfaces, NEW n \in Nos, NEW q \in Seq(Statuses \cup {None}),
           polls' = [polls EXCEPT ![s][n] = q],
           \A i \in DOMAIN q : Begun(n) /\ (q[i] \in Final => q[i] = truth[n]),
           UNCHANGED truth
    PROVE  Telling' /\ polls' \in [Surfaces -> [Nos -> Seq(Statuses \cup {None})]]
<1>1. polls \in [Surfaces -> [Nos -> Seq(Statuses \cup {None})]]
  BY DEF Safe, TypeOK
<1>2. polls' \in [Surfaces -> [Nos -> Seq(Statuses \cup {None})]]
  BY <1>1
<1>3. /\ polls'[s][n] = q
      /\ \A t \in Surfaces, m \in Nos : <<t, m>> # <<s, n>> => polls'[t][m] = polls[t][m]
  BY <1>1
<1>4. ASSUME NEW t \in Surfaces, NEW m \in Nos, NEW i \in DOMAIN polls'[t][m]
      PROVE  Begun(m)' /\ (polls'[t][m][i] \in Final => polls'[t][m][i] = truth'[m])
  <2>1. CASE <<t, m>> = <<s, n>>
    BY <1>3, <1>4, <2>1 DEF Begun
  <2>2. CASE <<t, m>> # <<s, n>>
    BY <1>3, <1>4, <2>2 DEF Begun, Safe, RecordsInv, Telling
  <2> QED
    BY <2>1, <2>2
<1> QED
  BY <1>2, <1>4 DEF Telling

PollLists == [Surfaces -> [Nos -> Seq(Statuses \cup {None})]]

LEMMA PollsAre ==
    ASSUME Safe, NEW s \in Surfaces, NEW n \in Nos
    PROVE  /\ polls \in PollLists /\ polls[s][n] \in Seq(Statuses \cup {None})
           /\ DOMAIN polls[s][n] = 1..Len(polls[s][n])
           /\ \A i \in DOMAIN polls[s][n] :
                  /\ polls[s][n][i] \in Statuses \cup {None}
                  /\ Begun(n) /\ (polls[s][n][i] \in Final => polls[s][n][i] = truth[n])
           /\ Begun(n) => truth[n] \in Statuses
<1>1. polls \in PollLists /\ truth \in [Nos -> Statuses \cup {"none"}]
  BY DEF Safe, TypeOK, PollLists
<1>2. polls[s][n] \in Seq(Statuses \cup {None})
  BY <1>1 DEF PollLists
<1>3. DOMAIN polls[s][n] = 1..Len(polls[s][n])
  BY <1>2
<1>4. \A i \in DOMAIN polls[s][n] : polls[s][n][i] \in Statuses \cup {None}
  BY <1>2
<1> QED
  BY <1>1, <1>2, <1>3, <1>4 DEF Safe, RecordsInv, Telling, Begun

\* Only the polls change.
LEMMA PollsOnly ==
    ASSUME Safe, Telling', polls' \in PollLists, UNCHANGED <<view, requests, asked, truth, records>>
    PROVE  Safe'
<1>1. UNCHANGED <<view, requests, asked, truth, history, answered>>
  BY DEF records
<1>2. HistoryIsNewest' /\ Distinct' /\ Recording' /\ Listing'
  BY <1>1 DEF Safe, RecordsInv, HistoryIsNewest, Distinct, Recording, Listing, Begun
<1>3. TypeOK'
  BY <1>1 DEF Safe, TypeOK, PollLists
<1> QED
  BY <1>2, <1>3 DEF Safe, RecordsInv

LEMMA RecordsPoll ==
    ASSUME Safe, NEW s \in Surfaces, NEW n \in Nos, Poll(s, n) \/ PollRead(s, n) \/ PollFails(s, n)
    PROVE  Safe'
<1>1. UNCHANGED <<view, requests, asked, truth, records>>
  BY DEF Poll, PollRead, PollFails
<1> DEFINE p == polls[s][n]
<1>2. /\ polls \in PollLists /\ p \in Seq(Statuses \cup {None})
      /\ \A i \in DOMAIN p : Begun(n) /\ (p[i] \in Final => p[i] = truth[n])
      /\ Begun(n) => truth[n] \in Statuses
      /\ DOMAIN p = 1..Len(p)
  BY PollsAre
<1> SUFFICES \E q \in Seq(Statuses \cup {None}) :
                 /\ polls' = [polls EXCEPT ![s][n] = q]
                 /\ \A i \in DOMAIN q : Begun(n) /\ (q[i] \in Final => q[i] = truth[n])
  BY <1>1, PollsStep, PollsOnly DEF PollLists
<1> HIDE DEF p
<1>0. None \notin Final
  BY FormsAssumption DEF FormsAssumption, Statuses, Final
<1>3. CASE Poll(s, n)
  <2> DEFINE q == Append(p, None)
  <2>1. /\ q \in Seq(Statuses \cup {None}) /\ DOMAIN q = 1..Len(p) + 1
        /\ q[Len(p) + 1] = None /\ \A i \in 1..Len(p) : q[i] = p[i]
    BY <1>2, AppendProperties
  <2>2. Begun(n)
    BY <1>3 DEF Poll, Target, Safe, RecordsInv, Listing
  <2>3. polls' = [polls EXCEPT ![s][n] = q]
    BY <1>3, <1>2 DEF Poll, p, PollLists
  <2> HIDE DEF q
  <2>4. \A i \in DOMAIN q : q[i] \in Final => q[i] = truth[n]
    BY <1>0, <1>2, <2>1
  <2> QED
    BY <2>1, <2>2, <2>3, <2>4
<1>4. CASE PollRead(s, n)
  <2>1. PICK i \in DOMAIN p : polls' = [polls EXCEPT ![s][n][i] = truth[n]]
    BY <1>4 DEF PollRead, p
  <2> DEFINE q == [p EXCEPT ![i] = truth[n]]
  <2>2. /\ Begun(n) /\ truth[n] \in Statuses \cup {None} /\ i \in 1..Len(p)
    BY <1>2
  <2>3. /\ q \in Seq(Statuses \cup {None}) /\ DOMAIN q = DOMAIN p
        /\ \A k \in DOMAIN p : q[k] = IF k = i THEN truth[n] ELSE p[k]
    BY <1>2, <2>2, ExceptSeq
  <2>4. polls' = [polls EXCEPT ![s][n] = q]
    BY <1>2, <2>1 DEF p, PollLists
  <2> HIDE DEF q
  <2>5. \A k \in DOMAIN q : q[k] \in Final => q[k] = truth[n]
    BY <1>2, <2>3
  <2> QED
    BY <2>2, <2>3, <2>4, <2>5
<1>5. CASE PollFails(s, n)
  <2>1. PICK i \in DOMAIN p : polls' = [polls EXCEPT ![s][n] = RemoveAt(polls[s][n], i)]
    BY <1>2, <1>5 DEF PollFails, p, PollLists
  <2> DEFINE q == RemoveAt(p, i)
  <2>2. q \in Seq(Statuses \cup {None}) /\ \A k \in DOMAIN q : \E j \in DOMAIN p : q[k] = p[j]
    BY <1>2, Removed
  <2>3. polls' = [polls EXCEPT ![s][n] = q]
    BY <2>1 DEF p
  <2> HIDE DEF q
  <2> QED
    BY <1>2, <2>2, <2>3
<1> QED
  BY <1>3, <1>4, <1>5

\* An answer to a poll goes to the view, and to the history once it is final.
LEMMA RecordsPolled ==
    ASSUME Safe, NEW s \in Surfaces, NEW n \in Nos, PollAnswered(s, n)
    PROVE  Safe'
<1> DEFINE p == polls[s][n]
<1>1. PICK i \in DOMAIN p :
          /\ p[i] # None
          /\ view' = [view EXCEPT ![s].live[n] = p[i]]
          /\ Persist(n, p[i])
          /\ polls' = [polls EXCEPT ![s][n] = RemoveAt(@, i)]
          /\ UNCHANGED <<requests, asked, truth, answered>>
  BY DEF PollAnswered
<1>2. /\ polls \in PollLists /\ p \in Seq(Statuses \cup {None})
      /\ \A j \in DOMAIN p : Begun(n) /\ (p[j] \in Final => p[j] = truth[n])
      /\ p[i] \in Statuses \cup {None}
  BY PollsAre
<1>3. PICK v \in Statuses : v = p[i]
  BY <1>1, <1>2
<1>4. Telling' /\ polls' \in PollLists
  <2> DEFINE q == RemoveAt(p, i)
  <2>1. q \in Seq(Statuses \cup {None}) /\ \A k \in DOMAIN q : \E j \in DOMAIN p : q[k] = p[j]
    BY <1>2, Removed
  <2>2. polls' = [polls EXCEPT ![s][n] = q]
    BY <1>1, <1>2 DEF PollLists
  <2> HIDE DEF q
  <2>3. \A k \in DOMAIN q : Begun(n) /\ (q[k] \in Final => q[k] = truth[n])
    BY <1>2, <2>1
  <2>4. UNCHANGED truth
    BY <1>1
  <2> QED
    BY <2>1, <2>2, <2>3, <2>4, PollsStep DEF PollLists
<1> HIDE DEF p
<1>5. view' \in [Surfaces -> View] /\ \A t \in Surfaces : view'[t].txs = view[t].txs /\ view'[t].mount = view[t].mount
  <2>1. view \in [Surfaces -> View] /\ view' = [view EXCEPT ![s].live[n] = v]
    BY <1>1, <1>3 DEF Safe, TypeOK
  <2>2. [view[s] EXCEPT !.live[n] = v] \in View
    BY <2>1 DEF View
  <2>3. view' \in [Surfaces -> View]
    BY <2>1, <2>2
  <2>4. \A t \in Surfaces \ {s} : view'[t] = view[t]
    BY <2>1
  <2>5. view'[s] = [view[s] EXCEPT !.live[n] = v]
    BY <2>1
  <2>6. [view[s] EXCEPT !.live[n] = v].txs = view[s].txs
        /\ [view[s] EXCEPT !.live[n] = v].mount = view[s].mount
    <3>1. view[s] \in View
      BY <2>1
    <3>2. QED
      BY <3>1 DEF View
  <2> QED
    BY <2>3, <2>4, <2>5, <2>6
<1>6. Listing'
  BY <1>1, <1>5 DEF Safe, RecordsInv, Listing, Begun
<1>7. CASE v \notin Final
  <2>1. history' = history
    BY <1>1, <1>3, <1>7 DEF Persist
  <2>2. HistoryIsNewest' /\ Distinct' /\ Recording'
    BY <1>1, <2>1 DEF Safe, RecordsInv, HistoryIsNewest, Distinct, Recording, Begun
  <2>3. TypeOK'
    BY <1>1, <1>4, <1>5, <2>1 DEF Safe, TypeOK, PollLists
  <2> QED
    BY <1>4, <1>6, <2>2, <2>3 DEF Safe, RecordsInv
<1>8. CASE v \in Final
  <2>1. updateTransactionStatus(n, v) /\ v = truth[n] /\ Begun(n)
    BY <1>1, <1>2, <1>3, <1>8 DEF Persist
  <2>2. /\ history' \in Seq(Tx) /\ Len(history') = Len(history) /\ DOMAIN history' = DOMAIN history
        /\ \A j \in DOMAIN history :
               /\ history'[j].no = history[j].no
               /\ history'[j].status = IF history[j].no = n THEN v ELSE history[j].status
    BY <1>3, <2>1, Updated DEF Safe
  <2>3. Recording'
    <3>1. ASSUME NEW j \in DOMAIN history
          PROVE  /\ truth[history'[j].no] # "none"
                 /\ history'[j].status \in {"submitted"} \cup ({truth[history'[j].no]} \cap Final)
      BY <1>8, <2>1, <2>2 DEF Safe, RecordsInv, Recording, Begun
    <3> QED
      BY <1>1, <2>2, <3>1 DEF Recording, Begun
  <2>4. HistoryIsNewest' /\ Distinct'
    BY <1>1, <2>2 DEF Safe, RecordsInv, HistoryIsNewest, Distinct
  <2>5. TypeOK'
    <3>1. \A j \in DOMAIN history' : history'[j].status \in {"submitted", truth'[history'[j].no]}
      BY <2>3 DEF Recording
    <3> QED
      BY <1>1, <1>4, <1>5, <2>2, <3>1 DEF Safe, TypeOK, PollLists, Tx
  <2> QED
    BY <1>4, <1>6, <2>3, <2>4, <2>5 DEF Safe, RecordsInv
<1> QED
  BY <1>7, <1>8

-----------------------------------------------------------------------------
(* Every step                                                                *)

LEMMA InvInit == Init => IInv
<1> SUFFICES ASSUME Init  PROVE IInv
  OBVIOUS
<1>1. history = <<>> /\ answered = <<>> /\ requests = {} /\ asked = 0
      /\ view = [s \in Surfaces |-> Mounted("home", 0)] /\ truth = [n \in Nos |-> "none"]
      /\ polls = [s \in Surfaces |-> NoPolls]
  BY DEF Init
<1>2. Mounted("home", 0) \in View /\ Mounted("home", 0).txs = <<>> /\ Mounted("home", 0).is = "home"
      /\ Mounted("home", 0).mount = 0
  BY <1>1 DEF Mounted, View, Views, Tabs
<1>3. NoPolls \in [Nos -> Seq(Statuses \cup {None})] /\ \A n \in Nos : NoPolls[n] = <<>>
  BY DEF NoPolls
<1>4. TypeOK
  <2>1. view \in [Surfaces -> View] /\ \A s \in Surfaces : view[s].mount <= Mounts[s]
    BY <1>1, <1>2, Bounds
  <2>2. Len(history) <= MaxRecords /\ asked \in 0..Asks
    BY <1>1, Bounds
  <2>3. \A i \in DOMAIN history : history[i].status \in {"submitted", truth[history[i].no]}
    BY <1>1
  <2> QED
    BY <1>1, <1>3, <2>1, <2>2, <2>3 DEF TypeOK
<1>5. FormsInv
  BY <1>1, <1>2 DEF FormsInv, Reviewed, Waiting, Single, At
<1>6. HistoryIsNewest /\ Distinct /\ Recording
  BY <1>1, Bounds DEF HistoryIsNewest, Distinct, Recording
<1>7. Telling
  <2>1. \A s \in Surfaces, n \in Nos : polls[s][n] = <<>>
    BY <1>1, <1>3
  <2> QED
    BY <2>1 DEF Telling
<1>8. Listing
  <2>1. \A s \in Surfaces : view[s].txs = <<>>
    BY <1>1, <1>2
  <2> QED
    BY <2>1 DEF Listing
<1> QED
  BY <1>4, <1>5, <1>6, <1>7, <1>8 DEF IInv, RecordsInv

\* What a step is, by the lemma that covers it.
LEMMA FocusKeepsForms ==
    ASSUME TypeOK, NEW s \in Surfaces, Focus(s)
    PROVE  /\ requests' = requests
           /\ \A t \in Surfaces : /\ view'[t].is = view[t].is /\ view'[t].mount = view[t].mount
                                /\ view'[t].form = view[t].form /\ view'[t].phase = view[t].phase
                                /\ view'[t].shown = view[t].shown
BY DEF Focus, TypeOK, View

LEMMA PolledKeepsForms ==
    ASSUME TypeOK, NEW s \in Surfaces, NEW n \in Nos, PollAnswered(s, n)
    PROVE  /\ requests' = requests
           /\ \A t \in Surfaces : /\ view'[t].is = view[t].is /\ view'[t].mount = view[t].mount
                                /\ view'[t].form = view[t].form /\ view'[t].phase = view[t].phase
                                /\ view'[t].shown = view[t].shown
<1>1. PICK v : view' = [view EXCEPT ![s].live[n] = v]
  BY DEF PollAnswered
<1> QED
  BY <1>1 DEF PollAnswered, TypeOK, View

LEMMA InvStep == IInv /\ [Next]_vars => IInv'
<1> SUFFICES ASSUME IInv, [Next]_vars  PROVE IInv'
  OBVIOUS
<1>0. /\ TypeOK /\ FormsInv /\ Safe /\ Reviewed
      /\ IInv' = (FormsInv' /\ Safe')
  BY DEF IInv, Safe, FormsInv
<1>1. ASSUME NEW s \in Surfaces, NEW v \in Views, Go(s, v)
      PROVE  IInv'
  BY <1>0, <1>1, FormsShow, RecordsShow DEF Go
<1>2. ASSUME NEW s \in Surfaces, Close(s)
      PROVE  IInv'
  <2>1. "home" \in Views /\ requests' \subseteq requests
    BY <1>2 DEF Close, Views, Tabs
  <2> QED
    BY <1>0, <1>2, <2>1, FormsShow, RecordsShow DEF Close
<1>3. ASSUME NEW s \in Surfaces, NEW f \in Forms \cup {Empty}, Edit(s, f)
      PROVE  IInv'
  BY <1>0, <1>3, Editing, FormsUser, RecordsUser DEF Contents
<1>4. ASSUME NEW s \in Surfaces, Press(s)
      PROVE  IInv'
  BY <1>0, <1>4, Pressing, FormsUser, RecordsUser
<1>5. ASSUME NEW s \in Surfaces, Focus(s)
      PROVE  IInv'
  BY <1>0, <1>5, FocusKeepsForms, FormsElse, RecordsFocus
<1>6. ASSUME NEW r \in requests, Broadcast(r)
      PROVE  IInv'
  <2>1. FormsInv'
    BY <1>0, <1>6, FormsElse DEF Broadcast
  <2>2. r.no \in Nos /\ truth[r.no] = "none" /\ truth' = [truth EXCEPT ![r.no] = "pending"]
    BY <1>0, <1>6, Fields DEF Broadcast
  <2>3. Safe'
    BY <1>0, <1>6, <2>2, RecordsTruth DEF Broadcast, Statuses, Final
  <2> QED
    BY <1>0, <2>1, <2>3
<1>7. ASSUME NEW r \in requests, Answer(r)
      PROVE  IInv'
  BY <1>0, <1>7, FormsAnswer, RecordsAnswer
<1>8. ASSUME NEW s \in Surfaces, NEW n \in Nos, Poll(s, n) \/ PollRead(s, n) \/ PollFails(s, n)
      PROVE  IInv'
  <2>1. FormsInv'
    BY <1>0, <1>8, FormsElse DEF Poll, PollRead, PollFails
  <2> QED
    BY <1>0, <1>8, <2>1, RecordsPoll
<1>9. ASSUME NEW s \in Surfaces, NEW n \in Nos, PollAnswered(s, n)
      PROVE  IInv'
  BY <1>0, <1>9, PolledKeepsForms, FormsElse, RecordsPolled
<1>10. ASSUME NEW n \in Nos, NEW status \in Final, Mined(n, status)
       PROVE  IInv'
  <2>1. FormsInv'
    BY <1>0, <1>10, FormsElse DEF Mined
  <2>2. status \in Statuses /\ truth[n] \notin Final
    BY <1>10 DEF Mined, Statuses, Final
  <2>3. Safe'
    BY <1>0, <1>10, <2>2, RecordsTruth DEF Mined
  <2> QED
    BY <1>0, <2>1, <2>3
<1>11. CASE UNCHANGED vars
  <2>1. FormsInv'
    BY <1>0, <1>11, FormsElse DEF vars
  <2>2. Telling' /\ polls' \in PollLists
    BY <1>0, <1>11 DEF vars, records, Safe, TypeOK, RecordsInv, Telling, Begun, PollLists
  <2>3. Safe'
    BY <1>0, <1>11, <2>2, PollsOnly DEF vars, records
  <2> QED
    BY <1>0, <2>1, <2>3
<1> QED
  BY <1>1, <1>2, <1>3, <1>4, <1>5, <1>6, <1>7, <1>8, <1>9, <1>10, <1>11 DEF Next

LEMMA InvHolds == Spec => []IInv
BY InvInit, InvStep, PTL DEF Spec

\* Every reachable state of the payment views is well typed: in particular, no record
\* says other of an outcome than the chain does (use-transaction-statuses.ts).
THEOREM TypeCorrect == Spec => []TypeOK
<1>1. IInv => TypeOK
  BY DEF IInv
<1> QED
  BY <1>1, InvHolds, PTL

\* What is sent is what the review showed, and no view outside the requoting ones
\* has two payments under way (send-view.tsx).
THEOREM NothingUnseenIsSent == Spec => []ReviewedIsSent
<1>1. IInv => ReviewedIsSent
  BY DEF IInv, FormsInv, Reviewed, Single, ReviewedIsSent, InFlight
<1> QED
  BY <1>1, InvHolds, PTL

\* The history is the newest of the recorded sends that were answered
\* (use-transactions.ts).
THEOREM NewestAreKept == Spec => []HistoryIsNewest
<1>1. IInv => HistoryIsNewest
  BY DEF IInv, RecordsInv
<1> QED
  BY <1>1, InvHolds, PTL

-----------------------------------------------------------------------------
(* A final status stays                                                      *)

LEMMA OneRecordEach ==
    ASSUME IInv, NEW i \in DOMAIN history, NEW j \in DOMAIN history, history[i].no = history[j].no
    PROVE  i = j
<1>1. /\ DOMAIN history = 1..Len(history) /\ DOMAIN answered = 1..Len(answered)
      /\ Len(history) \in Nat /\ Len(answered) \in Nat /\ Len(history) <= MaxRecords
  BY DEF IInv, TypeOK
<1>2. i \in DOMAIN answered /\ j \in DOMAIN answered /\ answered[i] = answered[j]
  BY <1>1, Bounds DEF IInv, RecordsInv, HistoryIsNewest
<1> QED
  BY <1>2 DEF IInv, RecordsInv, Distinct

\* A record is added for a request that was under way, or one learns its outcome.
LEMMA HistorySteps ==
    ASSUME IInv, [Next]_vars
    PROVE  \/ history' = history
           \/ \E r \in requests : addTransaction(r)
           \/ \E n \in Nos : truth[n] \in Final /\ updateTransactionStatus(n, truth[n])
<1>1. CASE \E s \in Surfaces : \/ \E v \in Views : Go(s, v)
                               \/ \E f \in Forms \cup {Empty} : Edit(s, f)
                               \/ Close(s) \/ Press(s) \/ Focus(s)
  <2>1. ASSUME NEW s \in Surfaces, NEW f \in Forms \cup {Empty}, Edit(s, f)
        PROVE  history' = history
    BY <2>1, Editing DEF Contents, UserStep, records, IInv
  <2>2. ASSUME NEW s \in Surfaces, Press(s)
        PROVE  history' = history
    BY <2>2, Pressing DEF UserStep, records, IInv, FormsInv
  <2> QED
    BY <1>1, <2>1, <2>2 DEF Go, Close, Focus, records
<1>2. ASSUME NEW r \in requests, Broadcast(r) \/ Answer(r)
      PROVE  history' = history \/ addTransaction(r)
  BY <1>2 DEF Broadcast, Answer, Quoted, Sent, Opened, Refused, Keep, records
<1>3. ASSUME NEW s \in Surfaces, NEW n \in Nos, Poll(s, n) \/ PollRead(s, n) \/ PollFails(s, n)
      PROVE  history' = history
  BY <1>3 DEF Poll, PollRead, PollFails, records
<1>4. ASSUME NEW s \in Surfaces, NEW n \in Nos, PollAnswered(s, n)
      PROVE  history' = history \/ (truth[n] \in Final /\ updateTransactionStatus(n, truth[n]))
  <2>1. PICK i \in DOMAIN polls[s][n] : Persist(n, polls[s][n][i])
    BY <1>4 DEF PollAnswered
  <2>2. polls[s][n][i] \in Final => polls[s][n][i] = truth[n]
    BY DEF IInv, RecordsInv, Telling
  <2> QED
    BY <2>1, <2>2 DEF Persist
<1>5. ASSUME NEW n \in Nos, NEW status \in Final, Mined(n, status)
      PROVE  history' = history
  BY <1>5 DEF Mined, records
<1>6. CASE UNCHANGED vars
  BY <1>6 DEF vars, records
<1> QED
  BY <1>1, <1>2, <1>3, <1>4, <1>5, <1>6 DEF Next

\* A record keeps its final status for as long as it is listed: late answers say the
\* same, and no request that was answered is recorded again
\* (use-transaction-statuses.ts, use-transactions.ts).
THEOREM FinalStatusSticks == Spec => ResolvedSticks
<1>1. IInv /\ [Next]_vars =>
          \A i \in DOMAIN history, j \in DOMAIN history' :
              history[i].no = history'[j].no /\ history[i].status \in Final
                  => history'[j].status = history[i].status
  <2> SUFFICES ASSUME IInv, [Next]_vars, NEW i \in DOMAIN history, NEW j \in DOMAIN history',
                      history[i].no = history'[j].no, history[i].status \in Final
               PROVE  history'[j].status = history[i].status
    OBVIOUS
  <2>1. history[i].status = truth[history[i].no]
    BY DEF IInv, RecordsInv, Recording, Final
  <2>2. CASE history' = history
    BY <2>2, OneRecordEach
  <2>3. ASSUME NEW r \in requests, addTransaction(r)
        PROVE  history'[j].status = history[i].status
    <3>1. /\ history'[1] = [no |-> r.no, status |-> "submitted"]
          /\ j # 1 => j - 1 \in DOMAIN history /\ history'[j] = history[j - 1]
      BY <2>3, Added DEF IInv
    <3>2. i \in DOMAIN answered /\ history[i].no = answered[i]
      <4>1. /\ DOMAIN history = 1..Len(history) /\ DOMAIN answered = 1..Len(answered)
            /\ Len(history) \in Nat /\ Len(answered) \in Nat
        BY DEF IInv, TypeOK
      <4> QED
        BY <4>1, Bounds DEF IInv, RecordsInv, HistoryIsNewest
    <3>4. answered[i] # r.no
      BY <3>2 DEF IInv, RecordsInv, Distinct
    <3>5. history'[1].no = r.no
      BY <3>1
    <3>3. j # 1
      BY <3>2, <3>4, <3>5
    <3> QED
      BY <3>1, <3>3, OneRecordEach
  <2>4. ASSUME NEW n \in Nos, truth[n] \in Final, updateTransactionStatus(n, truth[n])
        PROVE  history'[j].status = history[i].status
    <3>1. /\ DOMAIN history' = DOMAIN history
          /\ history'[j].no = history[j].no
          /\ history'[j].status = IF history[j].no = n THEN truth[n] ELSE history[j].status
      BY <2>4, Updated DEF IInv, Statuses, Final
    <3>2. j = i
      BY <3>1, OneRecordEach
    <3> QED
      BY <2>1, <3>1, <3>2
  <2> QED
    BY <2>2, <2>3, <2>4, HistorySteps
<1> QED
  BY <1>1, InvHolds, PTL DEF Spec, ResolvedSticks

=============================================================================
