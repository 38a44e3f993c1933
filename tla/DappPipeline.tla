---------------------------- MODULE DappPipeline ----------------------------
(***************************************************************************)
(* The way between a web page and the service worker: the provider in the   *)
(* page (inpage/), the content script of its tab (content/), the worker's   *)
(* two dispatchers and its event bus (background/dispatch.ts,               *)
(* dapp-dispatcher.ts, dapp-event-bus.ts). Pages come and go, the worker    *)
(* dies with requests under way, each hop is a message.                     *)
(*                                                                         *)
(* What the worker decides is left open: any answer, any event at any time. *)
(* chrome.tabs.query answers in the order it was asked; messages to a tab   *)
(* and postMessage keep their order, the answer of sendMessage keeps none.  *)
(***************************************************************************)
EXTENDS Naturals, Sequences, FiniteSets

CONSTANTS
    Tabs, Origins, Calls,
    DappTabs,   \* tabs whose pages hold a dApp
    Home,       \* origin of the page each tab shows first
    Visits,     \* origins to which the user may take each tab
    Frames,     \* origins of the other windows that hold a tab's window: its frames, its opener
    Events,     \* bound: numbers of the events that are broadcast, 1 .. n
    Moves,      \* bound on the navigations
    Deaths,     \* bound on the deaths of the worker
    None

ASSUME NoneAssumption == None \notin Tabs \cup Origins \cup Calls
ASSUME PagesAssumption == DappTabs \subseteq Tabs /\ Home \in [Tabs -> Origins]
ASSUME WindowsAssumption == {Visits, Frames} \subseteq [Tabs -> SUBSET Origins]
ASSUME BoundsAssumption == {Events, Moves, Deaths} \subseteq Nat

Uuids == Tabs \X (0 .. Moves)   \* what crypto.randomUUID gives to a page load

VARIABLES
    page,       \* the document in each tab
    uuid,       \* chrome.storage.local 'wdk-install-uuid'
    call,       \* EIP-1193 calls: of the pages, and of windows that post into theirs
    next,       \* number of the next event
    queries,    \* broadcasts that await chrome.tabs.query, oldest first
    push,       \* DAPP_EVENT messages on their way to each tab
    seen,       \* history: events each page's listeners were given
    moves, deaths

vars == <<page, uuid, call, next, queries, push, seen, moves, deaths>>
eventVars == <<next, queries, push, seen>>
bounds == <<moves, deaths>>

Ev == [n : 1 .. Events, target : Origins]

\* script: how far the content script and the inpage script have come. The inpage
\* script is not injected before there is an id to announce.
Page == [load : 0 .. Moves, origin : Origins,
         script : {"start", "absent", "injected", "ready"},
         uuid : Uuids \cup {None}, dapp : BOOLEAN, found : SUBSET Uuids]

TypeOK ==
    /\ page \in [Tabs -> Page]
    /\ \A t \in Tabs : page[t].script \in {"injected", "ready"} <=> page[t].uuid # None
    /\ uuid \in Uuids \cup {None}
    /\ call \in [Calls -> [stage : {"idle", "posted", "sent", "answered", "settled", "ignored", "gone"},
                           tab : Tabs \cup {None}, load : 0 .. Moves,
                           into : Origins \cup {None}, frame : Origins \cup {None},
                           stamp : Origins \cup {None}, answer : {"none", "result", "error"}]]
    /\ next \in 1 .. Events + 1
    /\ queries \in Seq(Ev)
    /\ push \in [Tabs -> Seq(Ev)]
    /\ seen \in [Tabs -> Seq(Ev)]
    /\ moves \in 0 .. Moves /\ deaths \in 0 .. Deaths

NewPage(k, o) == [load |-> k, origin |-> o, script |-> "start", uuid |-> None,
                  dapp |-> FALSE, found |-> {}]

\* A call that nobody waits for: not made yet, or over, and what came of it.
NoCall(stage, answer) == [stage |-> stage, tab |-> None, load |-> 0, into |-> None,
                          frame |-> None, stamp |-> None, answer |-> answer]

Init ==
    /\ page = [t \in Tabs |-> NewPage(0, Home[t])]
    /\ uuid = None
    /\ call = [c \in Calls |-> NoCall("idle", "none")]
    /\ next = 1
    /\ queries = <<>>
    /\ push = [t \in Tabs |-> <<>>]
    /\ seen = [t \in Tabs |-> <<>>]
    /\ moves = 0 /\ deaths = 0

Script(t, s) == page[t].script = s

\* The document of a tab after its scripts came to s, with the announcements found.
Scripts(t, s, id, dapp, found) ==
    page' = [page EXCEPT ![t] = [load |-> @.load, origin |-> @.origin, script |-> s,
                                 uuid |-> id, dapp |-> dapp, found |-> found]]

-----------------------------------------------------------------------------
(* A page is loaded and finds the wallet *)

\* getOrCreateInstallUuid reads: the stored id, or none.
ReadUuid(t) ==
    /\ Script(t, "start")
    /\ Scripts(t, IF uuid = None THEN "absent" ELSE "injected", uuid, page[t].dapp, page[t].found)
    /\ UNCHANGED <<uuid, call, eventVars, bounds>>

\* None was stored: a fresh one is, whatever another tab did meanwhile.
StoreUuid(t) ==
    /\ Script(t, "absent")
    /\ LET fresh == <<t, page[t].load>> IN
       /\ uuid' = fresh
       /\ Scripts(t, "injected", fresh, page[t].dapp, page[t].found)
    /\ UNCHANGED <<call, eventVars, bounds>>

\* Defect: the provider waits to be asked.
InpageIsSilent(t) ==
    /\ Script(t, "injected")
    /\ page' = [page EXCEPT ![t].script = "ready"]
    /\ UNCHANGED <<uuid, call, eventVars, bounds>>

\* The injected script runs: provider, and first announcement.
InpageRuns(t) ==
    /\ Script(t, "injected")
    /\ Scripts(t, "ready", page[t].uuid, page[t].dapp,
               IF page[t].dapp THEN {page[t].uuid} ELSE page[t].found)
    /\ UNCHANGED <<uuid, call, eventVars, bounds>>

\* The dApp listens for announcements and asks for one.
DappLoads(t) ==
    /\ t \in DappTabs /\ ~page[t].dapp
    /\ Scripts(t, page[t].script, page[t].uuid, TRUE,
               IF Script(t, "ready") THEN {page[t].uuid} ELSE page[t].found)
    /\ UNCHANGED <<uuid, call, eventVars, bounds>>

-----------------------------------------------------------------------------
(* A call *)

\* The document a call was posted to is the one its tab shows.
Here(c) == call[c].tab # None /\ page[call[c].tab].load = call[c].load

\* A call on its way through the hops.
Passes(c, stage, stamp, answer) ==
    call' = [call EXCEPT ![c] = [tab |-> @.tab, load |-> @.load, into |-> @.into, frame |-> @.frame,
                                 stage |-> stage, stamp |-> stamp, answer |-> answer]]

\* An envelope in the window of a tab. into: the origin of the document there; frame:
\* that of the document that posted it, when it is another window's.
Post(c, t, frame) ==
    /\ call[c].stage = "idle"
    /\ call' = [call EXCEPT ![c] = [stage |-> "posted", tab |-> t, load |-> page[t].load,
                                    into |-> page[t].origin, frame |-> frame,
                                    stamp |-> None, answer |-> "none"]]
    /\ UNCHANGED <<page, uuid, eventVars, bounds>>

\* provider.request: pending is set, the envelope posted.
Request(c, t) ==
    /\ Script(t, "ready") /\ page[t].dapp
    /\ Post(c, t, None)

\* A frame of the page, or the window that opened it, posts an envelope of that form:
\* the bridge looks at event.data alone. The scripts run in top windows only, so no
\* provider of the poster has the call pending.
RequestOfFrame(c, t, o) ==
    /\ o \in Frames[t]
    /\ Script(t, "injected") \/ Script(t, "ready")
    /\ Post(c, t, o)

\* Defect: the origin is looked up for the call when it is served.
BridgeAnyTab(c) ==
    /\ call[c].stage = "posted" /\ Here(c)
    /\ \E t \in Tabs : Passes(c, "sent", page[t].origin, "none")
    /\ UNCHANGED <<page, uuid, eventVars, bounds>>

\* The bridge stamps the origin of its own document, whoever posted, and sends.
Bridge(c) ==
    /\ call[c].stage = "posted" /\ Here(c)
    /\ Passes(c, "sent", page[call[c].tab].origin, "none")
    /\ UNCHANGED <<page, uuid, eventVars, bounds>>

\* sendToSw unwraps the worker's envelope into the bridge's answer.
Answer(c, a) ==
    /\ call[c].stage = "sent"
    /\ Passes(c, "answered", call[c].stamp, a)
    /\ UNCHANGED <<page, uuid, eventVars, bounds>>

\* DAPP_REQUEST: what the method's handler returns, or throws.
Handle(c) == \E a \in {"result", "error"} : Answer(c, a)

\* A method that is no own property of the registry is refused.
Refuse(c) == Answer(c, "error")

\* Defect: the bridge has no answer for a closed port.
WorkerDiesSilently ==
    /\ deaths < Deaths
    /\ deaths' = deaths + 1
    /\ call' = [c \in Calls |-> IF call[c].stage = "sent"
                                THEN [call[c] EXCEPT !.stage = "idle"]
                                ELSE call[c]]
    /\ queries' = <<>>
    /\ UNCHANGED <<page, uuid, next, push, seen, moves>>

PortClosed(r) == [tab |-> r.tab, load |-> r.load, into |-> r.into, frame |-> r.frame,
                  stage |-> "answered", stamp |-> r.stamp, answer |-> "error"]

\* The worker dies: the port of every request it had not answered is closed, and
\* the bridge makes an error of it. Broadcasts under way are lost.
WorkerDies ==
    /\ deaths < Deaths
    /\ deaths' = deaths + 1
    /\ call' = [c \in Calls |-> IF call[c].stage = "sent" THEN PortClosed(call[c]) ELSE call[c]]
    /\ queries' = <<>>
    /\ UNCHANGED <<page, uuid, next, push, seen, moves>>

\* The bridge posts the answer into its own window; provider.handleResponse settles the
\* pending call of that id and forgets it, and ignores an id it has not pending.
Settle(c) ==
    /\ call[c].stage = "answered" /\ Here(c)
    /\ call' = [call EXCEPT ![c] = NoCall(IF @.frame = None THEN "settled" ELSE "ignored", @.answer)]
    /\ UNCHANGED <<page, uuid, eventVars, bounds>>

-----------------------------------------------------------------------------
(* Events *)

\* eventBus.broadcast: first the tabs are asked for.
Broadcast(o) ==
    /\ next <= Events
    /\ next' = next + 1
    /\ queries' = Append(queries, [n |-> next, target |-> o])
    /\ UNCHANGED <<page, uuid, call, push, seen, bounds>>

\* chrome.tabs.query answers: the event goes to every tab.
TabsKnown ==
    /\ queries # <<>>
    /\ push' = [t \in Tabs |-> Append(push[t], Head(queries))]
    /\ queries' = Tail(queries)
    /\ UNCHANGED <<page, uuid, call, next, seen, bounds>>

\* The provider gives an event to its listeners, if there are any.
handleEvent(t, e) ==
    seen' = IF Script(t, "ready") /\ page[t].dapp THEN [seen EXCEPT ![t] = Append(@, e)] ELSE seen

\* Defect: the content script posts every event on.
ReceiveAll(t) ==
    /\ push[t] # <<>>
    /\ handleEvent(t, Head(push[t]))
    /\ push' = [push EXCEPT ![t] = Tail(@)]
    /\ UNCHANGED <<page, uuid, call, next, queries, bounds>>

\* The content script of the tab's present document, if it runs yet, drops what is
\* meant for another origin and posts the rest.
Receive(t) ==
    /\ push[t] # <<>>
    /\ IF Head(push[t]).target = page[t].origin THEN handleEvent(t, Head(push[t]))
       ELSE UNCHANGED seen
    /\ push' = [push EXCEPT ![t] = Tail(@)]
    /\ UNCHANGED <<page, uuid, call, next, queries, bounds>>

-----------------------------------------------------------------------------

\* Another document in the tab: its scripts, calls and posted messages are gone.
Navigate(t, o) ==
    /\ o \in Visits[t]
    /\ moves < Moves
    /\ moves' = moves + 1
    /\ page' = [page EXCEPT ![t] = NewPage(page[t].load + 1, o)]
    /\ call' = [c \in Calls |->
           IF call[c].tab = t /\ call[c].stage \in {"posted", "answered"}
           THEN NoCall("gone", "none") ELSE call[c]]
    /\ seen' = [seen EXCEPT ![t] = <<>>]
    /\ UNCHANGED <<uuid, next, queries, push, deaths>>

Load(t) == ReadUuid(t) \/ StoreUuid(t) \/ InpageRuns(t)
Hop(c) == Bridge(c) \/ Handle(c) \/ Refuse(c) \/ Settle(c)

Next ==
    \/ \E t \in Tabs : Load(t) \/ DappLoads(t) \/ Receive(t)
    \/ \E c \in Calls :
          \/ Hop(c)
          \/ \E t \in Tabs : Request(c, t) \/ \E o \in Origins : RequestOfFrame(c, t, o)
    \/ \E o \in Origins : Broadcast(o)
    \/ \E t \in Tabs, o \in Origins : Navigate(t, o)
    \/ TabsKnown \/ WorkerDies

\* Scripts run, messages arrive, and the worker's handlers answer (RequestsMoveOn
\* of ServiceWorker; the user is taken to answer).
Fairness ==
    /\ \A t \in Tabs : WF_vars(Load(t)) /\ WF_vars(Receive(t))
    /\ \A c \in Calls : WF_vars(Hop(c))
    /\ WF_vars(TabsKnown)

Spec == Init /\ [][Next]_vars /\ Fairness

-----------------------------------------------------------------------------
(* Properties *)

\* A call is served under the origin of the document into whose window it was posted,
\* also when the tab shows another document by now (bridge.ts:53-60): for the page's own
\* calls that is the page. Who posted is not looked at, see ServedUnderItsPoster.
ServedUnderItsOrigin == \A c \in Calls : call[c].stamp \in {None, call[c].into}

\* What one might expect and the code does not do: a call is served under the origin of
\* the document that made it. bridge.ts:41-48 reads neither event.source nor
\* event.origin, and takes what a frame or an opener posts for the page's own.
ServedUnderItsPoster ==
    \A c \in Calls :
        call[c].stamp \in {None, IF call[c].frame = None THEN call[c].into ELSE call[c].frame}

\* A page hears only events for its own origin, in the order in which
\* they were broadcast and none of them twice, whatever the tab showed when the
\* event was sent (event-receiver.ts:45-60, dapp-event-bus.ts:47-66).
HearsItsOwnInOrder ==
    \A t \in Tabs :
        /\ \A i \in DOMAIN seen[t] : seen[t][i].target = page[t].origin
        /\ \A i, j \in DOMAIN seen[t] : i < j => seen[t][i].n < seen[t][j].n

\* A page's call is settled with an answer, or its page is left: not even the death of
\* the worker leaves a page waiting (bridge.ts:62-83).
CallsSettle ==
    \A c \in Calls :
        (call[c].stage = "posted" /\ call[c].frame = None)
            ~> (call[c].stage \in {"settled", "gone"} \/ ~Here(c))

\* A dApp that stays finds the provider, whether it loads before the wallet's
\* script or after it (eip6963.ts:66-74).
DappFindsWallet ==
    \A t \in Tabs, k \in 0 .. Moves :
        (page[t].dapp /\ page[t].load = k) ~> (page[t].found # {} \/ page[t].load # k)

=============================================================================
