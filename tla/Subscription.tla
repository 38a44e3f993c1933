---------------------------- MODULE Subscription ----------------------------
(***************************************************************************)
(* One connection of the WebSocket subscription adapter                    *)
(* (packages/wdk-web-core/src/adapters/subscription.ts): a socket to one   *)
(* URL, shared by the subscriptions of a chain, that is opened again after *)
(* a drop. A subscription is one filter, or two (subscribeAddress on EVM), *)
(* which are added and removed one after the other.                        *)
(*                                                                         *)
(* JavaScript goes on with settled promises before it looks at the next    *)
(* event, so the events below wait until the adapter is Quiet. A Set is    *)
(* walked in the order of insertion; here in any order. The server's ids   *)
(* are unique on one socket only: the next socket may see them again.      *)
(***************************************************************************)
EXTENDS Naturals, FiniteSets

CONSTANTS
    Subs,           \* subscriptions a product asks for, each once
    Filters,        \* Filters[s]: number of filters of s
    Sids,           \* subscription ids of the server
    Offered(_),     \* which of the free ids the server may give out
    None,           \* no id, no filter
    MaxReconnects,  \* options.maxReconnects
    MaxDrops        \* bound on the number of dropped sockets

Regs == UNION {{s} \X (1 .. Filters[s]) : s \in Subs}
Loops == 1 .. MaxDrops      \* the reconnect that follows the l-th drop
Callers == Subs \cup Loops  \* who may await an answer of the server

ASSUME FiltersAssumption == Filters \in [Subs -> Nat \ {0}]
ASSUME OfferedAssumption == \A free \in SUBSET Sids : Offered(free) \subseteq free
ASSUME NoneAssumption == None \notin Sids /\ None \notin Regs
ASSUME LoopsAssumption == Subs \cap Nat = {}
ASSUME MaxAssumption == MaxReconnects \in Nat /\ MaxDrops \in Nat

VARIABLES
    socket,     \* readyState of socket; "none" is null
    ready,      \* ready; a socket that is not ready has a connecting promise
    retired,    \* closedByUser; the adapter has forgotten this connection
    reconnects, \* reconnects
    drops,      \* number of dropped sockets
    regs,       \* regs
    serverId,   \* serverId of each registration
    route,      \* byServerId
    server,     \* the server's live subscriptions on this socket, by id
    pending,    \* callers whose JSON-RPC call is in `pending`
    sub,        \* where each subscription's add() or removeAll() stands
    loop,       \* where each reestablish() stands
    gaveUp      \* history: a reconnect failed, or was refused a filter

vars == <<socket, ready, retired, reconnects, drops, regs, serverId, route,
          server, pending, sub, loop, gaveUp>>

Steps == {"idle", "connecting", "subscribing", "active", "removing",
          "unsubscribing", "done", "failed"}

Call == [step : Steps, at : Nat \ {0}, sid : Sids \cup {None}]
Loop == [step : {"idle", "timer", "connecting"}, at : {None}, visited : SUBSET Regs]
        \cup [step : {"subscribing"}, at : Regs, visited : SUBSET Regs]

\* A socket that is ready is there, and no call runs past its filters.
TypeOK ==
    /\ socket \in {"none", "connecting", "open", "closing"}
    /\ {ready, retired, gaveUp} \subseteq BOOLEAN
    /\ reconnects \in 0 .. MaxReconnects
    /\ drops \in 0 .. MaxDrops
    /\ regs \subseteq Regs
    /\ serverId \in [Regs -> Sids \cup {None}]
    /\ DOMAIN route \subseteq Sids /\ \A i \in DOMAIN route : route[i] \in Regs
    /\ DOMAIN server \subseteq Sids /\ \A i \in DOMAIN server : server[i] \in Regs
    /\ pending \subseteq Callers
    /\ sub \in [Subs -> Call]
    /\ loop \in [Loops -> Loop]
    /\ ready => socket \in {"open", "closing"}
    /\ \A s \in Subs : sub[s].at <= Filters[s] \/ sub[s].step = "removing"

NoMap == [i \in {} |-> None]
IdleLoop == [step |-> "idle", at |-> None, visited |-> {}]

Init ==
    /\ socket = "none"
    /\ ready = FALSE
    /\ retired = FALSE
    /\ reconnects = 0
    /\ drops = 0
    /\ regs = {}
    /\ serverId = [g \in Regs |-> None]
    /\ route = NoMap
    /\ server = NoMap
    /\ pending = {}
    /\ sub = [s \in Subs |-> [step |-> "idle", at |-> 1, sid |-> None]]
    /\ loop = [l \in Loops |-> IdleLoop]
    /\ gaveUp = FALSE

-----------------------------------------------------------------------------

At(s, step) == sub[s].step = step
LoopAt(l, step) == loop[l].step = step
Filter(s) == <<s, sub[s].at>>

\* The call of s goes on with filter number `at`, and the id it gives back.
SubMoves(s, step, at, sid) ==
    sub' = [sub EXCEPT ![s] = [step |-> step, at |-> at, sid |-> sid]]

LoopMoves(l, step, at, visited) ==
    loop' = [loop EXCEPT ![l] = [step |-> step, at |-> at, visited |-> visited]]

\* Settled promises are followed up first.
Quiet ==
    /\ ready => \A s \in Subs : ~At(s, "connecting")
    /\ ready => \A l \in Loops : ~LoopAt(l, "connecting")
    /\ \A s \in Subs : ~At(s, "removing")

\* connect(): a new socket, unless there is one.
Connect == socket' = IF socket = "none" THEN "connecting" ELSE socket

Without(map, i) == [j \in DOMAIN map \ {i} |-> map[j]]
With(map, i, g) == [j \in DOMAIN map \cup {i} |-> IF j = i THEN g ELSE map[j]]

\* The server grants a filter under an id that is free, and establish() notes
\* the id, also for a registration removed meanwhile.
Establish(g) ==
    \E i \in Offered(Sids \ DOMAIN server) :
        /\ server' = With(server, i, g)
        /\ route' = With(route, i, g)
        /\ serverId' = [serverId EXCEPT ![g] = i]

-----------------------------------------------------------------------------
(* The product subscribes and unsubscribes                                 *)

\* getConn() and the first add(). A retired connection is not handed out.
Subscribe(s) ==
    /\ Quiet /\ ~retired
    /\ At(s, "idle")
    /\ SubMoves(s, "connecting", 1, None)
    /\ Connect
    /\ UNCHANGED <<ready, retired, reconnects, drops, regs, serverId, route,
                   server, pending, loop, gaveUp>>

\* add() after `await connect()`.
Add(s) ==
    /\ ready
    /\ At(s, "connecting")
    /\ regs' = regs \cup {Filter(s)}
    /\ pending' = pending \cup {s}
    /\ SubMoves(s, "subscribing", sub[s].at, None)
    /\ UNCHANGED <<socket, ready, retired, reconnects, drops, serverId, route,
                   server, loop, gaveUp>>

\* The server grants the filter: the next one, or the handle is the caller's.
Added(s) ==
    /\ Quiet /\ socket = "open"
    /\ At(s, "subscribing") /\ s \in pending
    /\ pending' = pending \ {s}
    /\ Establish(Filter(s))
    /\ IF sub[s].at < Filters[s]
       THEN SubMoves(s, "connecting", sub[s].at + 1, None)
       ELSE SubMoves(s, "active", 1, None)
    /\ UNCHANGED <<socket, ready, retired, reconnects, drops, regs, loop, gaveUp>>

\* The server answers with an error; the registration stays in regs.
AddRefused(s) ==
    /\ Quiet /\ socket = "open"
    /\ At(s, "subscribing") /\ s \in pending
    /\ pending' = pending \ {s}
    /\ SubMoves(s, "failed", 1, None)
    /\ UNCHANGED <<socket, ready, retired, reconnects, drops, regs, serverId,
                   route, server, loop, gaveUp>>

Unsubscribe(s) ==
    /\ Quiet
    /\ At(s, "active")
    /\ SubMoves(s, "removing", 1, None)
    /\ UNCHANGED <<socket, ready, retired, reconnects, drops, regs, serverId,
                   route, server, pending, loop, gaveUp>>

\* removeAll(), one filter: forget it, and tell the server if it has it.
Remove(s) ==
    LET sid == serverId[Filter(s)] IN
    /\ At(s, "removing") /\ sub[s].at <= Filters[s]
    /\ regs' = regs \ {Filter(s)}
    /\ serverId' = [serverId EXCEPT ![Filter(s)] = None]
    /\ route' = Without(route, sid)
    /\ IF sid # None /\ ready
       THEN /\ pending' = pending \cup {s}
            /\ SubMoves(s, "unsubscribing", sub[s].at, sid)
       ELSE /\ SubMoves(s, "removing", sub[s].at + 1, None)
            /\ UNCHANGED pending
    /\ UNCHANGED <<socket, ready, retired, reconnects, drops, server, loop, gaveUp>>

\* The server answers, or refuses, which is ignored.
Removed(s) ==
    /\ Quiet /\ socket = "open"
    /\ At(s, "unsubscribing") /\ s \in pending
    /\ pending' = pending \ {s}
    /\ server' \in {server, Without(server, sub[s].sid)}
    /\ SubMoves(s, "removing", sub[s].at + 1, None)
    /\ UNCHANGED <<socket, ready, retired, reconnects, drops, regs, serverId,
                   route, loop, gaveUp>>

\* maybeClose(): the last registration closes the socket, open or not.
MaybeClose(s) ==
    /\ At(s, "removing") /\ sub[s].at > Filters[s]
    /\ SubMoves(s, "done", 1, None)
    /\ IF regs = {} /\ socket # "none"
       THEN socket' = "closing" /\ retired' = TRUE
       ELSE UNCHANGED <<socket, retired>>
    /\ UNCHANGED <<ready, reconnects, drops, regs, serverId, route, server,
                   pending, loop, gaveUp>>

-----------------------------------------------------------------------------
(* The socket                                                              *)

SocketOpens ==
    /\ Quiet
    /\ socket = "connecting"
    /\ socket' = "open"
    /\ ready' = TRUE
    /\ reconnects' = 0
    /\ UNCHANGED <<retired, drops, regs, serverId, route, server, pending, sub,
                   loop, gaveUp>>

FailedCall == [step |-> "failed", at |-> 1, sid |-> None]

\* Defect: the calls under way are forgotten, their promises never settled.
CallersHang ==
    /\ sub' = [s \in Subs |-> IF At(s, "connecting") /\ ~ready
                             THEN FailedCall ELSE sub[s]]
    /\ pending' = {}

\* Whoever awaited an answer gets "WS closed"; only removeAll() carries on.
\* Before the socket was open, whoever awaited connect() fails as well.
CallersFail ==
    /\ sub' = [s \in Subs |->
         CASE At(s, "subscribing") \/ (At(s, "connecting") /\ ~ready) -> FailedCall
           [] At(s, "unsubscribing") ->
                [step |-> "removing", at |-> sub[s].at + 1, sid |-> None]
           [] OTHER -> sub[s]]
    /\ pending' = {}

LoopFails(l) == LoopAt(l, "subscribing") \/ (LoopAt(l, "connecting") /\ ~ready)

LoopsFail ==
    [l \in Loops |-> IF LoopFails(l) THEN IdleLoop ELSE loop[l]]

\* Defect: the ids of the lost socket still route.
ForgetIdsOnly ==
    /\ serverId' = [g \in Regs |-> IF g \in regs THEN None ELSE serverId[g]]
    /\ UNCHANGED route

\* Defect: the routes go, the registrations keep the ids of the lost socket.
ForgetRoutesOnly == route' = NoMap /\ UNCHANGED serverId

\* byServerId is cleared, and the id of every registration.
ForgetIds ==
    /\ serverId' = [g \in Regs |-> IF g \in regs THEN None ELSE serverId[g]]
    /\ route' = NoMap

\* Defect: `ready` outlives its socket.
GoneReady ==
    /\ socket' = "none"
    /\ UNCHANGED ready
    /\ ForgetIds
    /\ server' = NoMap
    /\ CallersFail

Gone ==
    /\ socket' = "none"
    /\ ready' = FALSE
    /\ ForgetIds
    /\ server' = NoMap
    /\ CallersFail

\* Defect: the drop of a socket schedules nothing.
ScheduleNever ==
    /\ loop' = LoopsFail
    /\ UNCHANGED reconnects

TimerLoop == [step |-> "timer", at |-> None, visited |-> {}]

\* The reconnect timer that onclose sets, while attempts remain.
Schedule ==
    IF ~retired /\ regs # {} /\ reconnects < MaxReconnects
    THEN /\ loop' = [LoopsFail EXCEPT ![drops'] = TimerLoop]
         /\ reconnects' = reconnects + 1
    ELSE /\ loop' = LoopsFail
         /\ UNCHANGED reconnects

\* An open socket is lost.
SocketDrops ==
    /\ Quiet
    /\ socket = "open"
    /\ drops < MaxDrops
    /\ drops' = drops + 1
    /\ Gone
    /\ Schedule
    /\ UNCHANGED <<retired, regs, gaveUp>>

\* A socket that does not open: no timer is set.
SocketFails ==
    /\ Quiet
    /\ socket = "connecting"
    /\ Gone
    /\ loop' = LoopsFail
    /\ gaveUp' = (gaveUp \/ \E l \in Loops : LoopFails(l))
    /\ UNCHANGED <<retired, reconnects, drops, regs>>

\* A socket that was closed is gone.
SocketCloses ==
    /\ Quiet
    /\ socket = "closing"
    /\ Gone
    /\ loop' = LoopsFail
    /\ UNCHANGED <<retired, reconnects, drops, regs, gaveUp>>

-----------------------------------------------------------------------------
(* reestablish()                                                           *)

TimerFires(l) ==
    /\ Quiet
    /\ LoopAt(l, "timer")
    /\ LoopMoves(l, "connecting", None, {})
    /\ Connect
    /\ UNCHANGED <<ready, retired, reconnects, drops, regs, serverId, route,
                   server, pending, sub, gaveUp>>

\* The next registration, among them those added since the drop.
NextFilter(l) ==
    LET left == regs \ loop[l].visited IN
    /\ ready
    /\ LoopAt(l, "connecting")
    /\ IF left = {}
       THEN /\ LoopMoves(l, "idle", None, {})
            /\ UNCHANGED pending
       ELSE /\ \E g \in left :
                  LoopMoves(l, "subscribing", g, loop[l].visited \cup {g})
            /\ pending' = pending \cup {l}
    /\ UNCHANGED <<socket, ready, retired, reconnects, drops, regs, serverId,
                   route, server, sub, gaveUp>>

Renewed(l) ==
    /\ Quiet /\ socket = "open"
    /\ LoopAt(l, "subscribing") /\ l \in pending
    /\ pending' = pending \ {l}
    /\ Establish(loop[l].at)
    /\ LoopMoves(l, "connecting", None, loop[l].visited)
    /\ UNCHANGED <<socket, ready, retired, reconnects, drops, regs, sub, gaveUp>>

\* One refusal ends the loop, and what it had not reached stays lost.
RenewalRefused(l) ==
    /\ Quiet /\ socket = "open"
    /\ LoopAt(l, "subscribing") /\ l \in pending
    /\ pending' = pending \ {l}
    /\ LoopMoves(l, "idle", None, {})
    /\ gaveUp' = TRUE
    /\ UNCHANGED <<socket, ready, retired, reconnects, drops, regs, serverId,
                   route, server, sub>>

-----------------------------------------------------------------------------

\* The adapter goes on, the server answers.
SubStep(s) ==
    \/ Add(s) \/ Added(s) \/ AddRefused(s)
    \/ Remove(s) \/ Removed(s) \/ MaybeClose(s)

LoopStep(l) ==
    TimerFires(l) \/ NextFilter(l) \/ Renewed(l) \/ RenewalRefused(l)

SocketSettles == SocketOpens \/ SocketFails \/ SocketCloses

Next ==
    \/ \E s \in Subs : Subscribe(s) \/ Unsubscribe(s) \/ SubStep(s)
    \/ \E l \in Loops : LoopStep(l)
    \/ SocketSettles
    \/ SocketDrops

\* Timers fire, a socket opens or fails, a server answers what it was asked
\* while the socket lasts. Products need not do anything.
Fairness ==
    /\ WF_vars(SocketSettles)
    /\ \A s \in Subs : WF_vars(SubStep(s))
    /\ \A l \in Loops : WF_vars(LoopStep(l))

Spec == Init /\ [][Next]_vars /\ Fairness

-----------------------------------------------------------------------------
(* Properties                                                              *)

\* A notification reaches the handler of the filter the server means, although
\* each new socket may use the ids of the last one for other filters
\* (subscription.ts:166, :184).
RoutesAreTheServers ==
    \A i \in DOMAIN route : i \in DOMAIN server /\ route[i] = server[i]

\* The id a registration holds is one the present socket routes to it, so that
\* unsubscribe() names its own subscription and not another product's
\* (subscription.ts:185, :242).
HeldIdsRoute ==
    \A g \in regs : serverId[g] # None =>
        serverId[g] \in DOMAIN route /\ route[serverId[g]] = g

\* Whoever awaits the server is answered or told that the socket is gone, at
\* whatever point it is lost: subscribe and unsubscribe calls end.
CallsEnd ==
    \A s \in Subs :
        sub[s].step \in {"connecting", "subscribing", "removing", "unsubscribing"}
          ~> sub[s].step \in {"active", "done", "failed"}

Served(s) == \A k \in 1 .. Filters[s] : serverId[<<s, k>>] # None

\* subscription.ts:14-16: after a drop every active subscription is served
\* again, unless a reconnect failed or was refused.
ServedAgain == \A s \in Subs : At(s, "active") ~> (Served(s) \/ ~At(s, "active") \/ gaveUp)

\* subscription.ts:219: "onclose reschedules while attempts remain": a product
\* with an active subscription has a socket, or a reconnect that will get one.
KeepsTrying ==
    (\E s \in Subs : At(s, "active")) /\ ~retired /\ reconnects < MaxReconnects =>
        socket # "none" \/ \E l \in Loops : ~LoopAt(l, "idle")

\* subscription.spec.ts:115: after unsubscribe() the server's subscriptions are
\* torn down, so no notification is handed to its handler any more.
SilentAfterUnsubscribe ==
    \A s \in Subs : At(s, "done") => \A i \in DOMAIN route : route[i][1] # s

=============================================================================
