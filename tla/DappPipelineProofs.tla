------------------------- MODULE DappPipelineProofs -------------------------
(***************************************************************************)
(* For any tabs, origins, calls, frames, navigations and deaths of the       *)
(* worker: a call is served under the origin of the document into whose      *)
(* window it was posted, and a page hears only events for its own origin, in *)
(* order and none twice.                                                     *)
(***************************************************************************)
EXTENDS DappPipeline, TLAPS

Ids == Tabs \X Nat
Document == [load : Nat, origin : Origins, script : {"start", "absent", "injected", "ready"},
             uuid : Ids \cup {None}, dapp : BOOLEAN, found : SUBSET (Ids \cup {None})]
Stages == {"idle", "posted", "sent", "answered", "settled", "ignored", "gone"}

Typed ==
    /\ page \in [Tabs -> Document]
    /\ uuid \in Ids \cup {None}
    /\ call \in [Calls -> [stage : Stages, tab : Tabs \cup {None}, load : Nat, into : Origins \cup {None},
                           frame : Origins \cup {None}, stamp : Origins \cup {None}, answer : {"none", "result", "error"}]]
    /\ next \in Nat \ {0}
    /\ queries \in Seq(Ev) /\ push \in [Tabs -> Seq(Ev)] /\ seen \in [Tabs -> Seq(Ev)]

\* The document a call was posted to has the origin noted with the call, as long as its
\* tab shows it; loads are counted, so that no later document of the tab is taken for it.
Documents ==
    \A c \in Calls :
        /\ call[c].stamp \in {None, call[c].into}
        /\ call[c].tab # None =>
               /\ call[c].tab \in Tabs
               /\ call[c].load \in Nat /\ call[c].load <= page[call[c].tab].load
               /\ call[c].load = page[call[c].tab].load =>
                      call[c].into = page[call[c].tab].origin

Sorted(s) == \A i, j \in DOMAIN s : i < j => s[i].n < s[j].n
Before(s, u) == \A i \in DOMAIN s, j \in DOMAIN u : s[i].n < u[j].n
Below(s, k) == \A i \in DOMAIN s : s[i].n < k

\* What a page has heard comes before what is on its way to it, and that before
\* what is still to be sent.
Ordered ==
    /\ Sorted(queries) /\ Below(queries, next)
    /\ \A t \in Tabs :
           /\ Sorted(seen[t]) /\ Sorted(push[t]) /\ Below(seen[t], next) /\ Below(push[t], next)
           /\ Before(seen[t], push[t]) /\ Before(seen[t], queries) /\ Before(push[t], queries)
           /\ \A i \in DOMAIN seen[t] : seen[t][i].target = page[t].origin

-----------------------------------------------------------------------------
(* Sequences of events.                                                      *)

LEMMA AppendIs ==
    ASSUME NEW s \in Seq(Ev), NEW e \in Ev
    PROVE  /\ Append(s, e) \in Seq(Ev)
           /\ \A i \in DOMAIN Append(s, e) :
                  (i \in DOMAIN s /\ Append(s, e)[i] = s[i]) \/ (i = Len(s) + 1 /\ Append(s, e)[i] = e)
OBVIOUS

LEMMA TailIs ==
    ASSUME NEW s \in Seq(Ev), s # <<>>
    PROVE  /\ Head(s) \in Ev /\ Head(s) = s[1] /\ 1 \in DOMAIN s /\ Tail(s) \in Seq(Ev)
           /\ \A i \in DOMAIN Tail(s) : i + 1 \in DOMAIN s /\ Tail(s)[i] = s[i + 1] /\ i \in Nat \ {0}
OBVIOUS

LEMMA SortedAppend ==
    ASSUME NEW s \in Seq(Ev), NEW e \in Ev, Sorted(s), Below(s, e.n)
    PROVE  Sorted(Append(s, e))
BY AppendIs DEF Sorted, Below

LEMMA BeforeAppend ==
    ASSUME NEW s \in Seq(Ev), NEW u \in Seq(Ev), NEW e \in Ev, Before(s, u)
    PROVE  /\ Below(s, e.n) => Before(s, Append(u, e))
           /\ (\A j \in DOMAIN u : e.n < u[j].n) => Before(Append(s, e), u)
BY AppendIs DEF Before, Below

LEMMA SortedTail ==
    ASSUME NEW s \in Seq(Ev), s # <<>>, Sorted(s)
    PROVE  Sorted(Tail(s)) /\ \A j \in DOMAIN Tail(s) : Head(s).n < Tail(s)[j].n
BY TailIs DEF Sorted

-----------------------------------------------------------------------------
(* Every step keeps the three.                                               *)

DIInv == Typed /\ Documents /\ Ordered

LEMMA LoadStep ==
    ASSUME DIInv, NEW t \in Tabs, Load(t) \/ DappLoads(t)
    PROVE  DIInv'
<1>1. UNCHANGED <<call, next, queries, push, seen>>
  BY DEF Load, DappLoads, ReadUuid, StoreUuid, InpageRuns, eventVars
<1>2. PICK scr \in {"start", "absent", "injected", "ready"}, id \in Ids \cup {None},
           dapp \in BOOLEAN, found \in SUBSET (Ids \cup {None}) : Scripts(t, scr, id, dapp, found)
  <2>1. page[t] \in Document
    BY DEF DIInv, Typed
  <2>2. CASE ReadUuid(t)
    <3> DEFINE reached == IF uuid = None THEN "absent" ELSE "injected"
    <3>1. Scripts(t, reached, uuid, page[t].dapp, page[t].found)
      BY <2>2 DEF ReadUuid
    <3>2. reached \in {"absent", "injected"} /\ uuid \in Ids \cup {None}
      BY DEF DIInv, Typed
    <3> HIDE DEF reached
    <3> QED
      BY <2>1, <3>1, <3>2 DEF Document
  <2>3. CASE StoreUuid(t)
    <3>1. <<t, page[t].load>> \in Ids
      BY <2>1 DEF Ids, Document
    <3> QED
      BY <2>1, <2>3, <3>1 DEF StoreUuid, Document
  <2>4. CASE InpageRuns(t)
    BY <2>1, <2>4 DEF InpageRuns, Document
  <2>5. CASE DappLoads(t)
    BY <2>1, <2>5 DEF DappLoads, Document
  <2> QED
    BY <2>2, <2>3, <2>4, <2>5 DEF Load
<1>3. /\ page' \in [Tabs -> Document]
      /\ \A k \in Tabs : page'[k].origin = page[k].origin /\ page'[k].load = page[k].load
  BY <1>2 DEF Scripts, DIInv, Typed, Document
<1>4. uuid' \in Ids \cup {None}
  <2>1. uuid' = uuid \/ uuid' = <<t, page[t].load>>
    BY DEF Load, DappLoads, ReadUuid, StoreUuid, InpageRuns
  <2>2. page[t].load \in Nat
    BY DEF DIInv, Typed, Document
  <2> QED
    BY <2>1, <2>2 DEF DIInv, Typed, Ids
<1> QED
  BY <1>1, <1>3, <1>4 DEF DIInv, Typed, Documents, Ordered

Call == [stage : Stages, tab : Tabs \cup {None}, load : Nat, into : Origins \cup {None},
         frame : Origins \cup {None}, stamp : Origins \cup {None}, answer : {"none", "result", "error"}]

\* One call passes a hop, the bridge's stamp apart unchanged in what identifies it.
LEMMA PassStep ==
    ASSUME DIInv, NEW c \in Calls, NEW stage \in Stages, NEW stamp \in Origins \cup {None},
           NEW answer \in {"none", "result", "error"}, Passes(c, stage, stamp, answer),
           stamp \in {None, call[c].into}, UNCHANGED <<page, uuid, eventVars>>
    PROVE  DIInv'
<1>1. call \in [Calls -> Call] /\ call[c] \in Call
  BY DEF DIInv, Typed, Call
<1>2. /\ call' \in [Calls -> Call]
      /\ \A d \in Calls : call'[d].tab = call[d].tab /\ call'[d].load = call[d].load
                          /\ call'[d].into = call[d].into
                          /\ call'[d].stamp = IF d = c THEN stamp ELSE call[d].stamp
  BY <1>1 DEF Passes, Call
<1>3. Documents'
  BY <1>2 DEF DIInv, Documents
<1> QED
  BY <1>2, <1>3 DEF DIInv, Typed, Call, Ordered, eventVars

LEMMA HopStep ==
    ASSUME DIInv, NEW c \in Calls, Hop(c)
    PROVE  DIInv'
<1>1. /\ call[c].stamp \in Origins \cup {None} /\ call[c].answer \in {"none", "result", "error"}
      /\ call[c].stamp \in {None, call[c].into}
  BY DEF DIInv, Typed, Documents
<1>2. CASE Bridge(c)
  <2>1. /\ Passes(c, "sent", page[call[c].tab].origin, "none")
        /\ call[c].tab # None /\ page[call[c].tab].load = call[c].load
        /\ UNCHANGED <<page, uuid, eventVars>>
    BY <1>2 DEF Bridge, Here
  <2>2. call[c].tab \in Tabs /\ call[c].into = page[call[c].tab].origin
    BY <2>1 DEF DIInv, Documents
  <2>3. page[call[c].tab].origin \in Origins
    BY <2>2 DEF DIInv, Typed, Document
  <2> QED
    BY <2>1, <2>2, <2>3, PassStep DEF Stages
<1>3. CASE Handle(c) \/ Refuse(c)
  <2>1. PICK a \in {"result", "error"} : Passes(c, "answered", call[c].stamp, a)
    BY <1>3 DEF Handle, Refuse, Answer
  <2>2. UNCHANGED <<page, uuid, eventVars>>
    BY <1>3 DEF Handle, Refuse, Answer
  <2> QED
    BY <1>1, <2>1, <2>2, PassStep DEF Stages
<1>4. CASE Settle(c)
  <2> DEFINE over == NoCall(IF call[c].frame = None THEN "settled" ELSE "ignored", call[c].answer)
  <2>1. call \in [Calls -> Call] /\ over \in Call /\ over.tab = None /\ over.stamp = None
    BY <1>1 DEF DIInv, Typed, Call, NoCall, Stages
  <2>2. call' = [call EXCEPT ![c] = over] /\ UNCHANGED <<page, uuid, next, queries, push, seen>>
    BY <1>4 DEF Settle, eventVars
  <2> HIDE DEF over
  <2>3. call' \in [Calls -> Call]
    BY <2>1, <2>2
  <2>4. Documents'
    BY <2>1, <2>2 DEF DIInv, Documents
  <2> QED
    BY <2>2, <2>3, <2>4 DEF DIInv, Typed, Call, Ordered
<1> QED
  BY <1>2, <1>3, <1>4 DEF Hop

\* An envelope is posted into the window of a tab, by whoever.
LEMMA PostStep ==
    ASSUME DIInv, NEW c \in Calls, NEW t \in Tabs, NEW frame \in Origins \cup {None},
           Post(c, t, frame)
    PROVE  DIInv'
<1>1. call \in [Calls -> Call] /\ page[t].load \in Nat /\ page[t].origin \in Origins
  BY DEF DIInv, Typed, Call, Document
<1>2. /\ call' = [call EXCEPT ![c] = [stage |-> "posted", tab |-> t, load |-> page[t].load,
                                      into |-> page[t].origin, frame |-> frame, stamp |-> None, answer |-> "none"]]
      /\ UNCHANGED <<page, uuid, next, queries, push, seen>>
  BY DEF Post, eventVars
<1>3. call' \in [Calls -> Call]
  BY <1>1, <1>2 DEF Call, Stages
<1>4. Documents'
  <2>1. ASSUME NEW d \in Calls, d # c
        PROVE  call'[d] = call[d]
    BY <1>1, <1>2, <2>1
  <2>2. call'[c] = [stage |-> "posted", tab |-> t, load |-> page[t].load,
                    into |-> page[t].origin, frame |-> frame, stamp |-> None, answer |-> "none"]
    BY <1>1, <1>2
  <2> QED
    BY <1>1, <1>2, <2>1, <2>2 DEF DIInv, Documents
<1> QED
  BY <1>2, <1>3, <1>4 DEF DIInv, Typed, Call, Ordered

LEMMA DeathStep ==
    ASSUME DIInv, WorkerDies
    PROVE  DIInv'
<1>1. /\ call' = [c \in Calls |-> IF call[c].stage = "sent" THEN PortClosed(call[c]) ELSE call[c]]
      /\ queries' = <<>> /\ UNCHANGED <<page, uuid, next, push, seen>>
  BY DEF WorkerDies
<1>2. ASSUME NEW c \in Calls
      PROVE  /\ call'[c] \in Call /\ call'[c].tab = call[c].tab /\ call'[c].load = call[c].load
             /\ call'[c].into = call[c].into /\ call'[c].stamp = call[c].stamp
  <2>1. call[c] \in Call
    BY DEF DIInv, Typed, Call
  <2> QED
    BY <1>1, <2>1 DEF PortClosed, Call, Stages
<1>3. call' \in [Calls -> Call]
  BY <1>1, <1>2
<1>4. Documents'
  BY <1>1, <1>2 DEF DIInv, Documents
<1>5. Ordered' /\ queries' \in Seq(Ev)
  BY <1>1 DEF DIInv, Ordered, Sorted, Before, Below
<1> QED
  BY <1>1, <1>3, <1>4, <1>5 DEF DIInv, Typed, Call

-----------------------------------------------------------------------------
(* Events.                                                                   *)

LEMMA BroadcastStep ==
    ASSUME DIInv, NEW o \in Origins, Broadcast(o)
    PROVE  DIInv'
<1> DEFINE e == [n |-> next, target |-> o]
<1>1. /\ next \in Nat \ {0} /\ next <= Events /\ next' = next + 1
      /\ queries' = Append(queries, e) /\ UNCHANGED <<page, uuid, call, push, seen>>
  BY DEF Broadcast, DIInv, Typed
<1>2. e \in Ev /\ e.n = next
  BY <1>1, BoundsAssumption DEF Ev
<1>3. queries \in Seq(Ev) /\ \A t \in Tabs : push[t] \in Seq(Ev) /\ seen[t] \in Seq(Ev)
  BY DEF DIInv, Typed
<1> HIDE DEF e
<1>4. queries' \in Seq(Ev) /\ Sorted(queries')
  BY <1>1, <1>2, <1>3, AppendIs, SortedAppend DEF DIInv, Ordered
<1>5. ASSUME NEW s \in Seq(Ev), Below(s, next)
      PROVE  Below(s, next')
  <2>1. ASSUME NEW i \in DOMAIN s PROVE s[i].n \in Nat
    <3>1. s[i] \in Ev
      OBVIOUS
    <3> QED
      BY <3>1, BoundsAssumption DEF Ev
  <2> QED
    BY <1>1, <1>5, <2>1 DEF Below
<1>6. Below(queries', next')
  <2>1. Below(queries, next')
    BY <1>3, <1>5 DEF DIInv, Ordered
  <2> QED
    BY <1>1, <1>2, <1>3, <2>1, AppendIs DEF Below
<1>7. ASSUME NEW t \in Tabs
      PROVE  /\ Before(seen[t], queries') /\ Before(push[t], queries')
             /\ Below(seen[t], next') /\ Below(push[t], next')
  BY <1>1, <1>2, <1>3, <1>5, BeforeAppend DEF DIInv, Ordered
<1>8. Ordered'
  BY <1>1, <1>4, <1>6, <1>7 DEF DIInv, Ordered
<1> QED
  BY <1>1, <1>4, <1>8 DEF DIInv, Typed, Documents

LEMMA TabsKnownStep ==
    ASSUME DIInv, TabsKnown
    PROVE  DIInv'
<1> DEFINE e == Head(queries)
<1>1. /\ queries # <<>> /\ queries' = Tail(queries)
      /\ push' = [t \in Tabs |-> Append(push[t], e)]
      /\ UNCHANGED <<page, uuid, call, next, seen>>
  BY DEF TabsKnown
<1>2. queries \in Seq(Ev) /\ \A t \in Tabs : push[t] \in Seq(Ev) /\ seen[t] \in Seq(Ev)
  BY DEF DIInv, Typed
<1>3. /\ e \in Ev /\ e = queries[1] /\ 1 \in DOMAIN queries /\ queries' \in Seq(Ev)
      /\ \A i \in DOMAIN queries' : i + 1 \in DOMAIN queries /\ queries'[i] = queries[i + 1]
  BY <1>1, <1>2, TailIs
<1>4. Sorted(queries') /\ \A j \in DOMAIN queries' : e.n < queries'[j].n
  BY <1>1, <1>2, SortedTail DEF DIInv, Ordered
<1>5. Below(queries', next) /\ e.n < next
  BY <1>3 DEF DIInv, Ordered, Below
<1> HIDE DEF e
<1>6. ASSUME NEW t \in Tabs
      PROVE  /\ push'[t] \in Seq(Ev) /\ Sorted(push'[t]) /\ Below(push'[t], next)
             /\ Before(seen[t], push'[t]) /\ Before(seen[t], queries') /\ Before(push'[t], queries')
  <2>1. push'[t] = Append(push[t], e) /\ Below(push[t], e.n) /\ Below(seen[t], e.n)
    BY <1>1, <1>3 DEF DIInv, Ordered, Before, Below
  <2>2. Before(seen[t], queries') /\ Before(push[t], queries')
    BY <1>3 DEF DIInv, Ordered, Before
  <2>3. push'[t] \in Seq(Ev) /\ Below(push'[t], next)
    BY <1>2, <1>3, <1>5, <2>1, AppendIs DEF DIInv, Ordered, Below
  <2> QED
    BY <1>2, <1>3, <1>4, <2>1, <2>2, <2>3, SortedAppend, BeforeAppend DEF DIInv, Ordered
<1>7. Ordered'
  BY <1>1, <1>4, <1>5, <1>6 DEF DIInv, Ordered
<1>8. push' \in [Tabs -> Seq(Ev)]
  BY <1>1, <1>6
<1> QED
  BY <1>1, <1>3, <1>7, <1>8 DEF DIInv, Typed, Documents

LEMMA ReceiveStep ==
    ASSUME DIInv, NEW t \in Tabs, Receive(t)
    PROVE  DIInv'
<1> DEFINE e == Head(push[t])
           rest == Tail(push[t])
<1>1. /\ push[t] # <<>> /\ push' = [push EXCEPT ![t] = rest]
      /\ \/ seen' = seen
         \/ e.target = page[t].origin /\ seen' = [seen EXCEPT ![t] = Append(@, e)]
      /\ UNCHANGED <<page, uuid, call, next, queries>>
  BY DEF Receive, handleEvent
<1>2. queries \in Seq(Ev) /\ push[t] \in Seq(Ev) /\ seen[t] \in Seq(Ev)
      /\ push \in [Tabs -> Seq(Ev)] /\ seen \in [Tabs -> Seq(Ev)]
  BY DEF DIInv, Typed
<1>3. /\ e \in Ev /\ e = push[t][1] /\ 1 \in DOMAIN push[t] /\ rest \in Seq(Ev)
      /\ \A i \in DOMAIN rest : i + 1 \in DOMAIN push[t] /\ rest[i] = push[t][i + 1]
  BY <1>1, <1>2, TailIs
<1>4. Sorted(rest) /\ \A j \in DOMAIN rest : e.n < rest[j].n
  BY <1>1, <1>2, SortedTail DEF DIInv, Ordered
<1>5. /\ Below(seen[t], e.n) /\ e.n < next /\ \A j \in DOMAIN queries : e.n < queries[j].n
  BY <1>3 DEF DIInv, Ordered, Before, Below
<1> HIDE DEF e, rest
<1>6. /\ Below(rest, next) /\ Before(rest, queries) /\ Before(seen[t], rest)
  BY <1>3 DEF DIInv, Ordered, Before, Below
<1>7. /\ push' \in [Tabs -> Seq(Ev)] /\ push'[t] = rest
      /\ \A k \in Tabs : k # t => push'[k] = push[k] /\ seen'[k] = seen[k]
      /\ seen'[t] = seen[t] \/ (e.target = page[t].origin /\ seen'[t] = Append(seen[t], e))
  BY <1>1, <1>2, <1>3
<1>8. /\ seen'[t] \in Seq(Ev) /\ Sorted(seen'[t]) /\ Below(seen'[t], next)
      /\ Before(seen'[t], rest) /\ Before(seen'[t], queries)
      /\ \A i \in DOMAIN seen'[t] : seen'[t][i].target = page[t].origin
  <2>1. CASE seen'[t] = seen[t]
    BY <1>2, <1>6, <2>1 DEF DIInv, Ordered
  <2>2. CASE e.target = page[t].origin /\ seen'[t] = Append(seen[t], e)
    <3>1. Sorted(seen'[t])
      BY <1>2, <1>3, <1>5, <2>2, SortedAppend DEF DIInv, Ordered
    <3>2. Before(seen'[t], rest) /\ Before(seen'[t], queries)
      BY <1>2, <1>3, <1>4, <1>5, <1>6, <2>2, BeforeAppend DEF DIInv, Ordered
    <3>3. seen'[t] \in Seq(Ev) /\ Below(seen'[t], next)
          /\ \A i \in DOMAIN seen'[t] : seen'[t][i].target = page[t].origin
      BY <1>2, <1>3, <1>5, <2>2, AppendIs DEF DIInv, Ordered, Below
    <3> QED
      BY <3>1, <3>2, <3>3
  <2> QED
    BY <1>7, <2>1, <2>2
<1>9. seen' \in [Tabs -> Seq(Ev)]
  BY <1>1, <1>2, <1>8
<1>10. Ordered'
  BY <1>1, <1>4, <1>6, <1>7, <1>8 DEF DIInv, Ordered
<1> QED
  BY <1>1, <1>7, <1>9, <1>10 DEF DIInv, Typed, Documents

-----------------------------------------------------------------------------

LEMMA NavigateStep ==
    ASSUME DIInv, NEW t \in Tabs, NEW o \in Origins, Navigate(t, o)
    PROVE  DIInv'
<1>1. /\ page' = [page EXCEPT ![t] = NewPage(page[t].load + 1, o)]
      /\ call' = [c \in Calls |->
             IF call[c].tab = t /\ call[c].stage \in {"posted", "answered"}
             THEN NoCall("gone", "none") ELSE call[c]]
      /\ seen' = [seen EXCEPT ![t] = <<>>] /\ UNCHANGED <<uuid, next, queries, push>>
  BY DEF Navigate
<1>2. page \in [Tabs -> Document] /\ page[t].load \in Nat /\ seen \in [Tabs -> Seq(Ev)]
  BY DEF DIInv, Typed, Document
<1>3. /\ page' \in [Tabs -> Document]
      /\ page'[t].load = page[t].load + 1 /\ page'[t].origin = o
      /\ \A k \in Tabs : k # t => page'[k] = page[k]
  BY <1>1, <1>2 DEF NewPage, Document
<1>4. ASSUME NEW c \in Calls
      PROVE  /\ call'[c] \in Call
             /\ call'[c] = call[c] \/ (call'[c].tab = None /\ call'[c].stamp = None)
  <2>1. call[c] \in Call /\ NoCall("gone", "none") \in Call
    BY DEF DIInv, Typed, Call, NoCall, Stages
  <2> QED
    BY <1>1, <2>1 DEF NoCall
<1>5. call' \in [Calls -> Call]
  BY <1>1, <1>4
<1>6. Documents'
  <2> SUFFICES ASSUME NEW c \in Calls
               PROVE  /\ call'[c].stamp \in {None, call'[c].into}
                      /\ call'[c].tab # None =>
                             /\ call'[c].tab \in Tabs
                             /\ call'[c].load \in Nat /\ call'[c].load <= page'[call'[c].tab].load
                             /\ call'[c].load = page'[call'[c].tab].load =>
                                    call'[c].into = page'[call'[c].tab].origin
    BY DEF Documents
  <2>1. call[c].tab # None => call[c].tab \in Tabs /\ call[c].load \in Nat
                              /\ page[call[c].tab].load \in Nat
    BY <1>2 DEF DIInv, Documents, Document
  <2>2. CASE call'[c] = call[c] /\ call[c].tab = t
    BY <1>2, <1>3, <2>1, <2>2 DEF DIInv, Documents
  <2>3. CASE call'[c] = call[c] /\ call[c].tab # t
    BY <1>3, <2>1, <2>3 DEF DIInv, Documents
  <2>4. CASE call'[c].tab = None /\ call'[c].stamp = None
    BY <2>4
  <2> QED
    BY <1>4, <2>2, <2>3, <2>4
<1>7. seen' \in [Tabs -> Seq(Ev)] /\ seen'[t] = <<>> /\ \A k \in Tabs : k # t => seen'[k] = seen[k]
  BY <1>1, <1>2
<1>8. ASSUME NEW k \in Tabs
      PROVE  /\ Sorted(seen'[k]) /\ Below(seen'[k], next) /\ Before(seen'[k], push[k])
             /\ Before(seen'[k], queries) /\ \A i \in DOMAIN seen'[k] : seen'[k][i].target = page'[k].origin
  <2>1. CASE k = t
    BY <1>7, <2>1 DEF Sorted, Below, Before
  <2>2. CASE k # t
    BY <1>3, <1>7, <2>2 DEF DIInv, Ordered
  <2> QED
    BY <2>1, <2>2
<1>9. Ordered'
  BY <1>1, <1>8 DEF DIInv, Ordered
<1> QED
  BY <1>1, <1>3, <1>5, <1>6, <1>7, <1>9 DEF DIInv, Typed, Call

LEMMA PipelineInit == Init => DIInv
<1> SUFFICES ASSUME Init PROVE DIInv
  OBVIOUS
<1>1. page = [t \in Tabs |-> NewPage(0, Home[t])] /\ \A t \in Tabs : Home[t] \in Origins
  BY PagesAssumption DEF Init
<1>2. page \in [Tabs -> Document]
  BY <1>1 DEF NewPage, Document
<1>3. call \in [Calls -> Call] /\ \A c \in Calls : call[c].tab = None /\ call[c].stamp = None
  BY DEF Init, NoCall, Call, Stages
<1>4. Typed
  BY <1>2, <1>3 DEF Init, Typed, Call
<1>5. Documents
  BY <1>3 DEF Documents
<1>6. Ordered
  BY DEF Init, Ordered, Sorted, Before, Below
<1> QED
  BY <1>4, <1>5, <1>6 DEF DIInv

LEMMA PipelineStep == DIInv /\ [Next]_vars => DIInv'
<1> SUFFICES ASSUME DIInv, [Next]_vars PROVE DIInv'
  OBVIOUS
<1>1. CASE UNCHANGED vars
  BY <1>1 DEF vars, DIInv, Typed, Documents, Ordered
<1> QED
  <2>1. ASSUME NEW c \in Calls, NEW t \in Tabs, Request(c, t)
        PROVE  DIInv'
    BY <2>1, PostStep DEF Request
  <2>2. ASSUME NEW c \in Calls, NEW t \in Tabs, NEW o \in Origins, RequestOfFrame(c, t, o)
        PROVE  DIInv'
    BY <2>2, PostStep DEF RequestOfFrame
  <2> QED
    BY <1>1, <2>1, <2>2, LoadStep, HopStep, DeathStep, BroadcastStep, TabsKnownStep, ReceiveStep,
       NavigateStep DEF Next

LEMMA PipelineInvariant == Spec => []DIInv
BY PipelineInit, PipelineStep, PTL DEF Spec

\* A call is served under the origin of the document into whose window it was posted,
\* whichever window posted it and whatever the tab shows by then (bridge.ts:53-60), for
\* any number of tabs, frames, navigations, calls and worker deaths. That the document
\* itself posted it does not follow: bridge.ts:41-48 takes a frame's envelope too.
THEOREM CallsCarryTheirOrigin == Spec => []ServedUnderItsOrigin
<1>1. DIInv => ServedUnderItsOrigin
  BY DEF DIInv, Documents, ServedUnderItsOrigin
<1> QED
  BY <1>1, PipelineInvariant, PTL

\* A page hears only events for its own origin, in the order in which they were
\* broadcast, none of them twice (dapp-event-bus.ts, event-receiver.ts).
THEOREM EventsReachTheirOriginInOrder == Spec => []HearsItsOwnInOrder
<1>1. DIInv => HearsItsOwnInOrder
  BY DEF DIInv, Ordered, Sorted, HearsItsOwnInOrder
<1> QED
  BY <1>1, PipelineInvariant, PTL

=============================================================================
