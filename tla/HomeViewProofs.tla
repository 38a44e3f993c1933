--------------------------- MODULE HomeViewProofs ---------------------------
(***************************************************************************)
(* For any chains, accounts, tokens and numbers of requests: what the home   *)
(* tab shows is of the selected chain and account, and a token that is       *)
(* looked at or sent is one of the selected chain. The induction rests on    *)
(* what the effects establish: every mounted hook depends on its present     *)
(* key, has an answer only about that key, and a request that is not         *)
(* cancelled asks for it.                                                    *)
(***************************************************************************)
EXTENDS HomeView, TLAPS

Own == Hooks \ {"price"}

\* What an answer that is shown is about.
Faithful(hooks) ==
    \A h \in Own : hooks[h].is \in {"address", "ready"} =>
        hooks[h].data # None /\ hooks[h].data = hooks[h].of

Keyed(v, hooks) == \A h \in Own : hooks[h].of = KeyOf(h, v, hooks["account"])

Mounted == IF view.at = "settings" THEN shown = Fresh ELSE Keyed(view, shown)

Wanted == \A a \in asks : a.of # None /\ (a.live => a.of = shown[a.hook].of)

\* Nothing is pushed over the settings, and a token only over its own chain.
Pushed ==
    /\ view.at = "settings" => view.pushed = None
    /\ view.pushed \in {"asset", "send"} /\ view.token # None =>
           IsEvm(view) /\ view.token \in Tokens[view.chain]

HomeIInv == TypeOK /\ Faithful(shown) /\ Mounted /\ Wanted /\ Pushed

-----------------------------------------------------------------------------

LEMMA KeysAreKeys ==
    ASSUME NEW h \in Hooks, NEW v \in View, NEW account
    PROVE  KeyOf(h, v, account) \in Keys \cup {None}
<1>1. v.chain \in Chains /\ v.account \in 0..MaxAccount /\ EvmChain(v) \in Chains
  BY ChainsAssumption DEF View, EvmChain, IsEvm, Chains
<1>2. Symbol[v.chain] \in Keys
  BY <1>1 DEF Keys
<1>3. <<v.chain, v.account>> \in Keys /\ <<EvmChain(v), v.account>> \in Keys
  BY <1>1 DEF Keys
<1> QED
  BY <1>2, <1>3 DEF KeyOf, Hooks

LEMMA FreshIsTyped == Fresh \in [Hooks -> Query] /\ Faithful(Fresh)
BY DEF Fresh, Unmounted, Query, Faithful, Own

LEMMA RequeryIsTyped ==
    ASSUME NEW h \in Hooks, NEW key \in Keys \cup {None}, NEW q \in Query
    PROVE  Requery(h, key, q) \in Query
<1>1. CASE q.of = key
  BY <1>1 DEF Requery
<1>2. CASE q.of # key /\ h = "price"
  BY <1>2 DEF Requery, Query
<1>3. CASE q.of # key /\ h # "price" /\ NeedsAsking(h, key)
  BY <1>3 DEF Requery, Query
<1>4. CASE q.of # key /\ h # "price" /\ ~NeedsAsking(h, key)
  BY <1>4 DEF Requery, Query, Unmounted
<1> QED
  BY <1>1, <1>2, <1>3, <1>4

\* A hook other than the price's depends on its key when its effect has run, and
\* what it shows is about that key.
LEMMA RequeryIsFaithful ==
    ASSUME NEW h \in Own, NEW key, NEW q \in Query,
           q.is \in {"address", "ready"} => q.data # None /\ q.data = q.of
    PROVE  LET new == Requery(h, key, q)
           IN  /\ new.of = key
               /\ new.is \in {"address", "ready"} => new.data # None /\ new.data = new.of
<1> DEFINE new == Requery(h, key, q)
<1>0. h # "price"
  BY DEF Own
<1>1. CASE q.of = key
  BY <1>1 DEF Requery
<1>2. CASE q.of # key /\ NeedsAsking(h, key)
  <2>1. new = [of |-> key, is |-> "loading", data |-> None]
    BY <1>0, <1>2 DEF Requery, NeedsAsking
  <2> QED
    BY <2>1
<1>3. CASE q.of # key /\ ~NeedsAsking(h, key) /\ h = "tokens" /\ key # None
  <2>1. new = [of |-> key, is |-> "ready", data |-> key]
    BY <1>0, <1>3, Zenon DEF Requery
  <2> QED
    BY <1>3, <2>1
<1>4. CASE q.of # key /\ ~NeedsAsking(h, key) /\ ~(h = "tokens" /\ key # None)
  <2>1. new = Unmounted
    BY <1>0, <1>4, Zenon DEF Requery
  <2>2. key = None
    BY <1>4 DEF NeedsAsking
  <2> QED
    BY <2>1, <2>2 DEF Unmounted
<1> QED
  BY <1>1, <1>2, <1>3, <1>4

LEMMA EffectsAreFaithful ==
    ASSUME NEW v \in View, NEW hooks \in [Hooks -> Query], Faithful(hooks)
    PROVE  /\ Effects(v, hooks) \in [Hooks -> Query]
           /\ Faithful(Effects(v, hooks)) /\ Keyed(v, Effects(v, hooks))
<1> DEFINE account == Requery("account", KeyOf("account", v, hooks["account"]), hooks["account"])
           new == Effects(v, hooks)
           key(h) == KeyOf(h, v, account)
<1>1. KeyOf("account", v, hooks["account"]) = key("account")
  BY DEF KeyOf
<1>2. /\ new = [h \in Hooks |-> Requery(h, key(h), hooks[h])]
      /\ new["account"] = account
  BY <1>1 DEF Effects, Hooks
<1>3. \A h \in Hooks : key(h) \in Keys \cup {None}
  BY KeysAreKeys
<1>4. new \in [Hooks -> Query]
  BY <1>2, <1>3, RequeryIsTyped
<1>5. ASSUME NEW h \in Own
      PROVE  /\ new[h].of = key(h)
             /\ new[h].is \in {"address", "ready"} => new[h].data # None /\ new[h].data = new[h].of
  <2>1. h \in Hooks /\ hooks[h] \in Query /\ new[h] = Requery(h, key(h), hooks[h])
    BY <1>2 DEF Own
  <2>2. hooks[h].is \in {"address", "ready"} => hooks[h].data # None /\ hooks[h].data = hooks[h].of
    BY DEF Faithful
  <2> HIDE DEF new, key, account
  <2> QED
    BY <2>1, <2>2, RequeryIsFaithful
<1> QED
  BY <1>2, <1>4, <1>5 DEF Faithful, Keyed

\* Whatever is rendered in the wallet view, and whatever it leaves to be answered.
LEMMA RenderKeeps ==
    ASSUME NEW v \in View, v.at # "settings",
           NEW hooks \in [Hooks -> Query], Faithful(hooks),
           NEW left \in SUBSET Ask, \A a \in left : a.of # None,
           Render(v, hooks, left)
    PROVE  /\ view' = v /\ shown' \in [Hooks -> Query] /\ asks' \subseteq Ask
           /\ Faithful(shown)' /\ Mounted' /\ Wanted'
<1> DEFINE new == Effects(v, hooks)
<1>1. view' = v /\ shown' = new /\ asks' = Cancelled(left, new) \cup Asked(hooks, new)
  BY DEF Render
<1>2. new \in [Hooks -> Query] /\ Faithful(new) /\ Keyed(v, new)
  BY EffectsAreFaithful
<1> HIDE DEF new
<1>3. ASSUME NEW a \in Cancelled(left, new)
      PROVE  a \in Ask /\ a.of # None /\ (a.live => a.of = new[a.hook].of)
  <2>1. PICK b \in left : a = [b EXCEPT !.live = @ /\ new[b.hook].of = b.of]
    BY DEF Cancelled
  <2>2. b \in Ask /\ b.of # None
    OBVIOUS
  <2>3. a = [hook |-> b.hook, of |-> b.of, live |-> b.live /\ new[b.hook].of = b.of]
    BY <2>1, <2>2 DEF Ask
  <2>4. (b.live /\ new[b.hook].of = b.of) \in BOOLEAN
    OBVIOUS
  <2>5. a.live => new[b.hook].of = b.of
    BY <2>3
  <2> QED
    BY <2>2, <2>3, <2>4, <2>5 DEF Ask
<1>4. ASSUME NEW a \in Asked(hooks, new)
      PROVE  a \in Ask /\ a.of # None /\ a.of = new[a.hook].of
  <2>1. PICK h \in Hooks : /\ a = [hook |-> h, of |-> new[h].of, live |-> TRUE]
                           /\ NeedsAsking(h, new[h].of)
    BY DEF Asked
  <2>2. new[h].of # None
    BY <2>1 DEF NeedsAsking
  <2>3. new[h].of \in Keys
    BY <1>2, <2>2 DEF Query
  <2> QED
    BY <2>1, <2>2, <2>3 DEF Ask
<1>5. asks' \subseteq Ask /\ Wanted'
  BY <1>1, <1>3, <1>4 DEF Wanted
<1>6. Mounted'
  BY <1>1, <1>2 DEF Mounted
<1>7. Faithful(shown)'
  BY <1>1, <1>2 DEF Faithful
<1> QED
  BY <1>1, <1>2, <1>5, <1>6, <1>7

LEMMA StartIsAView ==
    /\ \A c \in Chains : Start(c) \in View
    /\ \A supported \in SUBSET Chains : Default \in supported =>
           loadStored(supported) \in supported
    /\ Default \in Chains /\ Offered \subseteq Chains /\ Settable \subseteq Chains
<1>1. 0 \in 0..MaxAccount
  BY BoundsAssumption
<1>2. \A c \in Chains : Start(c) \in View
  BY <1>1 DEF Start, View
<1>3. Default \in Chains /\ Offered \subseteq Chains /\ Settable \subseteq Chains
  BY ChainsAssumption DEF Chains
<1> QED
  BY <1>2, <1>3 DEF loadStored

\* What is on the screen while a flow is pushed, or none is.
LEMMA RenderedIs ==
    ASSUME view \in View
    PROVE  /\ view.pushed = None => Rendered = view.at
           /\ view.pushed = "send" => Rendered = "send"
           /\ view.pushed = "asset" /\ IsEvm(view) /\ view.token # None => Rendered = "asset"
           /\ Rendered = "send" => view.pushed = "send"
           /\ Rendered = "asset" => view.pushed = "asset" /\ IsEvm(view) /\ view.token # None
<1>1. view.pushed \in Flows \cup {None} /\ view.at \notin Flows /\ None \notin Flows
  BY TabsAssumption DEF View, Flows
<1>2. CASE view.pushed \in {"send", "spark"}
  <2>1. Rendered = view.pushed
    BY <1>2, <1>1 DEF Rendered, Flows
  <2> QED
    BY <1>1, <1>2, <2>1 DEF Flows
<1>3. CASE view.pushed \in {"receive", "buy"}
  <2>1. Rendered = view.pushed \/ Rendered = view.at
    BY <1>3, <1>1 DEF Rendered, Flows
  <2> QED
    BY <1>1, <1>3, <2>1 DEF Flows
<1>4. CASE view.pushed = "smart"
  <2>1. Rendered = "smart" \/ Rendered = view.at
    BY <1>4, <1>1 DEF Rendered, Flows
  <2> QED
    BY <1>1, <1>4, <2>1 DEF Flows
<1>5. CASE view.pushed = "asset"
  <2>1. IF IsEvm(view) /\ view.token # None THEN Rendered = "asset" ELSE Rendered = view.at
    BY <1>5, <1>1 DEF Rendered, Flows
  <2> QED
    BY <1>1, <1>5, <2>1 DEF Flows
<1>6. CASE view.pushed = None
  <2>1. Rendered = view.at
    BY <1>6, <1>1 DEF Rendered, Flows
  <2> QED
    BY <1>1, <1>6, <2>1 DEF Flows
<1> QED
  BY <1>1, <1>2, <1>3, <1>4, <1>5, <1>6 DEF Flows

-----------------------------------------------------------------------------
(* The invariant but for what is pushed and for what is stored.              *)

Hooked == view \in View /\ shown \in [Hooks -> Query] /\ asks \subseteq Ask
          /\ Faithful(shown) /\ Mounted /\ Wanted

LEMMA SeesKeeps ==
    ASSUME Hooked, NEW v \in View, v.at # "settings", Sees(v)
    PROVE  Hooked' /\ view' = v
<1>1. \A a \in asks : a.of # None
  BY DEF Hooked, Wanted
<1> QED
  BY <1>1, RenderKeeps DEF Hooked, Sees

\* Without its hooks every request that is left is cancelled.
LEMMA UnmountKeeps ==
    ASSUME Hooked, shown' = Fresh, asks' = Cancelled(asks, Fresh),
           view' \in View, view'.at = "settings"
    PROVE  Hooked'
<1>1. ASSUME NEW a \in asks'
      PROVE  a \in Ask /\ a.of # None /\ ~a.live
  <2>1. PICK b \in asks : a = [b EXCEPT !.live = @ /\ Fresh[b.hook].of = b.of]
    BY <1>1 DEF Cancelled
  <2>2. b \in Ask /\ b.of # None
    BY DEF Hooked, Wanted
  <2>3. Fresh[b.hook].of # b.of
    BY <2>2 DEF Ask, Fresh, Unmounted
  <2>4. a = [hook |-> b.hook, of |-> b.of, live |-> FALSE]
    BY <2>1, <2>2, <2>3 DEF Ask
  <2> QED
    BY <2>2, <2>4 DEF Ask
<1> QED
  BY <1>1, FreshIsTyped DEF Hooked, Wanted, Mounted

\* A request that still counts is about the key its hook depends on now, and
\* what is mounted is the wallet.
LEMMA LiveIsWanted ==
    ASSUME Hooked, NEW a \in asks, a.live
    PROVE  a.of # None /\ a.of = shown[a.hook].of /\ view.at # "settings"
BY DEF Hooked, Wanted, Mounted, Fresh, Unmounted, Ask

LEMMA AnswerKeeps ==
    ASSUME Hooked, NEW a \in asks, Answer(a)
    PROVE  Hooked' /\ UNCHANGED <<stored, view, picked>>
<1>1. CASE ~a.live
  BY <1>1 DEF Answer, Hooked, Wanted, Mounted
<1>2. CASE a.live
  <2> DEFINE q == Answered(a)
             hooks == [shown EXCEPT ![a.hook] = q]
  <2>1. a \in Ask /\ a.of # None /\ a.of = shown[a.hook].of /\ view.at # "settings"
    BY <1>2, LiveIsWanted DEF Hooked
  <2>2. shown[a.hook] \in Query /\ shown["card"] \in Query
    BY <2>1 DEF Hooked, Ask, Hooks
  <2>3. q \in Query /\ q.of = a.of /\ q.data = a.of
    BY <2>1, <2>2 DEF Answered, Query, Ask
  <2>4. hooks \in [Hooks -> Query]
    BY <2>1, <2>3 DEF Hooked, Ask
  <2>5. Faithful(hooks)
    BY <2>1, <2>3 DEF Hooked, Faithful, Own
  <2>6. Left(a) \in SUBSET Ask /\ \A b \in Left(a) : b.of # None
    BY DEF Left, Hooked, Wanted
  <2>7. Render(view, hooks, Left(a)) /\ UNCHANGED <<stored, picked>>
    BY <1>2 DEF Answer
  <2> HIDE DEF hooks
  <2> QED
    BY <2>1, <2>4, <2>5, <2>6, <2>7, RenderKeeps DEF Hooked
<1> QED
  BY <1>1, <1>2

LEMMA FailsKeeps ==
    ASSUME Hooked, NEW a \in asks, Fails(a)
    PROVE  Hooked' /\ UNCHANGED <<stored, view, picked>>
<1>1. CASE ~a.live
  BY <1>1 DEF Fails, Hooked, Wanted, Mounted
<1>2. CASE a.live
  <2> DEFINE q == Failed(a)
             hooks == [shown EXCEPT ![a.hook] = q]
  <2>1. a \in Ask /\ a.of # None /\ a.of = shown[a.hook].of /\ view.at # "settings"
    BY <1>2, LiveIsWanted DEF Hooked
  <2>2. shown[a.hook] \in Query /\ shown["card"] \in Query /\ shown["price"] \in Query
    BY <2>1 DEF Hooked, Ask, Hooks
  <2>3. /\ q \in Query
        /\ a.hook # "price" /\ q.is \in {"address", "ready"} => q.data # None /\ q.data = q.of
    <3>1. CASE a.hook = "price"
      BY <2>2, <3>1 DEF Failed, Query
    <3>2. CASE a.hook = "tokens"
      BY <2>1, <2>2, <3>2 DEF Failed, Answered, Query, Ask
    <3>3. CASE a.hook \notin {"price", "tokens"} /\ shown[a.hook].is = "address"
      <4>1. q = shown[a.hook]
        BY <3>3 DEF Failed
      <4> QED
        BY <2>1, <2>2, <3>3, <4>1 DEF Hooked, Faithful, Own, Ask
    <3>4. CASE a.hook \notin {"price", "tokens"} /\ shown[a.hook].is # "address"
      BY <2>2, <3>4 DEF Failed, Query
    <3> QED
      BY <3>1, <3>2, <3>3, <3>4
  <2>4. hooks \in [Hooks -> Query]
    BY <2>1, <2>3 DEF Hooked, Ask
  <2>5. Faithful(hooks)
    BY <2>1, <2>3 DEF Hooked, Faithful, Own
  <2>6. asks \ {a} \in SUBSET Ask /\ \A b \in asks \ {a} : b.of # None
    BY DEF Hooked, Wanted
  <2>7. Render(view, hooks, asks \ {a}) /\ UNCHANGED <<stored, picked>>
    BY <1>2 DEF Fails
  <2> HIDE DEF hooks
  <2> QED
    BY <2>1, <2>4, <2>5, <2>6, <2>7, RenderKeeps DEF Hooked
<1> QED
  BY <1>1, <1>2

-----------------------------------------------------------------------------
(* Every step keeps the invariant.                                           *)

\* Over the settings nothing is pushed, so that none of its actions is a tab's.
LEMMA ActsInWallet ==
    ASSUME HomeIInv, Rendered # "settings"
    PROVE  view.at # "settings"
BY RenderedIs DEF HomeIInv, TypeOK, Pushed

\* A step of the wallet view: the new view need only be shown to respect what
\* is pushed.
LEMMA ViewStep ==
    ASSUME HomeIInv, NEW v \in View, v.at # "settings", Sees(v),
           stored' \in Chains \cup {None}, picked' \in Chains \cup {None},
           v.pushed \in {"asset", "send"} /\ v.token # None =>
               v.chain \in Evm /\ v.token \in Tokens[v.chain]
    PROVE  HomeIInv'
<1>1. Hooked' /\ view' = v
  BY SeesKeeps DEF HomeIInv, TypeOK, Hooked
<1> QED
  BY <1>1 DEF HomeIInv, TypeOK, Hooked, Pushed, IsEvm

LEMMA PushStep ==
    ASSUME HomeIInv, Rendered # "settings",
           NEW flow \in Flows \cup {None}, NEW token \in AllTokens \cup {None}, Push(flow, token),
           flow \in {"asset", "send"} /\ token # None => IsEvm(view) /\ token \in Tokens[view.chain]
    PROVE  HomeIInv'
<1> DEFINE over == [view EXCEPT !.pushed = flow]
           v == [over EXCEPT !.token = token]
<1>1. v = [at |-> view.at, chain |-> view.chain, account |-> view.account,
           pushed |-> flow, token |-> token]
  <2>1. over = [at |-> view.at, chain |-> view.chain, account |-> view.account,
                pushed |-> flow, token |-> view.token]
    BY DEF HomeIInv, TypeOK, View
  <2> HIDE DEF over
  <2> QED
    BY <2>1
<1>2. v \in View
  BY <1>1 DEF HomeIInv, TypeOK, View
<1>3. v.at # "settings"
  BY <1>1, ActsInWallet
<1>4. Sees(v) /\ UNCHANGED <<stored, picked>>
  BY DEF Push
<1>5. v.pushed \in {"asset", "send"} /\ v.token # None =>
          v.chain \in Evm /\ v.token \in Tokens[v.chain]
  BY <1>1 DEF IsEvm
<1> HIDE DEF v, over
<1> QED
  BY <1>2, <1>3, <1>4, <1>5, ViewStep DEF HomeIInv, TypeOK

LEMMA SwitchChainStep ==
    ASSUME HomeIInv, NEW c \in Chains, SwitchChain(c)
    PROVE  HomeIInv'
<1> DEFINE v == [view EXCEPT !.chain = c]
<1>1. Rendered = "home" /\ Sees(v) /\ stored' = c /\ picked' = c
  BY DEF SwitchChain, Acts
<1>2. v = [at |-> view.at, chain |-> c, account |-> view.account,
           pushed |-> view.pushed, token |-> view.token]
  BY DEF HomeIInv, TypeOK, View
<1>3. v \in View /\ v.at # "settings"
  BY <1>1, <1>2, ActsInWallet DEF HomeIInv, TypeOK, View
<1>4. view.pushed \in {"asset", "send"} => view.token = None
  BY <1>1, RenderedIs DEF HomeIInv, TypeOK, Pushed
<1>5. ~(v.pushed \in {"asset", "send"} /\ v.token # None)
  BY <1>2, <1>4
<1> HIDE DEF v
<1> QED
  BY <1>1, <1>3, <1>5, ViewStep

LEMMA SwitchAccountStep ==
    ASSUME HomeIInv, NEW i \in 0..MaxAccount, SwitchAccount(i)
    PROVE  HomeIInv'
<1> DEFINE v == [view EXCEPT !.account = i]
<1>1. Rendered = "home" /\ Sees(v) /\ UNCHANGED <<stored, picked>>
  BY DEF SwitchAccount, Acts
<1>2. v = [at |-> view.at, chain |-> view.chain, account |-> i,
           pushed |-> view.pushed, token |-> view.token]
  BY DEF HomeIInv, TypeOK, View
<1>3. v \in View /\ v.at # "settings"
  BY <1>1, <1>2, ActsInWallet DEF HomeIInv, TypeOK, View
<1>4. v.pushed \in {"asset", "send"} /\ v.token # None =>
          v.chain \in Evm /\ v.token \in Tokens[v.chain]
  BY <1>2 DEF HomeIInv, Pushed, IsEvm
<1> HIDE DEF v
<1> QED
  BY <1>1, <1>3, <1>4, ViewStep DEF HomeIInv, TypeOK

LEMMA SelectTabStep ==
    ASSUME HomeIInv, NEW tab \in {"home"} \cup Tabs, SelectTab(tab)
    PROVE  HomeIInv'
<1> DEFINE v == [view EXCEPT !.at = tab]
<1>1. Sees(v) /\ UNCHANGED <<stored, picked>>
  BY DEF SelectTab
<1>2. v = [at |-> tab, chain |-> view.chain, account |-> view.account,
           pushed |-> view.pushed, token |-> view.token]
  BY DEF HomeIInv, TypeOK, View
<1>3. v \in View /\ v.at # "settings"
  BY <1>2, TabsAssumption DEF HomeIInv, TypeOK, View
<1>4. v.pushed \in {"asset", "send"} /\ v.token # None =>
          v.chain \in Evm /\ v.token \in Tokens[v.chain]
  BY <1>2 DEF HomeIInv, Pushed, IsEvm
<1> HIDE DEF v
<1> QED
  BY <1>1, <1>3, <1>4, ViewStep DEF HomeIInv, TypeOK

\* A row of the list that is shown: of the selected chain, as the list is.
LEMMA OpenAssetStep ==
    ASSUME HomeIInv, NEW t \in AllTokens, OpenAsset(t)
    PROVE  HomeIInv'
<1>1. /\ Rendered = "home" /\ IsEvm(view) /\ shown["tokens"].is = "ready"
      /\ t \in Tokens[shown["tokens"].data[1]] /\ Push("asset", t)
  BY DEF OpenAsset, Acts
<1>2. view.at # "settings"
  BY <1>1, ActsInWallet
<1>3. /\ shown["tokens"].data # None
      /\ shown["tokens"].data = KeyOf("tokens", view, shown["account"])
  BY <1>1, <1>2 DEF HomeIInv, Faithful, Mounted, Keyed, Own, Hooks
<1>4. shown["tokens"].data = <<view.chain, view.account>>
  <2> DEFINE wanted == IsEvm(view) /\ shown["account"].is = "ready"
  <2>1. KeyOf("tokens", view, shown["account"]) =
            IF wanted THEN <<view.chain, view.account>> ELSE None
    BY DEF KeyOf
  <2> QED
    BY <1>3, <2>1
<1>5. t \in Tokens[view.chain]
  BY <1>1, <1>4
<1> QED
  BY <1>1, <1>5, PushStep DEF Flows

LEMMA FromAssetStep ==
    ASSUME HomeIInv, NEW flow \in Flows, FromAsset(flow)
    PROVE  HomeIInv'
<1>1. Rendered = "asset" /\ Push(flow, view.token)
  BY DEF FromAsset, Acts
<1>2. IsEvm(view) /\ view.token # None /\ view.token \in Tokens[view.chain]
  BY <1>1, RenderedIs DEF HomeIInv, TypeOK, Pushed
<1>3. view.token \in AllTokens \cup {None}
  BY DEF HomeIInv, TypeOK, View
<1> QED
  BY <1>1, <1>2, <1>3, PushStep

LEMMA FlowStep ==
    ASSUME HomeIInv, Send \/ Receive \/ Buy \/ Smart \/ Spark \/ Back
    PROVE  HomeIInv'
<1>1. view.token \in AllTokens \cup {None}
  BY DEF HomeIInv, TypeOK, View
<1>2. CASE Send
  BY <1>2, PushStep DEF Send, Acts, Flows
<1>3. CASE Receive
  BY <1>1, <1>3, PushStep DEF Receive, Acts, Flows
<1>4. CASE Buy
  BY <1>1, <1>4, PushStep DEF Buy, Acts, Flows
<1>5. CASE Smart
  BY <1>1, <1>5, PushStep DEF Smart, Acts, Flows
<1>6. CASE Spark
  BY <1>1, <1>6, PushStep DEF Spark, Acts, Flows
<1>7. CASE Back
  <2>1. Rendered \in Flows
    BY <1>7 DEF Back
  <2>2. PICK token \in {None, view.token} : Push(None, token)
    BY <1>7 DEF Back
  <2>3. None \notin {"asset", "send"} /\ Rendered # "settings"
    BY <2>1, TabsAssumption DEF Flows
  <2> QED
    BY <1>1, <2>2, <2>3, PushStep
<1> QED
  BY <1>2, <1>3, <1>4, <1>5, <1>6, <1>7

LEMMA SettingsStep ==
    ASSUME HomeIInv, OpenSettings \/ CloseSettings \/ \E c \in Chains : SetChain(c) \/ OtherSurface(c)
    PROVE  HomeIInv'
<1>1. Hooked /\ stored \in Chains \cup {None} /\ picked \in Chains \cup {None}
  BY DEF HomeIInv, TypeOK, Hooked
<1>2. /\ loadStored(Settable) \in Chains
      /\ loadStored(Offered) \in Chains
  BY StartIsAView, ChainsAssumption
<1>3. CASE OpenSettings
  <2> DEFINE c == loadStored(Settable)
  <2>1. view' = [Start(c) EXCEPT !.at = "settings"] /\ stored' = c /\ picked' = picked
        /\ shown' = Fresh /\ asks' = Cancelled(asks, Fresh)
    BY <1>3 DEF OpenSettings
  <2>2. view' = [at |-> "settings", chain |-> c, account |-> 0, pushed |-> None, token |-> None]
    BY <2>1 DEF Start
  <2>3. view' \in View
    BY <1>2, <2>2, BoundsAssumption DEF View
  <2>4. Hooked'
    BY <1>1, <2>1, <2>2, <2>3, UnmountKeeps
  <2>5. Pushed'
    BY <2>2, TabsAssumption DEF Pushed, Flows
  <2> QED
    BY <1>1, <1>2, <2>1, <2>4, <2>5 DEF HomeIInv, TypeOK, Hooked
<1>4. CASE CloseSettings
  <2> DEFINE c == loadStored(Offered)
  <2>1. Render(Start(c), Fresh, asks) /\ stored' = c /\ picked' = picked
    BY <1>4 DEF CloseSettings
  <2>2. Start(c) \in View /\ Start(c).at # "settings"
    BY <1>2, StartIsAView DEF Start
  <2>3. asks \in SUBSET Ask /\ \A a \in asks : a.of # None
    BY <1>1 DEF Hooked, Wanted
  <2>4. view' = Start(c) /\ Hooked'
    BY <2>1, <2>2, <2>3, FreshIsTyped, RenderKeeps DEF Hooked
  <2>5. Pushed'
    BY <2>4, TabsAssumption DEF Pushed, Start, Flows
  <2> QED
    BY <1>1, <1>2, <2>1, <2>4, <2>5 DEF HomeIInv, TypeOK, Hooked
<1>5. ASSUME NEW c \in Chains, SetChain(c)
      PROVE  HomeIInv'
  <2>1. /\ view.at = "settings" /\ view' = [view EXCEPT !.chain = c]
        /\ stored' = c /\ picked' = c /\ UNCHANGED <<shown, asks>>
    BY <1>5 DEF SetChain
  <2>2. view' = [at |-> "settings", chain |-> c, account |-> view.account,
                 pushed |-> view.pushed, token |-> view.token] /\ view' \in View
    BY <2>1 DEF HomeIInv, TypeOK, View
  <2>3. view.pushed = None
    BY <2>1 DEF HomeIInv, Pushed
  <2>4. Pushed'
    BY <2>2, <2>3, TabsAssumption DEF Pushed, Flows
  <2>5. Faithful(shown)' /\ Mounted' /\ Wanted'
    BY <2>1, <2>2 DEF HomeIInv, Faithful, Mounted, Wanted
  <2> QED
    BY <2>1, <2>2, <2>4, <2>5 DEF HomeIInv, TypeOK
<1>6. ASSUME NEW c \in Chains, OtherSurface(c)
      PROVE  HomeIInv'
  BY <1>6 DEF OtherSurface, HomeIInv, TypeOK, Faithful, Mounted, Keyed, Wanted, Pushed
<1> QED
  BY <1>3, <1>4, <1>5, <1>6

LEMMA HomeInit == Init => HomeIInv
<1> SUFFICES ASSUME Init PROVE HomeIInv
  OBVIOUS
<1> DEFINE c == loadStored(Offered)
<1>1. c \in Chains /\ stored \in Chains \cup {None} /\ view = Start(c) /\ picked = None
  BY StartIsAView, ChainsAssumption DEF Init
<1>2. view \in View /\ view.at # "settings" /\ view.pushed = None
  BY <1>1, StartIsAView DEF Start
<1>3. shown \in [Hooks -> Query] /\ Faithful(shown) /\ Keyed(view, shown)
  BY <1>2, FreshIsTyped, EffectsAreFaithful DEF Init
<1>4. ASSUME NEW a \in asks
      PROVE  a \in Ask /\ a.of # None /\ a.of = shown[a.hook].of
  <2>1. PICK h \in Hooks : /\ a = [hook |-> h, of |-> shown[h].of, live |-> TRUE]
                           /\ NeedsAsking(h, shown[h].of)
    BY DEF Init, Asked
  <2>2. shown[h].of # None
    BY <2>1 DEF NeedsAsking
  <2>3. shown[h].of \in Keys
    BY <1>3, <2>2 DEF Query
  <2> QED
    BY <2>1, <2>2, <2>3 DEF Ask
<1>5. Pushed
  BY <1>2, TabsAssumption DEF Pushed, Flows
<1> QED
  BY <1>1, <1>2, <1>3, <1>4, <1>5 DEF HomeIInv, TypeOK, Mounted, Wanted

LEMMA HomeStep == HomeIInv /\ [Next]_vars => HomeIInv'
<1> SUFFICES ASSUME HomeIInv, [Next]_vars PROVE HomeIInv'
  OBVIOUS
<1>1. CASE \E c \in Chains : SwitchChain(c)
  BY <1>1, SwitchChainStep
<1>2. CASE \E i \in 0..MaxAccount : SwitchAccount(i)
  BY <1>2, SwitchAccountStep
<1>3. CASE Send \/ Receive \/ Buy \/ Smart \/ Spark \/ Back
  BY <1>3, FlowStep
<1>4. CASE \E t \in AllTokens : OpenAsset(t)
  BY <1>4, OpenAssetStep
<1>5. CASE \E flow \in Flows : FromAsset(flow)
  BY <1>5, FromAssetStep
<1>6. CASE \E tab \in {"home"} \cup Tabs : SelectTab(tab)
  BY <1>6, SelectTabStep
<1>7. CASE OpenSettings \/ CloseSettings \/ \E c \in Chains : SetChain(c) \/ OtherSurface(c)
  BY <1>7, SettingsStep
<1>8. CASE \E a \in asks : Answer(a) \/ Fails(a)
  <2>1. Hooked' /\ UNCHANGED <<stored, view, picked>>
    BY <1>8, AnswerKeeps, FailsKeeps DEF HomeIInv, TypeOK, Hooked
  <2> QED
    BY <2>1 DEF HomeIInv, TypeOK, Hooked, Pushed
<1>9. CASE UNCHANGED vars
  BY <1>9 DEF vars, HomeIInv, TypeOK, Faithful, Mounted, Keyed, Wanted, Pushed
<1> QED
  BY <1>1, <1>2, <1>3, <1>4, <1>5, <1>6, <1>7, <1>8, <1>9 DEF Next

LEMMA HomeInvariant == Spec => []HomeIInv
BY HomeInit, HomeStep, PTL DEF Spec

\* What the home tab shows as an address, a balance or a list of tokens is of
\* the selected chain and account (popup/hooks: the cancelled flag), for any
\* number of chains, accounts and requests under way.
THEOREM HomeShowsItsOwn == Spec => []ShownIsOfKey
<1>1. HomeIInv => ShownIsOfKey
  BY DEF HomeIInv, Faithful, Mounted, Keyed, ShownIsOfKey, Own, Fresh, Unmounted
<1> QED
  BY <1>1, HomeInvariant, PTL

\* The token of an asset sheet or of a send is one of the selected chain
\* (main-view.tsx: sendToken and pushed, kept or dropped as flows are left).
THEOREM TokenStaysOnItsChain == Spec => []TokenIsOnChain
<1>1. HomeIInv => TokenIsOnChain
  BY RenderedIs DEF HomeIInv, TypeOK, Pushed, TokenIsOnChain
<1> QED
  BY <1>1, HomeInvariant, PTL

=============================================================================
