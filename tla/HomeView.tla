------------------------------ MODULE HomeView ------------------------------
(***************************************************************************)
(* The unlocked wallet (popup/views/main-view.tsx): the selected chain and   *)
(* account, the hooks that fetch what the home tab shows of them, and the    *)
(* flows that are pushed over it. The choice of the chain is kept in         *)
(* localStorage (wdk-ui use-active-chain.ts), which the wallet settings and  *)
(* the other surface write too.                                              *)
(*                                                                         *)
(* A hook asks whenever what it depends on changes, and its clean-up cancels *)
(* what it asked before: the answer is dropped when it arrives. React runs   *)
(* the effects of a click and of an answer before the next one, so that a    *)
(* change and what the hooks make of it are one step.                        *)
(***************************************************************************)
EXTENDS Naturals, FiniteSets

CONSTANTS
    Evm,        \* the EVM chains
    Others,     \* Solana, Bitcoin, TON and Tron chains: one card each
    Balanced,   \* those of them whose card shows a balance (all but Solana)
    Default,    \* ethereum: where nothing valid is stored, and the chain the
                \* EVM account hook asks for while another family is active
    Offered,    \* the chains of the picker on the home tab
    Settable,   \* those of the picker in the wallet settings
    Tokens,     \* the ERC-20 tokens known on each EVM chain
    Symbol,     \* the symbol of each chain's own asset
    Tabs,       \* the tabs besides home
    MaxAccount, \* bound on the account index
    MaxAsks,    \* bound on the requests under way when the user acts
    None

Chains == Evm \cup Others
AllTokens == UNION {Tokens[c] : c \in Evm}
Flows == {"receive", "send", "asset", "buy", "smart", "spark"}

ASSUME ChainsAssumption ==
    /\ Evm \cap Others = {} /\ Balanced \subseteq Others
    /\ Default \in Evm \cap Offered \cap Settable
    /\ Offered \subseteq Chains /\ Settable \subseteq Chains /\ None \notin Chains
ASSUME TokensAssumption ==
    DOMAIN Tokens = Evm /\ DOMAIN Symbol = Chains /\ None \notin AllTokens
ASSUME TabsAssumption == Tabs \cap (Flows \cup {"home", "settings"}) = {} /\ None \notin Flows
ASSUME BoundsAssumption == MaxAccount \in Nat /\ MaxAsks \in Nat

VARIABLES
    stored,   \* wdk-active-chain-v1 in localStorage
    view,     \* what is on the screen and what is selected
    shown,    \* the state of each hook
    asks,     \* the requests that are not answered
    picked    \* history: the chain the user chose last, unless elsewhere

vars == <<stored, view, shown, asks, picked>>

View == [at : {"home", "settings"} \cup Tabs, chain : Chains, account : 0..MaxAccount,
         pushed : Flows \cup {None}, token : AllTokens \cup {None}]

Keys == (Chains \X (0..MaxAccount)) \cup {Symbol[c] : c \in Chains}
\* of: what the hook depends on now; data: what its answer is about.
Query == [of : Keys \cup {None}, is : {"idle", "loading", "address", "ready", "error"},
          data : Keys \cup {None}]
Hooks == {"account", "balance", "tokens", "card", "price"}
Ask == [hook : Hooks, of : Keys, live : BOOLEAN]

TypeOK ==
    /\ stored \in Chains \cup {None} /\ view \in View
    /\ shown \in [Hooks -> Query]
    /\ asks \subseteq Ask
    /\ picked \in Chains \cup {None}

IsEvm(v) == v.chain \in Evm
EvmChain(v) == IF IsEvm(v) THEN v.chain ELSE Default

\* What a hook is asked for: the EVM account always, its balances once it is
\* known, the card of another family only while such a chain is active.
KeyOf(h, v, account) ==
    CASE h = "account" -> <<EvmChain(v), v.account>>
      [] h \in {"balance", "tokens"} ->
             IF IsEvm(v) /\ account.is = "ready" THEN <<v.chain, v.account>> ELSE None
      [] h = "card" -> IF IsEvm(v) THEN None ELSE <<v.chain, v.account>>
      [] h = "price" -> Symbol[v.chain]

\* A chain without tokens is answered without a request.
NeedsAsking(h, key) == key # None /\ (h = "tokens" => Tokens[key[1]] # {})

Unmounted == [of |-> None, is |-> "idle", data |-> None]

\* The price of before stays until the next one arrives; every other hook is
\* back at "loading", or at "idle" while it is not wanted.
Requery(h, key, q) ==
    IF q.of = key THEN q
    ELSE CASE h = "price" -> [q EXCEPT !.of = key]
           [] h # "price" /\ NeedsAsking(h, key) -> [of |-> key, is |-> "loading", data |-> None]
           [] h = "tokens" /\ key # None /\ ~NeedsAsking(h, key) ->
                  [of |-> key, is |-> "ready", data |-> key]
           [] OTHER -> Unmounted

\* The effects: the account first, since its state decides on the balances.
Effects(v, hooks) ==
    LET account == Requery("account", KeyOf("account", v, hooks["account"]), hooks["account"])
    IN  [h \in Hooks |-> IF h = "account" THEN account
                         ELSE Requery(h, KeyOf(h, v, account), hooks[h])]

\* Defect: an effect does not cancel what it asked before.
NeverCancelled(old, new) == old

Cancelled(old, new) ==
    {[a EXCEPT !.live = @ /\ new[a.hook].of = a.of] : a \in old}

Asked(hooks, new) ==
    {[hook |-> h, of |-> new[h].of, live |-> TRUE] :
        h \in {k \in Hooks : new[k].of # hooks[k].of /\ NeedsAsking(k, new[k].of)}}

\* The view and the hooks become v and hooks, left is still to be answered.
Render(v, hooks, left) ==
    LET new == Effects(v, hooks)
    IN  /\ view' = v
        /\ shown' = new
        /\ asks' = Cancelled(left, new) \cup Asked(hooks, new)

\* What is read when a view mounts: the stored chain if it has it.
loadStored(supported) == IF stored \in supported THEN stored ELSE Default

Fresh == [h \in Hooks |-> Unmounted]

Start(c) ==
    [at |-> "home", chain |-> c, account |-> 0, pushed |-> None, token |-> None]

Init ==
    /\ stored \in {None} \cup Offered
    /\ view = Start(loadStored(Offered))
    /\ shown = Effects(view, Fresh)
    /\ asks = Asked(Fresh, shown)
    /\ picked = None

-----------------------------------------------------------------------------
(* What is on the screen.                                                    *)

ActiveAddress ==
    LET q == IF IsEvm(view) THEN shown["account"] ELSE shown["card"]
    IN  q.is \in {"address", "ready"}

\* A pushed flow that lacks what it needs leaves the tabs in sight.
Rendered ==
    CASE view.pushed \in {"send", "spark"} -> view.pushed
      [] view.pushed \in {"receive", "buy"} /\ ActiveAddress -> view.pushed
      [] view.pushed = "smart" /\ IsEvm(view) -> "smart"
      [] view.pushed = "asset" /\ IsEvm(view) /\ view.token # None -> "asset"
      [] OTHER -> view.at

Acts(here) == Rendered = here /\ Cardinality(asks) <= MaxAsks

Sees(v) == Render(v, shown, asks)

-----------------------------------------------------------------------------
(* The home tab.                                                             *)

\* ChainSelector: the choice is saved as it is made.
SwitchChain(c) ==
    /\ Acts("home") /\ c \in Offered \ {view.chain}
    /\ Sees([view EXCEPT !.chain = c])
    /\ stored' = c /\ picked' = c

SwitchAccount(i) ==
    /\ Acts("home") /\ IsEvm(view)
    /\ i \in {view.account - 1, view.account + 1} \cap (0..MaxAccount)
    /\ Sees([view EXCEPT !.account = i])
    /\ UNCHANGED <<stored, picked>>

Push(flow, token) ==
    /\ LET over == [view EXCEPT !.pushed = flow] IN Sees([over EXCEPT !.token = token])
    /\ UNCHANGED <<stored, picked>>

\* Defect: the token of the sheet that was open before is not dropped.
SendLeftover == Acts("home") /\ ActiveAddress /\ Push("send", view.token)

\* Send pays the chain's own asset, whatever token was looked at before.
Send == Acts("home") /\ ActiveAddress /\ Push("send", None)

Receive == Acts("home") /\ ActiveAddress /\ Push("receive", view.token)
Buy == Acts("home") /\ ActiveAddress /\ Push("buy", view.token)
Smart == Acts("home") /\ IsEvm(view) /\ ActiveAddress /\ Push("smart", view.token)
Spark == Acts("home") /\ Push("spark", view.token)

\* A row of the token list, of the chain the list was read on.
OpenAsset(t) ==
    /\ Acts("home") /\ IsEvm(view)
    /\ shown["tokens"].is = "ready" /\ t \in Tokens[shown["tokens"].data[1]]
    /\ Push("asset", t)

\* The sheet of a token leads on to sending or receiving it.
FromAsset(flow) == Acts("asset") /\ flow \in {"send", "receive"} /\ Push(flow, view.token)

Back ==
    /\ Rendered \in Flows /\ Cardinality(asks) <= MaxAsks
    /\ Push(None, IF Rendered \in {"send", "asset"} THEN None ELSE view.token)

\* The tab bar is in sight unless a flow is pushed over it.
SelectTab(tab) ==
    /\ Rendered \in {"home"} \cup Tabs /\ tab \in ({"home"} \cup Tabs) \ {view.at}
    /\ Sees([view EXCEPT !.at = tab])
    /\ UNCHANGED <<stored, picked>>

-----------------------------------------------------------------------------
(* The wallet settings take the place of the view: its hooks are unmounted,  *)
(* and each of the two reads the stored chain when it mounts and saves what  *)
(* it came to.                                                               *)

OpenSettings ==
    /\ Acts("home")
    /\ LET c == loadStored(Settable)
       IN  view' = [Start(c) EXCEPT !.at = "settings"] /\ stored' = c
    /\ shown' = Fresh
    /\ asks' = Cancelled(asks, Fresh)
    /\ UNCHANGED picked

SetChain(c) ==
    /\ view.at = "settings" /\ c \in Settable \ {view.chain}
    /\ view' = [view EXCEPT !.chain = c]
    /\ stored' = c /\ picked' = c
    /\ UNCHANGED <<shown, asks>>

CloseSettings ==
    /\ view.at = "settings" /\ Cardinality(asks) <= MaxAsks
    /\ LET c == loadStored(Offered)
       IN  Render(Start(c), Fresh, asks) /\ stored' = c
    /\ UNCHANGED picked

\* The other surface saves its choice: no surface listens for it.
OtherSurface(c) ==
    /\ c \in Offered \cup Settable
    /\ stored' = c /\ picked' = None
    /\ UNCHANGED <<view, shown, asks>>

-----------------------------------------------------------------------------
(* The answers of the service worker.                                        *)

\* Bitcoin, TON and Tron: the address first, and the balance is asked for then.
Answered(a) ==
    IF a.hook = "card" /\ a.of[1] \in Balanced /\ shown["card"].is = "loading"
    THEN [shown["card"] EXCEPT !.is = "address", !.data = a.of]
    ELSE [shown[a.hook] EXCEPT !.is = "ready", !.data = a.of]

Left(a) == IF a.live /\ Answered(a).is = "address" THEN asks ELSE asks \ {a}

Answer(a) ==
    /\ IF a.live THEN Render(view, [shown EXCEPT ![a.hook] = Answered(a)], Left(a))
                 ELSE asks' = asks \ {a} /\ UNCHANGED <<view, shown>>
    /\ UNCHANGED <<stored, picked>>

\* A price that fails is no price, a balance that fails leaves the address, a
\* token that fails has no balance in a list that is shown all the same.
Failed(a) ==
    CASE a.hook = "price" -> [shown["price"] EXCEPT !.is = "error", !.data = None]
      [] a.hook = "tokens" -> Answered(a)
      [] a.hook \notin {"price", "tokens"} /\ shown[a.hook].is = "address" -> shown[a.hook]
      [] OTHER -> [shown[a.hook] EXCEPT !.is = "error", !.data = None]

Fails(a) ==
    /\ IF a.live THEN Render(view, [shown EXCEPT ![a.hook] = Failed(a)], asks \ {a})
                 ELSE asks' = asks \ {a} /\ UNCHANGED <<view, shown>>
    /\ UNCHANGED <<stored, picked>>

-----------------------------------------------------------------------------
Next ==
    \/ \E c \in Chains : SwitchChain(c) \/ SetChain(c) \/ OtherSurface(c)
    \/ \E i \in 0..MaxAccount : SwitchAccount(i)
    \/ Send \/ Receive \/ Buy \/ Smart \/ Spark \/ Back
    \/ \E t \in AllTokens : OpenAsset(t)
    \/ \E flow \in Flows : FromAsset(flow)
    \/ \E tab \in {"home"} \cup Tabs : SelectTab(tab)
    \/ OpenSettings \/ CloseSettings
    \/ \E a \in asks : Answer(a) \/ Fails(a)

Spec == Init /\ [][Next]_vars

-----------------------------------------------------------------------------
(* Properties.                                                               *)

\* What the home tab shows as the address, the balance and the tokens is of
\* the selected chain and account, in whatever order the chain and the account
\* are switched and the answers arrive (use-main-account.ts, use-balance.ts,
\* use-token-balances.ts, use-solana-account.ts: the cancelled flag).
ShownIsOfKey ==
    \A h \in Hooks \ {"price"} :
        shown[h].is \in {"address", "ready"} =>
            shown[h].data # None /\ shown[h].data = KeyOf(h, view, shown["account"])

\* A token that is looked at or sent is one of the selected chain, although
\* the token of an earlier sheet may still be kept when the chain is switched
\* (main-view.tsx: sendToken, pushed).
TokenIsOnChain ==
    Rendered \in {"asset", "send"} /\ view.token # None =>
        IsEvm(view) /\ view.token \in Tokens[view.chain]

\* The chain the user chose last is the one that is shown. Not so for a chain
\* that only the wallet settings offer (README, "Departures").
ChosenChainIsShown == picked # None => view.chain = picked

\* A fiat value is of the asset beside it. Not so while the price of the chain
\* before is still kept (README, "Departures").
PriceIsOfSymbol == shown["price"].data # None => shown["price"].data = Symbol[view.chain]

=============================================================================
