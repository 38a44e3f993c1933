# Formal model of the WDK wallet extension

This directory holds a TLA+ development of the browser wallet in `src/`: a
Manifest V3 extension whose service worker keeps the wallet's secrets, serves
web pages through an injected EIP-1193 provider, asks the user in a popup or a
side panel, and forwards chain work to the WDK libraries. Modules model the
code, TLC checks them on small instances, and TLAPS proves the properties
that matter most for every value of the constants.

Code paths below that name no directory are of
`src/apps/extension/src/background/`; `popup/`, `inpage/` and `content/` are
beside it, and `worker/`, `vault/`, `chains/`, `adapters/` and `payments/` are of
`src/packages/wdk-web-core/src/`.

## 1. Inventory

### The parts and how they interact

```
 web page ── inpage/provider ── content/bridge ──┐                chrome.storage.local
                                                 │ DAPP_REQUEST       ▲  prefs, allow-list
 popup ──┐                                       ▼                    │
         ├── sw-client messages ──► dispatch ► handlers ─► connection-state
 side ───┘   LOCK, VAULT_*,            │          │
 panel       APPROVAL_*, ...           │          ├─► approval-flow ─► openPopup / badge
   │                                   │          ├─► WalletWorker ─► vault (IndexedDB), WDK
   │                                 engine ◄─────┘                   └► adapters ─► network
   │                                   ▲
   └─ localStorage: history, chain     chrome.alarms ─► lifecycle (auto-lock)
```

| Component | State it keeps | Operations | Hard behaviour | What makes it correct |
|---|---|---|---|---|
| Request handling (`handlers.ts`, `dapp-handlers.ts`, `dapp-dispatcher.ts`) | the suspended handlers, each behind an `await` | the EIP-1193 methods, vault, lock, settings and approval messages | what is read before the user is asked is used after it; any other handler runs in between | one effect per request, only after a yes; only granted accounts are served; every request is answered |
| Approval flow (`approval-flow.ts`) | `pending` map, badge | open, respond, cancelAll | answers, locks and new requests race for one map | the map is exactly what waits; what waits is visible |
| Allow-list (`connection-state.ts`) | map in memory, one shared load, snapshots on their way to storage | load, approve, revoke, revokeAll, save | storage refuses, answers late, or loses what was under way when the worker dies | a confirmed revocation is final; nothing unread is overwritten |
| Engine and idle timer (`engine.ts`, `lifecycle.ts`) | lock state, last activity, threshold | lock, unlock, onActivity, checkIdle, setIdleMinutes | a coarse alarm, a preference that changes behind the worker, restarts | locked in time; locked means no seed |
| Wallet worker (`worker/wallet-worker.ts`) | manager and mnemonic | vault_*, lock, account and protocol calls | several awaits per operation while a lock, a load or a clear replaces the manager | one seed at a time, and a call ends with the one it began with |
| Chain registry (`chains/registry.ts`) | chains tracked for each manager | ensure | check and registration around an await | registered before use |
| Vault (`vault/`) | encrypted blob, database connection | store, load, clear | key derivation and IndexedDB are slow and may fail | a failed connection fails everything, with half an effect of nothing |
| Backup (`backup.ts`) | envelope with checksum | export, import | replaces the vault under a running wallet | what is restored is what was backed up |
| Page provider and content bridge (`inpage/`, `content/`, `dispatch.ts`, `dapp-event-bus.ts`) | calls by id, install id, events under way | request, response, event, announcement | three contexts that come and go independently | each call settles, and is served under the origin of its window; events stay in order |
| Popup session and onboarding (`popup/app.tsx`, `use-vault-state.ts`, vault views) | polled vault state, screen, phrase | poll, unlock, lock, create, import, back up, restore | stale polls, two surfaces, store succeeds and load fails | the wallet is one the user has a phrase of; what is shown was true |
| Payment views and history (`popup/views`, `use-transactions.ts`) | form, quote, list in localStorage, polls | edit, quote, confirm, record, poll | answers after edits, two surfaces with one list, late polls | what is sent was reviewed; the list is the newest answered sends |
| Home view (`main-view.tsx`, balance hooks) | chain, account, hooks, pushed flow | switch, push, back, settings | answers about the chain before | what is shown is of what is selected |
| Subscriptions (`adapters/subscription.ts`) | socket, calls under way, registrations | subscribe, unsubscribe, reconnect | lost sockets, failed reconnects, ids assigned by the server | a subscription that exists is served again, one that was ended stays silent |
| RPC, indexer, pricing (`adapters/`) | token bucket, attempts, cursors | read, page, price | limits, retries, fallbacks, rows that arrive between pages | the limit holds, pages leave no gap |
| Payment encodings (`payments/`) | none | bech32, BOLT11, URI, addresses | checksums, bit regrouping, amounts | decode inverts encode, amounts are exact |
| WalletConnect bridge, hardware signer | sessions | pair, approve, sign | external peers | not wired by start-up code |
| UI primitives and themes | none of protocol interest | rendering | none | not modelled |

The hazards of this code are listed at their lines in `PROJECT.json`, with the
properties that would catch them going wrong, or with the reason why none does.

## 2. Modules

| Module | Models | Uses |
|---|---|---|
| `ConnectionState` | `connection-state.ts` over an asynchronous `chrome.storage.local` | |
| `ConnectionAudit` | every sequence of calls of `ConnectionState`, with what an auditor would note down | `ConnectionState` |
| `ApprovalFlow` | the pending map of `approval-flow.ts` | |
| `RequestContract` | abstract: what a page request may do, whatever serves it | |
| `ServiceWorker` | `handlers.ts`, `dapp-handlers.ts`, `dapp-dispatcher.ts`, engine, vault and idle lock around the two above | `ApprovalFlow`, `ConnectionState`, `RequestContract` |
| `AutoLock` | `lifecycle.ts` and its wiring in `index.ts`, with time | |
| `ApprovalBadge` | popup and badge of `approval-flow.ts` | `ApprovalFlow` |
| `WorkerLifecycle` | alarm, timer, pending requests and badge over many lives of the worker | `AutoLock`, `ApprovalBadge` |
| `WalletWorker` | `worker/wallet-worker.ts`, `chains/registry.ts`, `vault/` | |
| `DappPipeline` | `inpage/`, `content/`, `dispatch.ts`, `dapp-event-bus.ts` | |
| `Popup` | the shell of a surface, onboarding, unlock, backup (`backup.ts`) | |
| `HomeView` | `main-view.tsx`, its hooks, the chain choice of `use-active-chain.ts` | |
| `Payments` | the payment views, the history and the polls of its statuses | |
| `PaymentCodes` | `payments/` and the send view's reading of a scanned code, as operators | |
| `Adapters` | `adapters/rpc.ts`, `retry.ts`, `rate-limit.ts`, `indexer.ts`, `pricing.ts` | |
| `Subscription` | `adapters/subscription.ts`: one connection, its socket and its registrations | |
| `MC*` | constants for TLC; `MCPaymentCodes` compares `PaymentCodes` with reference definitions | |
| `*Proofs` (eight) | theorems | TLAPS |

### ServiceWorker

One request is a record that walks through `stage`. JavaScript runs a handler
without interruption up to its next `await`, so an action is what happens
between two awaits:

| Stage | The handler awaits | Left by |
|---|---|---|
| `new` | | `Submit` (DAPP_REQUEST arrives) |
| `loading` | `connectionState.load()` | `Handle` (the method's handler up to its next await), `LoadRejected` |
| `deriving` | an address or a transaction's preparation in the WalletWorker | `Derived` |
| `asking` | `approvalFlow.open()` | `Respond` (approve or reject), `CancelRequests` |
| `signing` | the signature or the broadcast | `Signs` (it is done, the request still waits), `Signed` (it returns or throws, also after it was done) |
| `saving` | `connectionState.approve()` | `Saved`, `SaveRejected` |
| `telling` | the addresses for the answer of eth_requestAccounts | `Answered` |
| `answering` | the addresses for the answer of eth_accounts | `Answered` |
| `closed` | answered, with a result or an error | |

The vault and settings messages of a wallet UI do the same with `op[p]`: a UI
awaits one such operation at a time. `Lock` and `AutoLock` are the two ways
the engine is locked, `LoadList` is the read of the allow-list, `Restart` the
death of the worker: memory is lost, what reached storage is not.

A seed stands for the WDK manager, the mnemonic and, in `vault`, for the
encrypted blob; an address is a pair of seed and account index. VAULT_STORE writes
over a vault that is there, as the code does. The history variables say what the
user did: `grant`, the accounts each origin was granted and of which no revocation
was confirmed since (a revocation counts when its save is answered, so neither a
refused one nor one lost with the worker does); `taking`, what each revocation
under way takes back; `due`, what a request's origin was granted at some time since
the request arrived; `withdrawn`, which requests waited for the user when LOCK or
VAULT_CLEAR was served; `cause`, what locked the engine last; `overtaken`, the
surfaces whose VAULT_CLEAR was under way when a load ended.

Abstractions, all of them visible in the module's comments: resolving the
address of a call to an index is one step; a wrong password, a corrupt blob
and a failed derivation are one nondeterministic failure; `chrome.storage`
carries out the writes of one area in the order they were issued; VAULT_CLEAR
is a message the worker serves, although no control of the shipped UI sends
it; the ACCOUNT_*, SPARK_* and LIGHTNING_* messages, which forward to the
worker and change none of this state, are in `WalletWorker`.

### ConnectionState and ConnectionAudit

`conns` is the map in memory (`[origin -> entry or NoEntry]`), `load` the
shared promise, `stored` the map in storage, `writes` the snapshots on their
way there, each with the caller that awaits it. Every save writes the whole
map, so what matters is which snapshot comes last. `ConnectionAudit` adds
which origins the user asked to revoke and which revocations were confirmed. A
revoke of an origin that is not in the map resolves without a save
(`connection-state.ts:134`) and confirms nothing.

### AutoLock, ApprovalBadge, WorkerLifecycle

Time passes in ticks, the alarm counts down `toAlarm`, and `late` counts how
long the wallet has been unlocked beyond its threshold. The preference
reaches the worker by two ways, `Hydrate` at start-up and `PrefChanged`
afterwards. The badge belongs to the browser, like the alarm; `unseen` is the
history of requests whose popup did not open. `WorkerLifecycle` puts both in
one worker: an answer of the user is a message, so it also resets the timer,
and a restart hits both.

### WalletWorker

An operation is where it takes its account from (`source`) and what it awaits of
WDK after that (`work`: reads, signatures, broadcasts), and the many public
methods of the class are the sets `EvmSend` to `LightningOps`. A call takes the
manager (`BeginWdk`, `_requireWdk`) or the mnemonic (`BeginSeed`, smart and Spark
accounts) when it begins, may await the registration of its chain
(`registering`), then its account (`account`), then goes through its work
(`Answered`, or `Rejected` and `Unreadable` when WDK's answer is none the worker
knows). `Dispose`, `Forget` and `Decrypted` replace the manager at any time, as
`vault_load`, `lock` and `vault_clear` do: managers are numbered, and `seedOf`
remembers the seed of each. The vault's operations walk through the awaits of
`vault/index.ts`: derive, open, get or put. `db` is the promise of the connection,
which is remembered when it fails. The loaders of the registry are settled
promises, so only calls that begin in the same task interleave with a
registration (`Quiet`). `used` and `asked` are history.

### DappPipeline

`page[t]` is the document of a tab, with how far the content script and the
injected script have come (`script`); `call[c]` is one EIP-1193 call on its way:
`posted`, `sent` by the bridge, `answered` by the worker, `settled` in the page, or
`gone` with it. `into` is the origin of the document it was posted to and `stamp`
the origin the bridge puts on it. The page's provider posts into its own window
(`Request`); a frame of the page or the window that opened it may post the same
envelope (`RequestOfFrame`, `frame` its origin), which the bridge takes alike and
whose answer the page's provider ignores (`ignored`), since it has no such call
pending. `Visits` and `Frames` say where a tab may be taken and which other windows
hold its window. What the worker decides is open: `ServiceWorker` models that. A broadcast first
queries the tabs (`queries`), then puts one message per tab in `push`;
`handleEvent` of the content script filters by origin. `Navigate` replaces a
document, with its calls and listeners but not with the messages under way to
its tab; `WorkerDies` rejects what waits at its port. The install id is read and
written by each load (`ReadUuid`, `StoreUuid`): two tabs may both create one.

### Popup

`ui[s]` is what a surface shows; its `screen` is the state of the view that is
mounted. `jobs[s]` are its requests to the worker and `polls[s]` its polls of
VAULT_HAS_STORED and GET_LOCK_STATE, whose two reads are separate steps.
A job's answer is carried out by the worker and heard by the view if that is
still mounted (`live`): the chain of store and load goes on even when it is not.
`Kept` says what the twelve boxes of the import grid hold of a typed phrase.
`owned` is the history of phrases the user verified, typed in or had before, and
`since` of what was true since the surface last asked.

### HomeView

`view` is what the screen shows and what is selected; `shown[h]` the state of a hook
(`of`: what it depends on; `data`: what its answer is about), `asks` the
requests under way, `live` until an effect's clean-up cancels them. `Render` is a
state change of React with the effects it runs. `stored` is the chain choice in
localStorage, which `SetChain` and `OtherSurface` write too.

### Payments and PaymentCodes

A form's contents are one value (`form`), the quote or review on the screen
another (`shown`). A request remembers which view of which mount of which surface
asked: `Then` is what that view makes of the answer, if it still is there;
`addTransaction` happens whether it is or not. `Close` ends the document and all
that is under way in it. `truth` is what the chain says of a transaction and
`polls[s][n]` the overlapping polls of one. `PaymentCodes` has no state: decoding,
checksums, address rules, amounts and the reading of a payment request are
operators, and `MCPaymentCodes` states what they must satisfy as assumptions that
TLC evaluates when the `payments` run starts.

### Adapters

Three machines that share nothing, one `task` per behaviour. `reads`: each read
waits in line (`tail`) for the bucket, fails and backs off; the clock ticks in
units of the refill. `history`: pages by number while transactions arrive and
the primary indexer fails over. `price`: the sources in their order. `starts` is
the history of limited requests, `walk.got` of the transactions read.

### Subscription

One connection of the WebSocket adapter. `socket`, `ready`, `reconnects`, `regs`
and `pending` are the closure's variables of those names, `route` is
`byServerId`, `serverId` the field of each registration, `retired` is
`closedByUser`. `sub[s]` says where the one call of a subscription stands:
`connecting` awaits `connect()`, `subscribing` the server's id, `removing` is
`removeAll()` between two filters, `unsubscribing` awaits the answer of an
unsubscribe. `loop[l]` is the `reestablish()` that follows the l-th drop.
`server` is the other end: what the present socket's server would notify, by id.
Its ids start again with each socket.

JavaScript follows up settled promises before it looks at the next event; the
events (an answer, a socket that opens or closes, a timer, a product's call)
therefore wait for `Quiet`. `Gone` is the body of `onclose` up to its early
return; `SocketDrops`, `SocketFails` and `SocketCloses` are its three cases: an
open socket, one that never opened, one that `maybeClose()` closed. A `Set` is
walked in any order instead of the order of insertion, which is an
over-approximation. Each subscription is asked for once, and the wait of the
timer (whose length no property depends on) is one step. Not modelled: the
mock adapter, and the map from URL to connection beyond "a retired connection
is not handed out again".

## 3. Runs

| Run | Shows | Bounds |
|---|---|---|
| `service_worker` | `LocksDisposeOfSeed`, `WithdrawnNeverActs`, `WaitingIsPending`, `AccountsWereGranted`, `EventsFollowStorage`, and that the worker implements `RequestContract` | two requests that connect, sign, send or switch, popup and side panel, one origin, one seed, two chains; idle lock, imports, refused writes, restarts |
| `requests_move_on` | liveness: every request reaches the user or its answer | two requests that ask for accounts, connect, sign, switch or add a chain, one UI, two seeds; refused reads and writes, idle lock |
| `connection_audit` | `RevokedStaysRevoked`, `LastWriteIsMemory`, `NothingLostUnasked` | two origins, three writes under way, refused writes, restarts |
| `worker_lifecycle` | `LateIsBounded`, `UnseenIsBadged` | thresholds 0, 1, 3, alarm every 2 ticks, two requests, restarts |
| `subscription` | `RoutesAreTheServers`, `HeldIdsRoute`; liveness: `CallsEnd`, `ServedAgain` | a subscription of two filters and one of one filter, two drops, three ids, any number of sockets that fail and of refusals |
| `wallet_worker` | `KeysOfOneSeed`, `RegisteredBeforeUse`, `CallKeepsItsSeed`, `FailedOpenIsFinal`; liveness: `CallsEnd` | four calls: a load, a store or clear, a load or an address, and one on an account of each source with its longest work; two managers, two seeds and garbage, one restart, any number of locks |
| `dapp_pipeline` | `ServedUnderItsOrigin`, `HearsItsOwnInOrder`; liveness: `CallsSettle`, `DappFindsWallet` | two tabs, two origins, a frame of the other origin in one tab, one call, two events, one navigation, one death of the worker |
| `wallet_ui` | `WalletIsUsersOwn`, `ShownSinceRefresh`; liveness: `LoadingEnds` | a popup with two requests and two polls under way, a panel with one of each; one minted phrase, a valid, a mistyped and a long one; a weak and a strong password |
| `home` | `ShownIsOfKey`, `TokenIsOnChain` | two EVM chains, Solana, Bitcoin; two accounts; the user acts while at most two requests are under way |
| `payments` | `ReviewedIsSent`, `HistoryIsNewest`, `ResolvedSticks`; liveness: `StatusIsLearnt`; and the comparisons of `MCPaymentCodes` | a popup with every payment view, a panel with the activity; two requests, a history of one record, two polls of a transaction under way |
| `adapters` | `RateRespected`, `PagesLeaveNoGap` | three reads, burst 2, period 2, three attempts, six ticks; nine transactions in pages of two, arriving at any time, two indexers; two price sources |
| `auto_lock_seed` (violation) | `LockDisposesOrCancels`: the idle alarm leaves the seed in the WalletWorker, and the waiting request in the pending map | one request, one UI |

Why the bounds are enough. The interactions are between pairs: a request and
the user's settings, two requests, a request and a lock, a write and a
restart. Two requests and two UIs give every such pair, together with
a third party (the alarm, storage, a restart). Two seeds are what it takes to
confuse them, two chains to switch: `requests_move_on` has two seeds, so that a
signature may be asked of the wrong one, and `service_worker`, whose properties
speak of no particular seed, has one, and takes requests and surfaces as symmetric. Every awaiting caller has at most one save
under way, so `MaxWrites` bounds nothing (`MaxWritesAssumption`). `idle` is
capped above the largest threshold, where all values behave alike. For the
subscriptions, two drops are a drop during the reconnect that follows another,
two filters a drop between two adds, and three ids one for each filter; the
server gives out the lowest free one, so that the ids of a lost socket come
again for other filters.

For the wallet worker, two managers are one that is replaced under a call and
its successor; the account call may be of every source, so that each kind meets
each vault operation. In the pipeline one navigation makes every message meet a
document it was not meant for, two events can be swapped, lost or heard twice, one frame posts where the page would,
and a second tab creates the other install id. A history of one record makes the
second send push the first one out. Two polls of one transaction, in each
surface, can be answered in the wrong order. Three reads against a burst of two
make one wait, and its retry queue behind the others. Pages of two over nine
transactions are up to five pages, with arrivals between any of them, enough of them
to put more than a page in front of what was there at first. The theorems hold for
any choice.

`late` is not capped: `LateIsBounded` bounds it. `CancelNothing`,
`LockKeepsSeed` and other operators marked "Defect" state plausible bugs; no
specification uses them. They document, for each property, a change of the
code that the property would catch. CHECK_DEADLOCK is off where the system
really stops: all calls made and answered, or the clock at its bound.

## 4. Fairness

`ServiceWorker` assumes weak fairness of storage (`LoadList`), of every step of
a request that needs only the worker, storage or the microtask queue
(`RequestStep`), and of the end of a settings write (`SettingsSaved`): each is
the settlement of a promise Chrome or the WDK library owes. Nothing is assumed
of the user (`Respond`, `SurfaceStep`), of pages (`Submit`), of the alarm or of
restarts. `RequestsMoveOn` therefore ends at "in front of the user".

`ConnectionAudit` states the fairness of its reads and writes for the same
reason; its run checks safety.

`Subscription` assumes it of the socket (`SocketSettles`: it opens or fails, one
that was closed is gone), of every step of a call (`SubStep`) and of a reconnect
(`LoopStep`): timers fire, and a server answers what it was asked while the
socket lasts. That a socket drops, and what products ask for, is left open; the
number of drops is finite (`MaxDrops`), so `ServedAgain` speaks of what follows
the last one.

`WalletWorker` assumes it of the opening of the database (`Opened`) and of each
call that was begun (`Goes`): WDK, the network and IndexedDB answer, with a result
or with an error. Whether a call, a lock or a restart comes is open.

`DappPipeline` assumes that scripts which were injected run (`Load`), that
messages arrive (`Receive`, `Hop`), and that tabs.query answers (`TabsKnown`).
`Hop` includes the worker's handler: `CallsSettle` takes the user to answer, which
`RequestsMoveOn` leaves open.

`Popup` assumes only that a message to the worker is answered or reported lost
(`Told`), which Chrome owes; the user owes nothing.

`Payments` assumes that the interval of the activity view goes on (weak fairness of
`Poll`), and that a node that is asked again and again answers in the end (strong
fairness of `PollRead` and `PollAnswered`: a poll can fail any number of times).

`HomeView`, `Adapters`, `AutoLock`, `ApprovalBadge` and `WorkerLifecycle` are checked
for safety only and assume nothing.

## 5. What is proved

`ServiceWorkerProofs`, for any requests, UIs, origins, chains, accounts,
seeds and calls:

* `TypeCorrect`: the type invariant, which also says that nothing acted before
  it was asked and that what is put before the user to sign has a signer.
* `PendingIsExact`: `pending` is exactly what waits. The proof goes through a
  frame lemma (`RequestFrame`) that sums up what each action does to requests.
* `LockWithdrawsApprovals`: a request that LOCK or VAULT_CLEAR withdrew is answered
  and never has its effect. Inductive together with `PendingIsExact`: what is
  cancelled is what waits, and what is closed stays closed. The idle alarm may lock
  in between as often as it likes; it withdraws nothing, and nothing is claimed of it.
* `LockDisposesOfSeed`: whatever loads and clears of any surfaces are under way, an
  engine that was locked by LOCK, VAULT_CLEAR or the death of the worker holds no
  seed. Strengthened by `ClearHoldsNoSeed`: between the dispose and the deletion of
  VAULT_CLEAR there is no seed unless the load of another surface ended there
  (`overtaken`). That case and the idle alarm are the two in which the
  unconditional `LockedHoldsNoSeed` fails; see section 6.
* `OnlyGrantedAccounts`: the allow-list holds only what was granted and not taken
  back by a confirmed revocation, and a request is signed with an account its
  origin was granted at some time since the request arrived. `ListGranted` says it
  of memory, storage and every snapshot on its way there; `RevocationsHold`, that
  the snapshot a revocation awaits, and every later one, spares no account it takes
  back unless it was granted again; `OneSaveEach`, that a surface awaits one save;
  `RequestsDue`, that what a request may use is what its origin had since it came.
* `EventsAreOfStoredChains`: strengthened by `SwitchesAreCarried`, the snapshot that
  a switch waits for carries the switched chain, so it is in storage when the
  switch goes on to tell the pages. `CallersAssumption` (a request is no surface)
  is needed: a write is awaited by one or the other.
* `WorkerKeepsContract`: the refinement of `RequestContract`, step by step.

`WorkerLivesProofs`, of the allow-list: `AuditTypeCorrect`, `MemoryIsWrittenLast`,
`RevocationIsFinal` and `OnlyRevokedIsLost`. The strengthening of the latter
two says of each snapshot under way which revocations it already contains. Of the
timer: `TypeCorrect` and `LatenessBound`, with the inductive
`late + toAlarm <= Period`: each tick that adds to the lateness brings the alarm
nearer. `WorkerKeepsTime` shows that the whole worker
implements the timer's specification, which gives `WorkerLatenessBound`;
`UnseenHasBadge` is proved of the badge.

`NetworkProofs`, of the subscriptions, for any subscriptions, filters, ids, reconnect
limit and number of drops: `TypeCorrect`, `NotificationsReachTheirHandler` and
`UnsubscribeNamesItsOwn`. Neither of the latter is inductive. A reconnect loop
may renew a registration that was removed while it waited, so what a
registration outside `regs` holds means nothing, and one that enters `regs` must
be known to hold nothing: `OwnsFilters` says which filters a call has added and
not yet removed (they are in `regs`) and which it has not added (nothing has
touched them). `Ending` says that the id a call asks the server to forget is
still the server's, routed no more, and no other call's.

`WalletWorkerProofs`, for any calls, operations, chains, seeds and number of
loads: `KeysAreOfOneSeed`, `ChainsAreRegisteredFirst`, `CallsKeepTheirSeed` and
`AFailedOpenIsFinal`.
The inductive invariant `WIInv` adds that managers are numbered in the order of
creation and only those made are used or disposed of (`Numbered`), that a tracked
chain was registered (`Tracked`, which lets a second call go past the registration
of the first), and what each call holds on its way (`Sound`): one that is past the
registration has its chain registered, one on keys has the seed that was loaded
when it began. The last theorem adds `Connected`: as long as the database is not open,
a call of the vault is at its open, or at the derivation a store makes before it.

`DappPipelineProofs`, for any tabs, origins, calls, events, navigations and deaths:
`CallsCarryTheirOrigin` and `EventsReachTheirOriginInOrder`. `Documents` says which
document a call was posted to: its load is not beyond that of its tab, and where
both are the same the tab still shows the origin it was posted into, which is what
the bridge stamps, whichever window posted it. `Ordered` relates the three queues an event goes
through: each is sorted, what a page has seen precedes what is on its way to its
tab, and that precedes what still waits for `tabs.query`.

`NetworkProofs`, of the limiter, for any reads, period, burst and clock:
`RateIsRespected`. The strengthening `Accounted` is a potential argument: for each
earlier start, the tokens spent since and those in the bucket are at most a full
bucket and what came back with the time since.

`NetworkProofs`, of the history, for any size of pages, any indexers and any number of
transactions that arrive: `NoGapBetweenPages`. `Paged` says that all between the
oldest transaction read and the newest of the start have been read, and where the
cursor stands: at that oldest one, or, for a page number, no further down than just
below it. The first attempt at this proof refuted the property as it stood, which
spoke of every transaction up to the newest one *read*: transactions that arrive
between two pages of a reader by page number come twice or not at all, which six
transactions were too few to show. The property now speaks of what was there when
the reader began (`walk.first`), and the run has nine.

`HomeViewProofs`, for any chains, tokens, accounts and requests under way:
`HomeShowsItsOwn` and `TokenStaysOnItsChain`. `Faithful` says of each hook that its
answer is of what it depends on, `Mounted` that it depends on what the view
selects (or is unmounted, in the settings), `Wanted` that a request whose answer
will still be taken is for that, and `Pushed` what a token may be left under.

`PaymentsProofs`, for any surfaces, views, forms, size of the history and number of
requests and mounts: `TypeCorrect`, `NothingUnseenIsSent`, `NewestAreKept` and
`FinalStatusSticks`. The inductive invariant has two halves. `FormsInv`: the send
view shows what it will send while it reviews and sends (`Reviewed`); a request was
made by the view that is mounted or by an earlier one of its surface, and if it is of
the mounted one, that view waits (`Waiting`), for this request alone (`Single`). One
payment at a time is what is proved; that a payment is not confirmed again after a
refusal is not (section 6).
`RecordsInv`: requests are numbered apart and an answered one is under way no more
(`Distinct`, without which a late answer could be recorded twice); what a record or a
poll says of the outcome is the outcome (`Recording`, `Telling`), of something that
was broadcast (`Listing`). `FormsAssumption` keeps the value `None` apart from forms
and statuses.

`PopupProofs`, for any surfaces, phrases, passwords and number of requests and polls:
`TypeCorrect`, `StoredIsUsersOwn` and `ShownIsRecent`. `Polling` says that at most
one poll of a surface is heard, only while the surface says it is loading, and that
what it has read was true since the surface asked. `Mounting` says that a screen
which waits for nothing has no request of a mounted screen beside it, and one that
waits has one: without it an answer could put a phrase on a screen that asked for
something else. `Owning` says that the phrase of every screen on the way to a store,
and of every request that may store one, is the user's; for a backup that holds only
where its checksum fits. `FirstsAssumption` says that a strong password can be typed,
and that a vault which is there at first has a phrase and a strong password.

Every safety invariant and every action property that a passing run checks is thus
the statement of a theorem. Only model-checked: liveness (`RequestsMoveOn`, both
`CallsEnd`, `ServedAgain`, `CallsSettle`, `DappFindsWallet`, `LoadingEnds`,
`StatusIsLearnt`), which is out of the prover's reach; `PaymentCodes`, whose checksum
is a recursion over the data and uses bitwise operators.

## 6. Departures: where the code differs from its documents

`auto_lock_seed` shows the gravest one; `PROJECT.json` quotes the documents.
The following were found with the same models. Where a formula is named it is
defined beside the others in its module; checking it as an invariant or a property
under that module's configuration gives the counterexample.

Service worker and allow-list:

* A switch that waits for the user re-creates an entry that was revoked
  meanwhile (`dapp-handlers.ts:372`), although an entry is written "when a dApp calls
  eth_requestAccounts and the user approves" (`connection-state.ts:4`;
  `EntryMeansGrant`).
* The index that was resolved before the approval is used with the seed of
  after it (`dapp-handlers.ts:250`): the handler "is responsible for verifying that
  tx.from matches the connection state's allow-list" (`worker/wallet-worker.ts:256`),
  and does so against the seed of before (`SignerIsRequested` with two seeds).
* Nor is the allow-list looked at again: a request that waits for the user while its
  connection is revoked is still signed (`dapp-handlers.ts:250`;
  `SignsWithGranted`). What holds is that the account was granted at some time since
  the request arrived (`AccountsWereGranted`).
* A revocation whose save is refused is out of the map and not of storage: the list
  in the settings no longer shows it, a second request (of a surface that still
  shows the old list) resolves at once with `ok: false` (`connection-state.ts:134`),
  which the settings do not look at
  (`popup/views/settings/sections/connections-section.tsx:44`), and the entry is back
  with the next worker.
* The user's answer to a connection may be an empty list of accounts
  (`dapp-handlers.ts:218`): the origin is then connected, with none.
* An imported vault inherits the allow-list (`handlers.ts:122`), although "a new
  seed gets a fresh allow-list" (`docs/architecture/ARCHITECTURE.md:61`;
  `FreshAllowList` with two seeds). So does the next wallet of a worker that
  is killed between the deletion of the vault and `revokeAll()` (`handlers.ts:97`).
* "Never" is ignored after a restart: start-up takes a preference of 0 for none
  (`index.ts:153`), although "0 = disabled (Never)" (`lifecycle.ts:46`, and
  `README.md:58`; `NeverIsHonored`).
* The idle alarm calls `engine.lock()` and nothing else (`lifecycle.ts:68`). The seed
  stays in the WalletWorker, although auto-lock "zeroizes in-memory key state"
  (`docs/security/SECURITY.md:24`), and the waiting requests stay in the map,
  although `index.ts:23` says `cancelAll()` is called: they can be approved after the
  next unlock. Either promise alone would give `LockDisposesOrCancels`, which
  `auto_lock_seed` refutes, and so both of them.
* With two UIs, an unlock that ends while VAULT_CLEAR deletes the blob leaves its
  seed in a worker whose engine is locked (`handlers.ts:92`;
  `LockedHoldsNoSeed` with `AutoLockOn = FALSE`).
* One failed read of the allow-list is remembered for the life of the worker:
  `loadPromise` stays rejected (`connection-state.ts:48`), so every later
  request fails. `RequestsMoveOn` holds since they are answered with an error.
* The badge outlives a worker that dies with a request waiting: nothing clears
  it until the next `cancelAll()` or answer (`approval-flow.ts:82`).

Page and content script:

* The bridge looks at `event.data` alone (`content/bridge.ts:41-48`): an envelope that
  a frame or the opener posts into a page's window is served under the page's
  origin, and its answer is posted there, where no provider waits for it.
  `ServedUnderItsOrigin` is therefore about the document posted to;
  `ServedUnderItsPoster`, about the one that posted, does not hold.

Subscriptions:

* A reconnect that fails before its socket opens is the last one
  (`adapters/subscription.ts:188`), although "onclose reschedules while attempts
  remain" (`:219`, and "transparently reconnects", `:16`; `KeepsTrying`).
* A renewal under way routes a subscription that has ended meanwhile
  (`adapters/subscription.ts:211`), although unsubscribe tears it down
  (`subscription.spec.ts:115`; `SilentAfterUnsubscribe`).
* A subscribe that fails or is refused leaves its registration in `regs`
  (`subscription.ts:235`): the next reconnect asks for it, and its handler is
  called, although the caller has no handle to end it with.
* A subscription added while a reconnect waits for its timer opens the socket
  itself; the timer then asks for it a second time (`subscription.ts:217`), and
  the first id stays at the server after unsubscribe.
* `reconnects` goes back to 0 when a socket opens and is raised only by the
  drop of an open one (`subscription.ts:177`, `:191`), so it never exceeds 1: the
  backoff of line 190 never doubles and a limit above 0 never stops anything.
* One refused renewal ends the loop (`subscription.ts:217`): the filters behind
  it are not renewed until the next drop.

Wallet worker, vault and adapters:

* Two first calls for a chain both register it: the check and the registration
  are on two sides of an await (`chains/registry.ts:108`), although the function
  is documented as idempotent (`:55`, `:95`): `wallets` reaches 2. What matters to a caller, that the chain is registered when it
  goes on, holds (`RegisteredBeforeUse`).
* `FailedOpenIsFinal` is about the connection of the worker's own vault. The
  backup handlers open one of their own.
* A page's cursor is that of the indexer that gave it, and a fall-back takes it
  for its own (`adapters/indexer.ts:484`: pages fall back "the same way"): a reader
  that "resumes" (`:56`) over a failure skips or repeats rows (`PagesResume`).
* Reads of a transaction's status go past the limiter that is "in front of every
  RPC call" (`adapters/rpc.ts:30`; `Unlimited`).
* A token whose balance could not be read counts as a balance of 0, and a
  transfer that is derived from balance changes names whoever paid the fee as
  its counterparty and counts the fee in its value.

Popup and home view:

* The import view unmounts its password screen while it stores
  (`popup/views/import-vault-view.tsx:79`), so a failed VAULT_STORE or VAULT_LOAD
  shows no message; the create view keeps it and shows one.
* "Enter the 12- or 24-word recovery phrase" (`import-vault-view.tsx:143`), but
  the grid has twelve boxes: a longer phrase is cut (`Kept`), and where the cut
  one happens to have a valid checksum another wallet is imported.
* Two surfaces may create wallets side by side; the second VAULT_STORE replaces
  the first vault without a word. `WalletIsUsersOwn` holds, since the user has
  verified both phrases.
* `ApprovalView` and `useApprovalQueue` are mounted nowhere in the application.
* Opening the settings over the onboarding loses its phrase, unlock errors become
  one message, an error while polling has no retry, and a surface does not hear
  of an idle lock until it asks again.
* The pickers of home view and settings differ: a Bitcoin, TON or Tron chain
  chosen in the settings is not the one the home view then shows
  (`ChosenChainIsShown`), although `docs/DEMO.md:23` switches to all of them. The
  comment at `popup/views/main-view.tsx:64` still describes an EVM-only view.
* After a switch the price of the chain before stands beside the balance of the
  new one until the next answer (`popup/hooks/use-usd-value.ts:20`;
  `PriceIsOfSymbol`).

Payments:

* Swap, bridge and withdraw take the answer of a quote for the form as it is
  then: edited meanwhile, the old quote stands beside the new amount and can be
  confirmed (`popup/views/swap-view.tsx:109`; `QuotedIsSent`). Editing during a
  swap also brings its button back, and it can be sent twice: `ReviewedIsSent`
  excludes the requoting views.
* "Lists the sends the wallet has broadcast" (`popup/views/activity-view.tsx:4`), but
  a record is written by the document that asked, at the answer: closing it, or an
  answer that fails after the broadcast, loses the record and invites the user to
  send again (`popup/views/send-view.tsx:155`; `BroadcastIsListed`): the review is back
  on the screen, and its confirmation is a second broadcast. `ReviewedIsSent` bounds
  the payments under way at one time, not those of one review. Spark and
  Lightning sends are never recorded.
* The lending view's last screen names the action that is selected now, not the one
  that was sent.
* An EIP-681 `transfer` fills in the token's contract as the recipient of a native
  send (`popup/views/send-view.tsx:91`; `TransfersAreFilledIn`), and the chain id of a
  request is ignored.

## 7. Not modelled, and the plan

Left for later work, in this order:

1. Proofs: `FreshAllowList` without imports and restarts.
2. An abstract at-most-once channel for `DappPipeline`, and `WalletWorker` as the
   implementation of the seed that `ServiceWorker` keeps.
3. The limits of localStorage (a write that exceeds the quota is dropped without
   notice) in `Payments`, and larger instances of it.

Left out, and why:

* WalletConnect bridge and hardware signer: no start-up code wires them, so
  neither their peers nor the order of their calls is in the repository.
* The approval queue view: written, but mounted nowhere.
* The wdk-events port of the engine: nothing in the popup listens to it.
* Relayer and mock adapters: one request, one answer.
* Rendering, themes, wording; the validation of message shapes in `dispatch.ts`.
* The WDK libraries and the nodes behind them: external, a call ends with a
  result or an error. Key derivation and encryption as algorithms.
