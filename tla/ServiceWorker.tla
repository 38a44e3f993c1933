---------------------------- MODULE ServiceWorker ----------------------------
(***************************************************************************)
(* The MV3 service worker (apps/extension/src/background): the requests of *)
(* web pages, the operations of the popup and the browser that may lock or *)
(* kill the worker, all running between each other's awaits.               *)
(*                                                                         *)
(* JavaScript runs one handler until its next await, so an action here is  *)
(* the code between two awaits that really wait (storage, IndexedDB, key   *)
(* derivation, the user, the network); an await that only yields to the    *)
(* microtask queue ends no action.                                         *)
(*                                                                         *)
(* Composed of ApprovalFlow (the requests that wait for the user) and      *)
(* ConnectionState (the allow-list and its storage). The lock state of the *)
(* engine, the seed of the WalletWorker and the stored vault are declared  *)
(* here.                                                                   *)
(***************************************************************************)
EXTENDS Naturals, Sequences, FiniteSets

CONSTANTS
    Reqs,           \* request ids
    Surfaces,       \* wallet UIs that are open: popup, side panel
    Origins,        \* web origins
    Chains,         \* EVM chains of the wallet
    DefaultChain,   \* DEFAULT_CHAIN
    Accounts,       \* account indices
    Seeds,          \* recovery phrases the user may hold
    PageCalls,      \* the calls pages make in a run
    NoSeed, NoEntry, NoCall, NoAccount, NoAddress, NoChain,
    AutoLockOn,     \* prefs:autoLockMinutes is not 0 (Never)
    MayImport,      \* the user may restore a backup over the vault
    MayRestart,     \* Chrome may kill the service worker
    MayFail,        \* storage operations may be refused
    MaxWrites       \* bound on concurrent saves, see MaxWritesAssumption

Addresses == [seed : Seeds, account : Accounts]

Methods == {"accounts", "connect", "sign", "send", "switch", "addChain"}

\* addr: the address named by personal_sign, eth_signTypedData_v4 and the
\* `from` of eth_sendTransaction ("sign"); "send" is eth_sendTransaction
\* without `from`. chain: the target of wallet_switchEthereumChain.
Calls == [origin : Origins, method : Methods,
          addr : Addresses \cup {NoAddress}, chain : Chains \cup {NoChain}]

Entries == [chain : Chains, accounts : SUBSET Accounts]

Callers == Reqs \cup Surfaces

\* Requests and wallet UIs are different callers.
ASSUME CallersAssumption == Reqs \cap Surfaces = {}
ASSUME DefaultChainAssumption == DefaultChain \in Chains
ASSUME NoSeedAssumption == NoSeed \notin Seeds
ASSUME NoEntryAssumption == NoEntry \notin Entries
ASSUME NoCallAssumption == NoCall \notin Calls
ASSUME NoAccountAssumption == NoAccount \notin Accounts
ASSUME PageCallsAssumption ==
    /\ PageCalls \subseteq Calls
    /\ \A c \in PageCalls : c.method = "sign" => c.addr \in Addresses
    /\ \A c \in PageCalls : c.method = "switch" => c.chain \in Chains
ASSUME SwitchesAssumption ==
    {AutoLockOn, MayImport, MayRestart, MayFail} \subseteq BOOLEAN
\* Every caller awaits at most one save(), so this many writes always fit.
ASSUME MaxWritesAssumption ==
    MaxWrites \in Nat /\ (IsFiniteSet(Callers) => MaxWrites >= Cardinality(Callers))

VARIABLES
    lockState,  \* engine: "locked" or "unlocked"
    seed,       \* WalletWorker.wdk and _mnemonic: the seed they hold
    vault,      \* the encrypted blob in IndexedDB: the seed it protects
    op,         \* the vault or settings operation each surface awaits
    pending,    \* approvalFlow.pending
    conns, load, stored, writes,    \* connectionState
    req,        \* the requests
    told,       \* the chain of the last chainChanged each origin was sent
    (* History: what the user said, and how the wallet was locked.         *)
    grant,      \* the accounts each origin was granted and of which no revocation
                \* was confirmed since, and the wallet of the last grant
    taking,     \* the accounts that each revocation under way takes back
    due,        \* the accounts a request's origin was granted at some time since
                \* the request arrived
    withdrawn,  \* requests that waited when LOCK or VAULT_CLEAR was served
    cause,      \* what locked the engine last
    overtaken   \* surfaces whose VAULT_CLEAR was under way when a load ended

connVars == <<conns, load, stored, writes>>
vaultVars == <<lockState, seed, vault, op>>
grantHistory == <<grant, taking, due>>
lockHistory == <<withdrawn, cause, overtaken>>
historyVars == <<grantHistory, lockHistory>>
vars == <<vaultVars, pending, connVars, req, told, historyVars>>

Flow == INSTANCE ApprovalFlow WITH Ids <- Reqs
List == INSTANCE ConnectionState

IdleOp == [do |-> "idle", seed |-> NoSeed]
TakesNothing == [o \in Origins |-> {}]

NewReq == [stage |-> "new", call |-> NoCall, account |-> NoAccount,
           key |-> NoSeed, acted |-> FALSE]

Stages == {"new", "loading", "deriving", "answering", "asking",
           "signing", "saving", "telling", "closed"}

Request == [stage : Stages, call : PageCalls \cup {NoCall},
            account : Accounts \cup {NoAccount},
            key : Seeds \cup {NoSeed}, acted : BOOLEAN]

Operation == [do : {"idle", "store", "load", "clear", "revokeAll", "saving"},
              seed : Seeds \cup {NoSeed}]

\* What is in front of the user has a signer, if it is to be signed, and no
\* request has its effect before the user was asked.
RequestTypeOK ==
    /\ req \in [Reqs -> Request]
    /\ \A r \in Reqs :
          req[r].acted => req[r].stage \in {"signing", "saving", "telling", "closed"}
    /\ \A r \in Reqs : req[r].stage = "new" <=> req[r].call = NoCall
    /\ \A r \in pending : req[r].call.method \in {"sign", "send"} =>
                              req[r].account \in Accounts

WalletTypeOK ==
    /\ lockState \in {"locked", "unlocked"}
    /\ seed \in Seeds \cup {NoSeed}
    /\ vault \in Seeds \cup {NoSeed}
    /\ op \in [Surfaces -> Operation]

HistoryTypeOK ==
    /\ told \in [Origins -> Chains \cup {NoChain}]
    /\ grant \in [Origins -> [accounts : SUBSET Accounts, seed : Seeds \cup {NoSeed}]]
    /\ taking \in [Surfaces -> [Origins -> SUBSET Accounts]]
    /\ due \in [Reqs -> SUBSET Accounts]
    /\ withdrawn \in SUBSET Reqs
    /\ cause \in {"request", "alarm", "overtaken"}
    /\ overtaken \in SUBSET Surfaces

TypeOK ==
    /\ WalletTypeOK
    /\ Flow!FlowTypeOK
    /\ List!ConnTypeOK
    /\ RequestTypeOK
    /\ HistoryTypeOK

Init ==
    /\ lockState = "locked"
    /\ seed = NoSeed
    /\ vault = NoSeed
    /\ op = [p \in Surfaces |-> IdleOp]
    /\ Flow!FlowInit
    /\ List!ConnInit
    /\ req = [r \in Reqs |-> NewReq]
    /\ told = [o \in Origins |-> NoChain]
    /\ grant = [o \in Origins |-> [accounts |-> {}, seed |-> NoSeed]]
    /\ taking = [p \in Surfaces |-> TakesNothing]
    /\ due = [r \in Reqs |-> {}]
    /\ withdrawn = {}
    /\ cause = "request"
    /\ overtaken = {}

-----------------------------------------------------------------------------
(* Reading the allow-list, and the requests' own bookkeeping               *)

Connected(o) == conns[o] # NoEntry
ApprovedAccounts(o) == IF Connected(o) THEN conns[o].accounts ELSE {}
ActiveChain(o) == IF Connected(o) THEN conns[o].chain ELSE DefaultChain

At(r, stage) == req[r].stage = stage
Method(r) == req[r].call.method
Origin(r) == req[r].call.origin

Closed(rec) == [rec EXCEPT !.stage = "closed"]

Close(r) == req' = [req EXCEPT ![r] = Closed(@)]
GoTo(r, stage) == req' = [req EXCEPT ![r].stage = stage]

\* A call into the WalletWorker: it takes the manager it finds, and without
\* one throws "WDK not initialized", which answers the request.
CallWorker(r, stage, account) ==
    IF seed = NoSeed
    THEN Close(r)
    ELSE req' = [req EXCEPT ![r].stage = stage, ![r].key = seed, ![r].account = account]

\* What every request step of this section leaves alone.
KeepWallet == UNCHANGED <<vaultVars, told, historyVars>>

-----------------------------------------------------------------------------
(* Web pages                                                               *)

\* A page calls window.ethereum.request: DAPP_REQUEST reaches dappDispatch.
Submit(r, call) ==
    /\ At(r, "new")
    /\ req' = [req EXCEPT ![r].stage = "loading", ![r].call = call]
    /\ due' = [due EXCEPT ![r] = grant[call.origin].accounts]
    /\ UNCHANGED <<pending, connVars, vaultVars, told, grant, taking, lockHistory>>

\* Defect: a failed load is swallowed and the handler never resumes.
LoadRejectedHangs(r) == At(r, "loading") /\ load = "failed" /\ UNCHANGED vars

\* connectionState.load() rejects for every handler that awaits it.
LoadRejected(r) ==
    /\ At(r, "loading")
    /\ load = "failed"
    /\ Close(r)
    /\ UNCHANGED <<pending, connVars>> /\ KeepWallet

Ask(r) == Flow!Open(r) /\ GoTo(r, "asking")
Refuse(r) == Close(r) /\ UNCHANGED pending

\* eth_accounts, and eth_requestAccounts of a connected origin: answer with
\* the addresses of the approved indices.
AnswerAccounts(r) ==
    /\ IF ApprovedAccounts(Origin(r)) = {}
       THEN Close(r)
       ELSE CallWorker(r, "answering", NoAccount)
    /\ UNCHANGED pending

HandleAccounts(r) ==
    /\ Method(r) = "accounts"
    /\ AnswerAccounts(r)

HandleConnect(r) ==
    /\ Method(r) = "connect"
    /\ \/ Connected(Origin(r)) /\ AnswerAccounts(r)
       \/ ~Connected(Origin(r)) /\ lockState = "locked" /\ Refuse(r)
       \/ ~Connected(Origin(r)) /\ lockState = "unlocked" /\ Ask(r)

\* The index whose address is the one the page named, among the approved
\* ones; every candidate is derived with the seed the worker holds now.
ResolvedAccount(r) ==
    LET a == req[r].call.addr
    IN  IF a.seed = seed /\ a.account \in ApprovedAccounts(Origin(r))
        THEN a.account ELSE NoAccount

\* signPreflight: connected, unlocked, then derive to resolve the address.
HandleSign(r) ==
    /\ Method(r) = "sign"
    /\ \/ /\ ~Connected(Origin(r)) \/ lockState = "locked"
          /\ Close(r)
       \/ /\ Connected(Origin(r)) /\ lockState = "unlocked"
          /\ IF ApprovedAccounts(Origin(r)) = {}
             THEN Close(r)
             ELSE CallWorker(r, "deriving", ResolvedAccount(r))
    /\ UNCHANGED pending

\* eth_sendTransaction without `from`: the first approved index is used and
\* no address is derived before the user is asked.
HandleSend(r) ==
    /\ Method(r) = "send"
    /\ \/ /\ ~Connected(Origin(r)) \/ lockState = "locked"
             \/ ApprovedAccounts(Origin(r)) = {}
          /\ Refuse(r)
       \/ /\ Connected(Origin(r)) /\ lockState = "unlocked"
          /\ Flow!Open(r)
          /\ \E i \in ApprovedAccounts(Origin(r)) :
                req' = [req EXCEPT ![r].stage = "asking", ![r].account = i]

\* wallet_switchEthereumChain asks only for a change; neither it nor
\* wallet_addEthereumChain looks at the lock state.
HandleSwitch(r) ==
    /\ Method(r) = "switch"
    /\ \/ /\ ~Connected(Origin(r)) \/ ActiveChain(Origin(r)) = req[r].call.chain
          /\ Refuse(r)
       \/ /\ Connected(Origin(r)) /\ ActiveChain(Origin(r)) # req[r].call.chain
          /\ Ask(r)

HandleAddChain(r) ==
    /\ Method(r) = "addChain"
    /\ \/ ~Connected(Origin(r)) /\ Refuse(r)
       \/ Connected(Origin(r)) /\ Ask(r)

\* The handler goes on once connectionState.load() has resolved.
Handle(r) ==
    /\ At(r, "loading")
    /\ load = "loaded"
    /\ \/ HandleAccounts(r) \/ HandleConnect(r) \/ HandleSign(r)
       \/ HandleSend(r) \/ HandleSwitch(r) \/ HandleAddChain(r)
    /\ UNCHANGED connVars /\ KeepWallet

\* The derivations of signPreflight are over: ask the user if an index had
\* the address. A derivation may fail (and the typed data may not parse).
Derived(r) ==
    /\ At(r, "deriving")
    /\ \/ req[r].account # NoAccount /\ Ask(r)
       \/ Refuse(r)
    /\ UNCHANGED connVars /\ KeepWallet

-----------------------------------------------------------------------------
(* The user answers (APPROVAL_RESPOND), and the handler resumes            *)

Reject(r) ==
    /\ Flow!Settle(r)
    /\ Close(r)
    /\ UNCHANGED connVars /\ KeepWallet

\* The wallet in front of the user: the one in memory, or the one on disk.
WalletSeed == IF seed = NoSeed THEN vault ELSE seed

\* What the user is noted down to have granted: a revocation under way no
\* longer takes these accounts back, and whatever waits for the origin may use them.
Grants(o, accounts) ==
    /\ grant' = [grant EXCEPT ![o] = [accounts |-> @.accounts \cup accounts, seed |-> WalletSeed]]
    /\ taking' = [p \in Surfaces |-> [taking[p] EXCEPT ![o] = @ \ accounts]]
    /\ due' = [r \in Reqs |-> IF ~At(r, "new") /\ Origin(r) = o THEN due[r] \cup accounts
                               ELSE due[r]]

\* decision.data when it is a list of indices, an empty one too; [0] otherwise.
ApproveConnect(r, accounts) ==
    /\ Flow!Settle(r)
    /\ Method(r) = "connect"
    /\ List!Approve(Origin(r), [chain |-> DefaultChain, accounts |-> accounts], r)
    /\ req' = [req EXCEPT ![r].stage = "saving", ![r].acted = TRUE]
    /\ Grants(Origin(r), accounts)
    /\ UNCHANGED <<vaultVars, told, lockHistory>>

\* No second look at the lock state or at the allow-list: whatever the worker
\* holds now signs, with the index resolved before the user was asked.
ApproveSignature(r) ==
    /\ Flow!Settle(r)
    /\ Method(r) \in {"sign", "send"}
    /\ CallWorker(r, "signing", req[r].account)
    /\ UNCHANGED connVars /\ KeepWallet

\* Defect: the indices come from what was stored, not from the live map.
ApproveSwitchStored(r) ==
    /\ Flow!Settle(r)
    /\ Method(r) = "switch"
    /\ List!Approve(Origin(r),
          [chain |-> req[r].call.chain,
           accounts |-> IF stored[Origin(r)] = NoEntry THEN {} ELSE stored[Origin(r)].accounts], r)
    /\ req' = [req EXCEPT ![r].stage = "saving", ![r].acted = TRUE]
    /\ KeepWallet

\* The indices are read again after the approval, the entry is rewritten.
ApproveSwitch(r) ==
    /\ Flow!Settle(r)
    /\ Method(r) = "switch"
    /\ List!Approve(Origin(r),
          [chain |-> req[r].call.chain, accounts |-> ApprovedAccounts(Origin(r))], r)
    /\ req' = [req EXCEPT ![r].stage = "saving", ![r].acted = TRUE]
    /\ KeepWallet

\* The chain is not registered: the request only answers null.
ApproveAddChain(r) ==
    /\ Flow!Settle(r)
    /\ Method(r) = "addChain"
    /\ Close(r)
    /\ UNCHANGED connVars /\ KeepWallet

\* Guarded by the pending map alone, see Settle.
Respond(r) ==
    \/ Reject(r)
    \/ \E accounts \in SUBSET Accounts : ApproveConnect(r, accounts)
    \/ ApproveSignature(r)
    \/ ApproveSwitch(r)
    \/ ApproveAddChain(r)

\* The worker has signed, or the network has the transaction.
Signs(r) ==
    /\ At(r, "signing") /\ ~req[r].acted
    /\ req' = [req EXCEPT ![r].acted = TRUE]
    /\ UNCHANGED <<pending, connVars>> /\ KeepWallet

\* The call returns or throws: it may fail before the signature, and after
\* the broadcast too, when the answer of the network is lost.
Signed(r) ==
    /\ At(r, "signing")
    /\ Close(r)
    /\ UNCHANGED <<pending, connVars>> /\ KeepWallet

\* approve() resolves: answer with the addresses of the approved indices, of
\* which there may be none, or send chainChanged.
Saved(r) ==
    /\ At(r, "saving")
    /\ writes # <<>> /\ Head(writes).by = r
    /\ List!WriteDone
    /\ \/ /\ Method(r) = "connect"
          /\ IF Head(writes).image[Origin(r)].accounts = {}
             THEN Close(r)
             ELSE CallWorker(r, "telling", NoAccount)
          /\ UNCHANGED told
       \/ /\ Method(r) = "switch"
          /\ Close(r)
          /\ told' = [told EXCEPT ![Origin(r)] = req[r].call.chain]
    /\ UNCHANGED <<vaultVars, pending, historyVars>>

\* Defect: chainChanged is sent whether or not the save succeeded.
SaveRejectedTells(r) ==
    /\ At(r, "saving")
    /\ writes # <<>> /\ Head(writes).by = r
    /\ List!WriteFail
    /\ Close(r)
    /\ told' = IF Method(r) = "switch" THEN [told EXCEPT ![Origin(r)] = req[r].call.chain] ELSE told
    /\ UNCHANGED <<vaultVars, pending, historyVars>>

\* approve() rejects: the page gets an error, the map keeps the entry.
SaveRejected(r) ==
    /\ At(r, "saving")
    /\ writes # <<>> /\ Head(writes).by = r
    /\ List!WriteFail
    /\ Close(r)
    /\ UNCHANGED pending /\ KeepWallet

\* The addresses are derived, or the derivation fails: answer either way.
Answered(r) ==
    /\ At(r, "answering") \/ At(r, "telling")
    /\ Close(r)
    /\ UNCHANGED <<pending, connVars>> /\ KeepWallet

-----------------------------------------------------------------------------
(* The wallet's own UI, the auto-lock alarm                                *)

Idle(p) == op[p].do = "idle"
Start(p, do, s) == op' = [op EXCEPT ![p] = [do |-> do, seed |-> s]]
Finish(p) == op' = [op EXCEPT ![p] = IdleOp]

\* engine.lock(), and what called it.
LockEngine(by) == lockState' = "locked" /\ cause' = by

\* Who waited for the user when the wallet was locked by a message.
Withdraw == withdrawn' = withdrawn \cup pending

\* Defect: the map is cleared, the promises are never rejected.
CancelForgets == Flow!CancelAll /\ Withdraw /\ UNCHANGED req

\* Defect: the requests that wait are left in the map.
CancelNothing == Withdraw /\ UNCHANGED <<pending, req>>

\* approvalFlow.cancelAll(): every waiting handler resumes with an error.
CancelRequests ==
    /\ Flow!CancelAll
    /\ Withdraw
    /\ req' = [r \in Reqs |-> IF r \in pending THEN Closed(req[r]) ELSE req[r]]

\* Defect: LOCK leaves the manager and its seed alive.
LockKeepsSeed ==
    /\ LockEngine("request")
    /\ CancelRequests
    /\ UNCHANGED <<seed, vault, op, connVars, told, grantHistory, overtaken>>

\* LOCK: worker.lock(), engine.lock(), cancelAll().
Lock ==
    /\ seed' = NoSeed
    /\ LockEngine("request")
    /\ CancelRequests
    /\ UNCHANGED <<vault, op, connVars, told, grantHistory, overtaken>>

\* The alarm found the wallet idle for too long: checkIdle() calls
\* engine.lock() and nothing else.
AutoLock ==
    /\ AutoLockOn
    /\ lockState = "unlocked"
    /\ LockEngine("alarm")
    /\ UNCHANGED <<seed, vault, op, pending, connVars, req, told, grantHistory,
                   withdrawn, overtaken>>

\* VAULT_STORE: the key is derived and the phrase encrypted before the blob is
\* written, over one that may be there.
StoreBegin(p, s) ==
    /\ Idle(p)
    /\ Start(p, "store", s)
    /\ UNCHANGED <<lockState, seed, vault>>

StoreEnd(p) ==
    /\ op[p].do = "store"
    /\ vault' = op[p].seed \/ (MayFail /\ UNCHANGED vault)
    /\ Finish(p)
    /\ UNCHANGED <<lockState, seed>>

\* VAULT_LOAD: read the blob, derive the key, decrypt; then replace the
\* manager and unlock the engine. A wrong password rejects.
LoadBegin(p) ==
    /\ Idle(p) /\ vault # NoSeed
    /\ Start(p, "load", vault)
    /\ UNCHANGED <<lockState, seed, vault>>

LoadEnd(p) ==
    /\ op[p].do = "load"
    /\ \/ /\ seed' = op[p].seed /\ lockState' = "unlocked"
          /\ overtaken' = overtaken \cup {q \in Surfaces : op[q].do = "clear"}
       \/ UNCHANGED <<seed, lockState, overtaken>>
    /\ Finish(p)
    /\ UNCHANGED vault

\* BACKUP_IMPORT_VAULT overwrites the blob; nothing else is touched.
ImportBackup(p, s) ==
    /\ MayImport
    /\ Idle(p)
    /\ vault' = s
    /\ UNCHANGED <<lockState, seed, op>>

\* VAULT_CLEAR, up to its first real await: the manager is disposed.
ClearBegin(p) ==
    /\ Idle(p)
    /\ Start(p, "clear", NoSeed)
    /\ seed' = NoSeed
    /\ UNCHANGED <<lockState, vault>>

VaultOp(p) ==
    /\ \/ /\ \/ \E s \in Seeds : StoreBegin(p, s) \/ ImportBackup(p, s)
             \/ StoreEnd(p) \/ LoadBegin(p) \/ ClearBegin(p)
          /\ UNCHANGED overtaken
       \/ LoadEnd(p)
    /\ UNCHANGED <<pending, connVars, req, told, grantHistory, withdrawn, cause>>

\* The blob is deleted: lock, cancel, and go on to the allow-list. The manager is
\* not looked at again, although an unlock may have ended meanwhile.
ClearVault(p) ==
    /\ op[p].do = "clear"
    /\ vault' = NoSeed
    /\ LockEngine(IF p \in overtaken THEN "overtaken" ELSE "request")
    /\ CancelRequests
    /\ Start(p, "revokeAll", NoSeed)
    /\ overtaken' = overtaken \ {p}
    /\ UNCHANGED <<seed, connVars, told, grantHistory>>

\* IndexedDB refuses: the handler ends before engine.lock().
ClearRejected(p) ==
    /\ MayFail
    /\ op[p].do = "clear"
    /\ Finish(p)
    /\ overtaken' = overtaken \ {p}
    /\ UNCHANGED <<lockState, seed, vault, pending, connVars, req, told, grantHistory,
                   withdrawn, cause>>

\* The surface awaits the save of a revocation of these origins.
Revoking(p, origins) ==
    /\ Start(p, "saving", NoSeed)
    /\ taking' = [taking EXCEPT ![p] = [o \in Origins |->
                      IF o \in origins THEN grant[o].accounts ELSE {}]]

RevokeConnections(p) ==
    /\ op[p].do = "revokeAll"
    /\ List!RevokeAll(p)
    /\ Revoking(p, Origins)
    /\ UNCHANGED <<lockState, seed, vault, pending, req, told, grant, due, lockHistory>>

\* CONNECTIONS_REVOKE from the settings: for an origin that is not in the map it
\* is over at once, with `ok: false` and without a save.
RevokeConnection(p, o) ==
    /\ Idle(p)
    /\ List!Revoke(o, p)
    /\ IF Connected(o) THEN Revoking(p, {o}) ELSE UNCHANGED <<op, taking>>
    /\ UNCHANGED <<lockState, seed, vault, pending, req, told, grant, due, lockHistory>>

\* The list cannot be read, so it cannot be revoked: the operation rejects.
RevokeRejected(p) ==
    /\ op[p].do = "revokeAll"
    /\ load = "failed"
    /\ Finish(p)
    /\ UNCHANGED <<lockState, seed, vault, pending, connVars, req, told, historyVars>>

\* The user hears that the revocation is done, or that it failed.
SettingsSaved(p) ==
    /\ op[p].do = "saving"
    /\ writes # <<>> /\ Head(writes).by = p
    /\ \/ /\ List!WriteDone
          /\ grant' = [o \in Origins |-> [grant[o] EXCEPT !.accounts = @ \ taking[p][o]]]
       \/ MayFail /\ List!WriteFail /\ UNCHANGED grant
    /\ Finish(p)
    /\ taking' = [taking EXCEPT ![p] = TakesNothing]
    /\ UNCHANGED <<lockState, seed, vault, pending, req, told, due, lockHistory>>

-----------------------------------------------------------------------------
(* The browser                                                             *)

LoadList ==
    /\ List!LoadBegin \/ List!LoadDone \/ (MayFail /\ List!LoadFail)
    /\ UNCHANGED <<vaultVars, pending, req, told, historyVars>>

\* The worker is killed and respawned: engine, manager, pending approvals
\* and every suspended handler are gone; the vault and the stored list stay,
\* with those of the writes on their way that reached the disk. Pages whose
\* request was in flight get an error from the closed message channel. A
\* revocation whose save was not answered is not confirmed any more.
Restart ==
    /\ MayRestart
    /\ lockState' = "locked"
    /\ seed' = NoSeed
    /\ op' = [p \in Surfaces |-> IdleOp]
    /\ pending' = {}
    /\ List!ConnRestart
    /\ req' = [r \in Reqs |-> IF At(r, "new") THEN req[r] ELSE Closed(req[r])]
    /\ taking' = [p \in Surfaces |-> TakesNothing]
    /\ cause' = "request"
    /\ overtaken' = {}
    /\ UNCHANGED <<vault, told, grant, due, withdrawn>>

RequestStep(r) ==
    \/ LoadRejected(r) \/ Handle(r) \/ Derived(r) \/ Signs(r) \/ Signed(r)
    \/ Saved(r) \/ (MayFail /\ SaveRejected(r)) \/ Answered(r)

SurfaceStep(p) ==
    \/ VaultOp(p)
    \/ ClearVault(p) \/ ClearRejected(p)
    \/ RevokeConnections(p) \/ RevokeRejected(p)
    \/ \E o \in Origins : RevokeConnection(p, o)
    \/ SettingsSaved(p)

Next ==
    \/ \E r \in Reqs :
          \/ \E call \in PageCalls : Submit(r, call)
          \/ RequestStep(r)
          \/ Respond(r)
    \/ \E p \in Surfaces : SurfaceStep(p)
    \/ Lock
    \/ AutoLock
    \/ LoadList
    \/ Restart

\* Storage, the worker and the microtask queue answer; users and pages need
\* not do anything.
Fairness ==
    /\ WF_vars(LoadList)
    /\ \A r \in Reqs : WF_vars(RequestStep(r))
    /\ \A p \in Surfaces : WF_vars(SettingsSaved(p))

Spec == Init /\ [][Next]_vars /\ Fairness

-----------------------------------------------------------------------------
(* Properties                                                              *)

\* engine.ts:13 and SECURITY.md:22: while the engine says "locked" no seed is
\* held in the memory of the worker. The code keeps less, see LocksDisposeOfSeed.
LockedHoldsNoSeed == lockState = "locked" => seed = NoSeed

\* What the code does keep of it: an engine that was locked by LOCK, by
\* VAULT_CLEAR or by the death of the worker holds no seed, whatever loads and
\* clears were under way then. Two cases are left out: the idle alarm, and a
\* VAULT_CLEAR during which the unlock of another surface ended.
LocksDisposeOfSeed ==
    lockState = "locked" /\ seed # NoSeed => cause \in {"alarm", "overtaken"}

\* SECURITY.md:24: the idle lock too zeroizes the key state; index.ts:23: it cancels
\* what waits. Either of them implies this: whatever locks an unlocked engine
\* leaves no seed, or leaves no request waiting for the user.
LockDisposesOrCancels ==
    [][lockState = "unlocked" /\ lockState' = "locked" => seed' = NoSeed \/ pending' = {}]_vars

\* ARCHITECTURE.md:61: a request that waited for the user when LOCK or
\* VAULT_CLEAR was served is answered with an error and never has its effect,
\* also when the idle alarm had locked the engine before, or when the wallet is
\* unlocked again at once.
WithdrawnNeverActs == \A r \in withdrawn : At(r, "closed") /\ ~req[r].acted

\* Every handler suspended on an approval is in the map, and nothing else is:
\* a request that was answered cannot be approved, one that waits can be.
WaitingIsPending == pending = {r \in Reqs : At(r, "asking")}

\* The allow-list holds no account but those the user granted the origin by
\* eth_requestAccounts and of which no revocation was confirmed since: neither a
\* switch that waited across a revocation (dapp-handlers.ts:371), nor a late write
\* of an older list, nor a restart brings one back. And a request is signed
\* with an account that its origin was granted at some time since the request
\* arrived; the request may wait across the revocation of that account.
AccountsWereGranted ==
    /\ \A o \in Origins : ApprovedAccounts(o) \subseteq grant[o].accounts
    /\ \A r \in Reqs : req[r].account # NoAccount => req[r].account \in due[r]

\* What one might expect and the code does not do: no signature for an origin
\* whose connection was revoked while the request waited (dapp-handlers.ts:250).
SignsWithGranted ==
    [][\A r \in Reqs : At(r, "signing") /\ req'[r].acted # req[r].acted =>
          req[r].account \in grant[Origin(r)].accounts]_vars

\* connection-state.ts:11, handlers.ts:94: accounts granted under one seed do
\* not carry over to another seed.
FreshAllowList ==
    \A o \in Origins :
        ApprovedAccounts(o) # {} /\ seed # NoSeed => grant[o].seed = seed

\* connection-state.ts:4: an entry appears in the map when it is read from
\* storage or when the user approves an eth_requestAccounts of that origin.
EntryMeansGrant ==
    [][\A o \in Origins : ~Connected(o) /\ Connected(o)' =>
          load' # load \/ \E r \in Reqs : /\ Origin(r) = o /\ Method(r) = "connect"
                                          /\ req'[r].acted # req[r].acted]_vars

\* wallet-worker.ts:258: what is signed for a page is signed by the address
\* the page named, which the handler matched with the allow-list.
SignerIsRequested ==
    \A r \in Reqs : req[r].acted /\ Method(r) = "sign" =>
        req[r].call.addr = [seed |-> req[r].key, account |-> req[r].account]

\* chainChanged goes out only for a chain that has reached storage: a page
\* is never told of a switch that a restart would undo (handler order
\* approve, save, broadcast).
EventsFollowStorage ==
    [][\A o \in Origins : told'[o] # told[o] =>
          stored'[o] # NoEntry /\ stored'[o].chain = told'[o]]_vars

\* A request is never stuck inside the worker, at whatever stage: it ends up
\* answered or in front of the user, whatever fails on the way.
RequestsMoveOn ==
    \A r \in Reqs : ~At(r, "new") ~> (At(r, "asking") \/ At(r, "closed"))

\* The worker keeps the contract of RequestContract: one effect at most, and
\* only between the user's yes and the answer.
PhaseOf(stage) ==
    CASE stage \in {"loading", "deriving", "answering"} -> "received"
      [] stage \in {"signing", "saving", "telling"} -> "granted"
      [] OTHER -> stage

Contract == INSTANCE RequestContract WITH
    phase <- [r \in Reqs |-> PhaseOf(req[r].stage)],
    acted <- {r \in Reqs : req[r].acted}

KeepsContract == Contract!Spec

=============================================================================
