---------------------------- MODULE WalletWorker ----------------------------
(***************************************************************************)
(* The WalletWorker of packages/wdk-web-core (worker/wallet-worker.ts) with *)
(* its chain registry (chains/registry.ts) and its vault (vault/index.ts,   *)
(* vault/storage.ts): calls that take a manager or the mnemonic when they   *)
(* begin, and use the account they derive from it several awaits later,     *)
(* while loads, locks and clears replace what they took it from.            *)
(*                                                                         *)
(* An operation is what it takes its account from and the calls into WDK    *)
(* that it awaits one after the other: a "read" (address, balance, quote),  *)
(* a "sign" or a "send". Managers are numbered in the order of creation.    *)
(* The loaders of the registry are settled promises: two calls that begin   *)
(* in one task interleave around them, but no message comes in between.     *)
(***************************************************************************)
EXTENDS Naturals, Sequences, FiniteSets

CONSTANTS
    Calls,      \* calls into the worker, each made once
    MayBe(_, _),    \* which operations a call may be
    Chains,     \* supported chain ids
    Seeds,      \* mnemonics
    Garbage,    \* vault content that is not a mnemonic
    Found,      \* what an earlier life may have left in the vault
    None,
    MaxLoads,   \* bound on the managers created
    Restarts    \* bound on the deaths of the worker

Managers == 1 .. MaxLoads
Contents == Seeds \cup {Garbage}

ASSUME NoneAssumption == None \notin Contents \cup Managers \cup Chains
ASSUME GarbageAssumption == Garbage \notin Seeds
ASSUME FoundAssumption == Found \subseteq Contents \cup {None}
ASSUME BoundsAssumption == MaxLoads \in Nat /\ Restarts \in Nat

-----------------------------------------------------------------------------
(* The operations *)

From(source, work) == [source |-> source, work |-> work]
Address == From("wdk", <<>>)
Balance == From("wdk", <<"read">>)
Send == From("wdk", <<"send">>)
Sign == From("wdk", <<"sign">>)

\* What a protocol runs on: the plain account, or the smart account if gasless.
EvmAccount(work) == {From("wdk", work), From("smart", work)}

\* What the wrapped protocols make of an account: snapshots and quotes are reads.
AaveWork == {<<"read">>, <<"send">>}
VeloraWork == {<<"read">>, <<"send">>}
Usdt0Work == {<<"read">>, <<"send", "send">>}
Erc4337Work == {<<"read">>, <<"send">>}
SparkWork == {<<"read">>, <<"send">>, <<"read", "send">>}
MoonPayWork == {<<"read">>}

EvmSend == {Send}
SolanaSend == {Send}
BtcOps == {Address, Balance, Send}
TonOps == {From("wdk", <<"read">>), Balance, Send}
TronOps == {From("wdk", <<"read">>), Balance, Send}
AddressOps == {Address}
SignOps == {Sign}
RpcOps == {From("none", <<"read">>)}
AaveOps == UNION {EvmAccount(w) : w \in AaveWork} \ {From("smart", <<"read">>)}
VeloraOps == UNION {EvmAccount(w) : w \in VeloraWork} \ {From("smart", <<"read">>)}
Usdt0Ops == UNION {EvmAccount(w) : w \in Usdt0Work} \ {From("smart", <<"read">>)}
MoonPayOps == {From("none", w) : w \in MoonPayWork}
Erc4337Ops == {From("smart", w) : w \in Erc4337Work}
X402Ops == {From("wdk", <<"read", "sign">>)}
SparkOps == {From("spark", w) : w \in SparkWork}
LightningOps == {From("spark", w) : w \in SparkWork \ {<<"read", "send">>}}

AccountOps ==
    UNION {EvmSend, SolanaSend, BtcOps, TonOps, TronOps, AddressOps, SignOps, RpcOps,
           AaveOps, VeloraOps, Usdt0Ops, MoonPayOps, Erc4337Ops, X402Ops, SparkOps,
           LightningOps}

\* The vault's operations: awaits on the key derivation, the open and the store.
VaultOps == {From("vault", w) : w \in {<<"open", "get">>, <<"derive", "open", "put">>,
                                       <<"open", "get", "derive">>, <<"open", "delete">>}}
HasStored == From("vault", <<"open", "get">>)
Store == From("vault", <<"derive", "open", "put">>)
Load == From("vault", <<"open", "get", "derive">>)
Clear == From("vault", <<"open", "delete">>)

-----------------------------------------------------------------------------

VARIABLES
    wdk,        \* this.wdk, a manager or None
    mnemonic,   \* this._mnemonic
    seedOf,     \* the seed each manager was made with; None before
    disposed,   \* managers that were disposed of
    tracked,    \* registeredChains: the chains tracked for each manager
    wallets,    \* how often registerWallet was called, by manager and chain
    db,         \* dbPromise: "none", "opening", "open" or "failed"
    disk,       \* the stored blob's content
    call,       \* where each call stands
    used,       \* history: <<call, kind, seed>> of every signature and broadcast
    asked,      \* history: the seed that was loaded when each call on an account began
    deaths      \* number of restarts

vars == <<wdk, mnemonic, seedOf, disposed, tracked, wallets, db, disk, call, used,
          asked, deaths>>
memory == <<wdk, mnemonic, seedOf, disposed>>
registry == <<tracked, wallets>>
vault == <<db, disk>>
history == <<used, asked, deaths>>

\* A call at its first await, with the manager's chain and the seed it takes.
Begun(op, stage, chain, manager, seed) ==
    [stage |-> stage, op |-> op, at |-> 1, chain |-> chain, manager |-> manager, seed |-> seed]
Idle == Begun(HasStored, "idle", None, None, None)

\* at: the await of op.work the call is in, or has answered.
TypeOK ==
    /\ wdk \in Managers \cup {None}
    /\ mnemonic \in Seeds \cup {None}
    /\ seedOf \in [Managers -> Seeds \cup {None}]
    /\ disposed \subseteq Managers
    /\ tracked \in [Managers -> SUBSET Chains]
    /\ wallets \in [Managers -> [Chains -> Nat]]
    /\ db \in {"none", "opening", "open", "failed"}
    /\ disk \in Contents \cup {None}
    /\ call \in [Calls -> [stage : {"idle", "registering", "account", "work", "done", "failed"},
                           op : AccountOps \cup VaultOps, at : 1 .. 4,
                           chain : Chains \cup {None}, manager : Managers \cup {None},
                           seed : Contents \cup {None}]]
    /\ used \subseteq Calls \X {"sign", "send"} \X Seeds
    /\ asked \in [Calls -> Seeds \cup {None}]
    /\ deaths \in 0 .. Restarts

Init ==
    /\ wdk = None
    /\ mnemonic = None
    /\ seedOf = [m \in Managers |-> None]
    /\ disposed = {}
    /\ tracked = [m \in Managers |-> {}]
    /\ wallets = [m \in Managers |-> [c \in Chains |-> 0]]
    /\ db = "none"
    /\ disk \in Found
    /\ call = [c \in Calls |-> Idle]
    /\ used = {}
    /\ asked = [c \in Calls |-> None]
    /\ deaths = 0

At(c, stage) == call[c].stage = stage
Awaits(c, kind) ==
    At(c, "work") /\ call[c].at <= Len(call[c].op.work) /\ call[c].op.work[call[c].at] = kind

Becomes(c, stage) == call' = [call EXCEPT ![c].stage = stage]

Moves(c, stage, seed) ==
    call' = [call EXCEPT ![c] =
                [stage |-> stage, op |-> @.op, at |-> @.at + 1, chain |-> @.chain,
                 manager |-> @.manager, seed |-> seed]]

\* The await was answered: go on with the next one, or end.
Next1(c) ==
    Moves(c, IF call[c].at < Len(call[c].op.work) THEN "work" ELSE "done", call[c].seed)

\* Messages are served when the settled promises have been followed up.
Quiet == \A c \in Calls : ~At(c, "registering")

-----------------------------------------------------------------------------
(* Calls on an account *)

\* A malformed argument, an unsupported chain, a missing adapter or key.
Refused(c, op) ==
    /\ op \in AccountOps
    /\ At(c, "idle")
    /\ call' = [call EXCEPT ![c] = Begun(op, "failed", None, None, None)]
    /\ UNCHANGED <<memory, registry, vault, history>>

\* _requireWdk: the manager is taken at once; its chain may need registering.
TakesManager(op, chain) ==
    IF wdk = None THEN Begun(op, "failed", chain, None, None)
    ELSE Begun(op, IF chain \in tracked[wdk] THEN "account" ELSE "registering",
               chain, wdk, seedOf[wdk])

\* Defect: the chain is tracked before the await that precedes its registration.
BeginTracks(c, op, chain) ==
    /\ op \in AccountOps /\ op.source = "wdk"
    /\ At(c, "idle")
    /\ call' = [call EXCEPT ![c] = TakesManager(op, chain)]
    /\ asked' = [asked EXCEPT ![c] = mnemonic]
    /\ tracked' = IF wdk = None THEN tracked ELSE [tracked EXCEPT ![wdk] = @ \cup {chain}]
    /\ UNCHANGED <<memory, wallets, vault, used, deaths>>

BeginWdk(c, op, chain) ==
    /\ op \in AccountOps /\ op.source = "wdk"
    /\ At(c, "idle")
    /\ call' = [call EXCEPT ![c] = TakesManager(op, chain)]
    /\ asked' = [asked EXCEPT ![c] = mnemonic]
    /\ UNCHANGED <<memory, registry, vault, used, deaths>>

\* _smartAccount, _sparkAccount: a manager of the call's own, from the mnemonic.
BeginSeed(c, op) ==
    /\ op \in AccountOps /\ op.source \in {"smart", "spark"}
    /\ At(c, "idle")
    /\ call' = [call EXCEPT ![c] =
           Begun(op, IF mnemonic = None THEN "failed" ELSE "account", None, None, mnemonic)]
    /\ asked' = [asked EXCEPT ![c] = mnemonic]
    /\ UNCHANGED <<memory, registry, vault, used, deaths>>

\* rpc_*, pricing_*, moonpay_*: no account, one answer of an adapter.
BeginPlain(c, op) ==
    /\ op \in AccountOps /\ op.source = "none"
    /\ At(c, "idle")
    /\ call' = [call EXCEPT ![c] = Begun(op, "work", None, None, None)]
    /\ UNCHANGED <<memory, registry, vault, history>>

\* ensureChainRegistered behind its await: register, then track.
Registered(c) ==
    /\ At(c, "registering")
    /\ LET m == call[c].manager  ch == call[c].chain IN
       /\ wallets' = [wallets EXCEPT ![m][ch] = @ + 1]
       /\ tracked' = [tracked EXCEPT ![m] = @ \cup {ch}]
    /\ Becomes(c, "account")
    /\ UNCHANGED <<memory, vault, history>>

\* getAccount answers; an operation that awaits nothing else ends.
GotAccount(c) ==
    /\ At(c, "account") /\ Quiet
    /\ Becomes(c, IF call[c].op.work = <<>> THEN "done" ELSE "work")
    /\ UNCHANGED <<memory, registry, vault, history>>

\* Defect: the account is taken anew behind each await.
AnsweredForLoaded(c) ==
    /\ Awaits(c, "read") \/ Awaits(c, "sign") \/ Awaits(c, "send")
    /\ Quiet
    /\ used' = IF Awaits(c, "read") \/ mnemonic = None THEN used
               ELSE used \cup {<<c, call[c].op.work[call[c].at], mnemonic>>}
    /\ Next1(c)
    /\ UNCHANGED <<memory, registry, vault, asked, deaths>>

\* WDK or the network answers. The account is the one the call has, whatever
\* the worker holds by now; an account whose manager was disposed of may still work.
Answered(c) ==
    /\ Awaits(c, "read") \/ Awaits(c, "sign") \/ Awaits(c, "send")
    /\ Quiet
    /\ used' = IF Awaits(c, "read") THEN used
               ELSE used \cup {<<c, call[c].op.work[call[c].at], call[c].seed>>}
    /\ Next1(c)
    /\ UNCHANGED <<memory, registry, vault, asked, deaths>>

\* An await on WDK, the network or the SDK's chunk rejects, before or after it acted.
Rejected(c) ==
    /\ At(c, "account") \/ Awaits(c, "read") \/ Awaits(c, "sign") \/ Awaits(c, "send")
    /\ Quiet
    /\ \/ used' = used
       \/ /\ Awaits(c, "send")
          /\ used' = used \cup {<<c, "send", call[c].seed>>}
    /\ Becomes(c, "failed")
    /\ UNCHANGED <<memory, registry, vault, asked, deaths>>

\* Spark answers without the hash or the request id: what was sent stays sent,
\* and the call fails.
Unreadable(c) ==
    /\ Awaits(c, "send") /\ call[c].op.source = "spark" /\ Quiet
    /\ used' = used \cup {<<c, "send", call[c].seed>>}
    /\ Becomes(c, "failed")
    /\ UNCHANGED <<memory, registry, vault, asked, deaths>>

-----------------------------------------------------------------------------
(* The vault *)

Dispose == disposed' = IF wdk = None THEN disposed ELSE disposed \cup {wdk}
\* Defect: the mnemonic that smart and Spark accounts use is forgotten about.
ForgetManager == wdk' = None /\ UNCHANGED <<mnemonic, seedOf>> /\ Dispose

Forget == wdk' = None /\ mnemonic' = None /\ UNCHANGED seedOf /\ Dispose

\* The connection is opened by the first operation that needs it, for all.
GetDb == db' = IF db = "none" THEN "opening" ELSE db

\* The call moves to its next await, and asks for the connection if that is it.
VaultMoves(c, seed) ==
    /\ Moves(c, "work", seed)
    /\ IF call[c].op.work[call[c].at + 1] = "open" THEN GetDb ELSE UNCHANGED db

\* vault_hasStored, vault_store (of content), vault_load, vault_clear begin.
BeginVault(c, op, content) ==
    /\ op \in VaultOps /\ (content # None <=> op = Store)
    /\ At(c, "idle") /\ Quiet
    /\ call' = [call EXCEPT ![c] = Begun(op, "work", None, None, content)]
    /\ IF op = Clear THEN Forget ELSE UNCHANGED memory
    /\ IF op = Store THEN UNCHANGED db ELSE GetDb
    /\ UNCHANGED <<registry, disk, history>>

Opened ==
    /\ db = "opening" /\ Quiet
    /\ db' \in {"open", "failed"}
    /\ UNCHANGED <<memory, registry, disk, call, history>>

\* Defect: a rejected connection is used.
HasAnyDb(c) ==
    /\ Awaits(c, "open") /\ db \in {"open", "failed"} /\ Quiet
    /\ VaultMoves(c, call[c].seed)
    /\ UNCHANGED <<memory, registry, disk, history>>

\* Defect: the failure of the open settles nobody's promise.
HasOpenDb(c) ==
    /\ Awaits(c, "open") /\ db = "open" /\ Quiet
    /\ VaultMoves(c, call[c].seed)
    /\ UNCHANGED <<memory, registry, disk, history>>

\* await getDb() goes on with the connection, or rejects for every later caller.
HasDb(c) ==
    /\ Awaits(c, "open") /\ db \in {"open", "failed"} /\ Quiet
    /\ IF db = "open" THEN VaultMoves(c, call[c].seed)
       ELSE Becomes(c, "failed") /\ UNCHANGED db
    /\ UNCHANGED <<memory, registry, disk, history>>

\* get: vault_hasStored ends; vault_load goes on with the blob, or finds none.
BlobRead(c) ==
    /\ Awaits(c, "get") /\ Quiet
    /\ IF call[c].op = HasStored THEN Next1(c) /\ UNCHANGED db
       ELSE IF disk = None THEN Becomes(c, "failed") /\ UNCHANGED db
       ELSE VaultMoves(c, disk)
    /\ UNCHANGED <<memory, registry, disk, history>>

\* put and delete of the single key.
BlobWritten(c) ==
    /\ Awaits(c, "put") \/ Awaits(c, "delete")
    /\ Quiet
    /\ disk' = IF Awaits(c, "put") THEN call[c].seed ELSE None
    /\ Next1(c)
    /\ UNCHANGED <<memory, registry, db, history>>

\* The key of vault_store is there: the blob can be written.
Encrypted(c) ==
    /\ call[c].op = Store /\ Awaits(c, "derive") /\ Quiet
    /\ VaultMoves(c, call[c].seed)
    /\ UNCHANGED <<memory, registry, disk, history>>

\* vault_load: a mnemonic replaces the manager, anything else is only returned.
Decrypted(c) ==
    /\ call[c].op = Load /\ Awaits(c, "derive") /\ Quiet
    /\ LET s == call[c].seed
           made == {m \in Managers : seedOf[m] # None}
       IN  IF s = Garbage THEN UNCHANGED memory
           ELSE /\ Cardinality(made) < MaxLoads
                /\ wdk' = Cardinality(made) + 1
                /\ seedOf' = [seedOf EXCEPT ![Cardinality(made) + 1] = s]
                /\ mnemonic' = s
                /\ Dispose
    /\ Next1(c)
    /\ UNCHANGED <<registry, vault, history>>

\* A wrong password or a tampered blob, a failed derivation, a refused transaction.
VaultRejects(c) ==
    /\ call[c].op \in VaultOps /\ At(c, "work") /\ ~Awaits(c, "open") /\ Quiet
    /\ Becomes(c, "failed")
    /\ UNCHANGED <<memory, registry, vault, history>>

\* lock()
Lock ==
    /\ Quiet
    /\ Forget
    /\ UNCHANGED <<registry, vault, call, history>>

\* The worker dies: memory, connection and calls are gone, the blob stays.
Restart ==
    /\ deaths < Restarts /\ Quiet
    /\ deaths' = deaths + 1
    /\ wdk' = None /\ mnemonic' = None
    /\ disposed' = {m \in Managers : seedOf[m] # None}
    /\ db' = "none"
    /\ call' = [c \in Calls |-> IF At(c, "idle") THEN call[c]
                                ELSE [call[c] EXCEPT !.stage = "failed"]]
    /\ UNCHANGED <<seedOf, registry, disk, used, asked>>

-----------------------------------------------------------------------------

Goes(c) ==
    \/ Registered(c) \/ GotAccount(c) \/ Answered(c) \/ Rejected(c)
    \/ Unreadable(c)
    \/ HasDb(c) \/ BlobRead(c) \/ BlobWritten(c) \/ Encrypted(c) \/ Decrypted(c)
    \/ VaultRejects(c)

Begins(c) ==
    \E op \in AccountOps \cup VaultOps :
        /\ MayBe(c, op)
        /\ \/ Refused(c, op) \/ BeginSeed(c, op) \/ BeginPlain(c, op)
           \/ \E ch \in Chains : BeginWdk(c, op, ch)
           \/ \E s \in Contents \cup {None} : BeginVault(c, op, s)

Next ==
    \/ \E c \in Calls : Begins(c) \/ Goes(c)
    \/ Opened \/ Lock \/ Restart

\* WDK, the network, the key derivation and IndexedDB answer in the end.
Fairness == WF_vars(Opened) /\ \A c \in Calls : WF_vars(Goes(c))

Spec == Init /\ [][Next]_vars /\ Fairness

-----------------------------------------------------------------------------
(* Properties *)

\* The manager in use and the mnemonic kept for smart and Spark accounts are of
\* one seed, and are there or not together. Of all managers ever made only the
\* present one still holds keys: a load, a lock or a clear disposes of the one it
\* drops (wallet-worker.ts:183-230).
KeysOfOneSeed ==
    /\ mnemonic = (IF wdk = None THEN None ELSE seedOf[wdk])
    /\ \A m \in Managers : seedOf[m] # None => (m \notin disposed <=> m = wdk)

\* A call that has come past ensureChainRegistered uses a manager on which its
\* chain was registered, whichever of several first calls registered it and
\* whether or not the manager is still the worker's (registry.ts:98-109).
RegisteredBeforeUse ==
    \A c \in Calls :
        At(c, "account") /\ call[c].op.source = "wdk" =>
            wallets[call[c].manager][call[c].chain] > 0

\* Whatever is loaded, locked or cleared while a call is under way, all that it
\* signs and sends is of the seed that was loaded when it began.
CallKeepsItsSeed == \A u \in used : u[3] = asked[u[1]]

\* A database that failed to open stays failed for the life of the worker: no
\* operation of the vault succeeds and the blob stays what it was (storage.ts:66-78).
FailedOpenIsFinal ==
    [][db = "failed" =>
          /\ disk' = disk
          /\ db' # "failed" => deaths' # deaths
          /\ \A c \in Calls : call[c].op \in VaultOps /\ At(c, "work") =>
                 call'[c].stage # "done"]_vars

\* Every call ends, also if the wallet is locked, cleared or loaded anew in the
\* middle of it, or the database cannot be opened.
CallsEnd == \A c \in Calls : ~At(c, "idle") ~> (At(c, "done") \/ At(c, "failed"))

=============================================================================
