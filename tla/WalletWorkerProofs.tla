------------------------- MODULE WalletWorkerProofs -------------------------
(***************************************************************************)
(* For any calls, chains, seeds and numbers of managers and restarts: the    *)
(* manager and the mnemonic are of one seed and older managers are disposed  *)
(* of, a chain is registered before it is used, a call keeps the seed that   *)
(* was loaded when it began, and a database that failed to open serves       *)
(* nothing any more.                                                         *)
(***************************************************************************)
EXTENDS WalletWorker, FiniteSetTheorems, TLAPS

Ops == AccountOps \cup VaultOps
Ahead == {"registering", "account", "work"}
OnKeys == {"wdk", "smart", "spark"}

CallRec == [stage : Ahead \cup {"idle", "done", "failed"}, op : Ops, at : Nat \ {0},
            chain : Chains \cup {None}, manager : Managers \cup {None},
            seed : Contents \cup {None}]

Typed ==
    /\ wdk \in Managers \cup {None} /\ mnemonic \in Seeds \cup {None}
    /\ seedOf \in [Managers -> Seeds \cup {None}] /\ disposed \subseteq Managers
    /\ tracked \in [Managers -> SUBSET Chains] /\ wallets \in [Managers -> [Chains -> Nat]]
    /\ disk \in Contents \cup {None}
    /\ call \in [Calls -> CallRec]
    /\ asked \in [Calls -> Seeds \cup {None}]

\* Managers are numbered without gaps, and whatever was in use or disposed of was made.
Made == {m \in Managers : seedOf[m] # None}
Numbered ==
    /\ \E k \in 0 .. MaxLoads : Made = 1 .. k
    /\ disposed \subseteq Made /\ wdk \in Made \cup {None}

Tracked == \A m \in Managers : \A ch \in tracked[m] : wallets[m][ch] > 0

\* A call that is to register its chain has one to register, and one that is past
\* that has it registered; a call on an account has the seed it began with until
\* it ends; vault_load derives the key of a blob it has read.
Sound(c) ==
    /\ call[c].stage = "registering" => call[c].op.source = "wdk"
    /\ call[c].stage \in {"registering", "account"} =>
           /\ call[c].op.source \in OnKeys
           /\ call[c].op.source = "wdk" =>
                  /\ call[c].manager \in Managers /\ call[c].chain \in Chains
                  /\ call[c].stage = "account" =>
                         wallets[call[c].manager][call[c].chain] > 0
    /\ call[c].stage \in Ahead /\ call[c].op.source \in OnKeys => call[c].seed = asked[c]
    /\ call[c].stage = "work" /\ call[c].op = Load /\ call[c].at = 3 =>
           call[c].seed \in Contents

Used == \A u \in used : u[1] \in Calls /\ call[u[1]].stage # "idle" /\ u[3] = asked[u[1]]

Memory == KeysOfOneSeed /\ Numbered

WIInv == Typed /\ Memory /\ Tracked /\ (\A c \in Calls : Sound(c)) /\ Used

-----------------------------------------------------------------------------
(* The operations.                                                           *)

Verbs == {"read", "sign", "send"}

Works == {<<>>, <<"read">>, <<"sign">>, <<"send">>, <<"read", "sign">>, <<"read", "send">>,
          <<"send", "send">>}

\* An operation on an account: what has no keys only reads.
OnAccount(op) ==
    /\ op.work \in Works
    /\ op.source \in OnKeys \cup {"none"}
    /\ op.source = "none" => op.work = <<"read">>

LEMMA AccountWork == \A op \in AccountOps : OnAccount(op)
<1> USE DEF OnAccount, Works, OnKeys, From
<1>1. \A op \in EvmSend \cup SolanaSend \cup BtcOps \cup TonOps \cup TronOps \cup AddressOps \cup SignOps : OnAccount(op)
  BY DEF EvmSend, SolanaSend, BtcOps, TonOps, TronOps, AddressOps, SignOps, Address, Balance, Send, Sign
<1>2. \A op \in RpcOps \cup MoonPayOps \cup X402Ops : OnAccount(op)
  BY DEF RpcOps, MoonPayOps, MoonPayWork, X402Ops
<1>3. \A w \in Works : \A op \in EvmAccount(w) : OnAccount(op)
  BY DEF EvmAccount
<1>4. \A op \in AaveOps : OnAccount(op)
  BY <1>3 DEF AaveOps, AaveWork
<1>5. \A op \in VeloraOps : OnAccount(op)
  BY <1>3 DEF VeloraOps, VeloraWork
<1>6. \A op \in Usdt0Ops : OnAccount(op)
  BY <1>3 DEF Usdt0Ops, Usdt0Work
<1>7. \A op \in Erc4337Ops \cup SparkOps \cup LightningOps : OnAccount(op)
  BY DEF Erc4337Ops, Erc4337Work, SparkOps, SparkWork, LightningOps
<1> QED
  BY <1>1, <1>2, <1>4, <1>5, <1>6, <1>7 DEF AccountOps

LEMMA WorkIsVerbs == \A w \in Works : \A k \in DOMAIN w : w[k] \in Verbs
<1> SUFFICES ASSUME NEW w \in Works, NEW k \in DOMAIN w PROVE w[k] \in Verbs
  OBVIOUS
<1>1. CASE w = <<>>
  BY <1>1
<1>2. CASE w \in {<<"read">>, <<"sign">>, <<"send">>}
  BY <1>2 DEF Verbs
<1>3. CASE w \in {<<"read", "sign">>, <<"read", "send">>, <<"send", "send">>}
  BY <1>3 DEF Verbs
<1> QED
  BY <1>1, <1>2, <1>3 DEF Works

LEMMA MovesIs ==
    ASSUME call \in [Calls -> CallRec], NEW c \in Calls,
           NEW stage \in {"work", "done"}, NEW seed \in Contents \cup {None}, Moves(c, stage, seed)
    PROVE  /\ call' \in [Calls -> CallRec]
           /\ \A d \in Calls : d # c => call'[d] = call[d]
           /\ call'[c].op = call[c].op /\ call'[c].seed = seed
           /\ call'[c].at = call[c].at + 1 /\ call'[c].stage = stage
           /\ call'[c].chain = call[c].chain /\ call'[c].manager = call[c].manager
<1>1. call[c] \in CallRec
  OBVIOUS
<1> QED
  BY <1>1 DEF Moves, CallRec, Ahead

LEMMA BecomesIs ==
    ASSUME call \in [Calls -> CallRec], NEW c \in Calls,
           NEW stage \in {"account", "work", "done", "failed"}, Becomes(c, stage)
    PROVE  /\ call' \in [Calls -> CallRec]
           /\ \A d \in Calls : d # c => call'[d] = call[d]
           /\ call'[c].op = call[c].op /\ call'[c].seed = call[c].seed /\ call'[c].at = call[c].at
           /\ call'[c].stage = stage /\ call'[c].chain = call[c].chain
           /\ call'[c].manager = call[c].manager
BY DEF Becomes, CallRec, Ahead

VaultVerbs == {"open", "get", "derive", "put", "delete"}

LEMMA VaultWork ==
    \A op \in VaultOps :
        op.source = "vault" /\ \A k \in 1 .. Len(op.work) : op.work[k] \in VaultVerbs
<1> USE DEF VaultVerbs, From
<1>1. \A k \in 1 .. 2 : <<"open", "get">>[k] \in VaultVerbs
  OBVIOUS
<1>2. \A k \in 1 .. 3 : <<"derive", "open", "put">>[k] \in VaultVerbs
  OBVIOUS
<1>3. \A k \in 1 .. 3 : <<"open", "get", "derive">>[k] \in VaultVerbs
  OBVIOUS
<1>4. \A k \in 1 .. 2 : <<"open", "delete">>[k] \in VaultVerbs
  OBVIOUS
<1> QED
  BY <1>1, <1>2, <1>3, <1>4 DEF VaultOps

\* The positions of vault_load, which is none of the other operations.
LEMMA LoadIs ==
    /\ Load \in VaultOps /\ Store \in VaultOps /\ HasStored \in VaultOps
    /\ Load # Store /\ Load # HasStored
    /\ Load.work[1] = "open" /\ Load.work[2] = "get" /\ Load.work[3] = "derive"
    /\ Len(Load.work) = 3
BY DEF Load, Store, HasStored, VaultOps, From

\* What a call awaits says what kind of operation it is.
LEMMA AwaitsIs ==
    ASSUME Typed, NEW c \in Calls, NEW k, Awaits(c, k)
    PROVE  /\ call[c].stage = "work" /\ call[c].op.work[call[c].at] = k
           /\ k \in Verbs => call[c].op \in AccountOps /\ call[c].op # Load
           /\ k \in VaultVerbs => call[c].op \in VaultOps /\ call[c].op.source = "vault"
           /\ k \in {"sign", "send"} => call[c].op.source \in OnKeys
<1> DEFINE op == call[c].op
           at == call[c].at
<1>1. /\ call[c].stage = "work" /\ op.work[at] = k /\ at <= Len(op.work)
      /\ op \in Ops /\ at \in Nat \ {0}
  BY DEF Awaits, At, Typed, CallRec
<1>2. op \in VaultOps => k \in VaultVerbs /\ op.source = "vault"
  <2> SUFFICES ASSUME op \in VaultOps PROVE k \in VaultVerbs /\ op.source = "vault"
    OBVIOUS
  <2>1. Len(op.work) \in Nat
    BY DEF VaultOps, From
  <2>2. at \in 1 .. Len(op.work)
    BY <1>1, <2>1
  <2> QED
    BY <1>1, <2>2, VaultWork
<1>3. op \in AccountOps => k \in Verbs /\ OnAccount(op)
  <2> SUFFICES ASSUME op \in AccountOps PROVE k \in Verbs /\ OnAccount(op)
    OBVIOUS
  <2>1. op.work \in Works /\ OnAccount(op)
    BY AccountWork DEF OnAccount
  <2>2. at \in DOMAIN op.work
    BY <1>1, <2>1 DEF Works
  <2> QED
    BY <1>1, <2>1, <2>2, WorkIsVerbs
<1>4. Verbs \cap VaultVerbs = {} /\ Load \in VaultOps
  BY LoadIs DEF Verbs, VaultVerbs
<1>5. op \in AccountOps /\ op.source = "none" => k = "read"
  <2> SUFFICES ASSUME op \in AccountOps, op.source = "none" PROVE k = "read"
    OBVIOUS
  <2>1. op.work = <<"read">>
    BY AccountWork DEF OnAccount
  <2>2. at = 1
    BY <1>1, <2>1
  <2> QED
    BY <1>1, <2>1, <2>2
<1>6. k \in {"sign", "send"} => op.source \in OnKeys
  BY <1>1, <1>2, <1>3, <1>4, <1>5 DEF Ops, OnAccount, Verbs
<1> QED
  BY <1>1, <1>2, <1>3, <1>4, <1>6 DEF Ops

-----------------------------------------------------------------------------
(* One call moves.                                                           *)

LEMMA CallStep ==
    ASSUME WIInv, NEW c \in Calls, call' \in [Calls -> CallRec],
           \A d \in Calls : d # c => call'[d] = call[d] /\ asked'[d] = asked[d],
           call'[c].stage # "idle", asked'[c] = asked[c] \/ call[c].stage = "idle",
           \A u \in used' : u \in used \/ (u[1] = c /\ u[3] = asked'[c]),
           UNCHANGED <<wallets, tracked>>, Sound(c)'
    PROVE  Tracked' /\ (\A d \in Calls : Sound(d)') /\ Used'
<1>1. Tracked'
  BY DEF WIInv, Tracked
<1>2. ASSUME NEW d \in Calls, d # c
      PROVE  Sound(d)'
  BY <1>2 DEF WIInv, Sound
<1>3. ASSUME NEW u \in used'
      PROVE  u[1] \in Calls /\ call'[u[1]].stage # "idle" /\ u[3] = asked'[u[1]]
  BY DEF WIInv, Used
<1> QED
  BY <1>1, <1>2, <1>3 DEF Used

LEMMA MemoryKept ==
    ASSUME WIInv, UNCHANGED memory
    PROVE  Memory'
BY DEF WIInv, Memory, KeysOfOneSeed, Numbered, Made, memory

LEMMA ForgetKeeps ==
    ASSUME WIInv, Forget
    PROVE  /\ Memory' /\ disposed' \subseteq Managers
           /\ wdk' = None /\ mnemonic' = None /\ seedOf' = seedOf
<1>1. wdk' = None /\ mnemonic' = None /\ seedOf' = seedOf
      /\ disposed' = (IF wdk = None THEN disposed ELSE disposed \cup {wdk})
  BY DEF Forget, Dispose
<1>2. None \notin Managers
  BY NoneAssumption
<1>3. Made' = Made
  BY <1>1 DEF Made
<1>4. Numbered'
  BY <1>1, <1>3 DEF WIInv, Memory, Numbered
<1>5. KeysOfOneSeed'
  BY <1>1, <1>2 DEF WIInv, Memory, KeysOfOneSeed
<1> QED
  BY <1>1, <1>4, <1>5 DEF Memory, WIInv, Typed

-----------------------------------------------------------------------------
(* Calls on an account.                                                      *)

Accounts(c) ==
    \/ \E op \in AccountOps : \/ Refused(c, op) \/ BeginSeed(c, op) \/ BeginPlain(c, op)
                              \/ \E ch \in Chains : BeginWdk(c, op, ch)
    \/ GotAccount(c) \/ Answered(c) \/ Rejected(c) \/ Unreadable(c)

LEMMA BeginStep ==
    ASSUME WIInv, NEW c \in Calls, NEW op \in AccountOps,
           Refused(c, op) \/ BeginSeed(c, op) \/ BeginPlain(c, op)
              \/ \E ch \in Chains : BeginWdk(c, op, ch)
    PROVE  WIInv'
<1>1. op \in Ops /\ op # Load /\ OnAccount(op) /\ call[c].stage = "idle" /\ call \in [Calls -> CallRec]
  <2>1. op.source # "vault"
    BY AccountWork DEF OnAccount, OnKeys
  <2> QED
    BY <2>1, AccountWork, LoadIs, VaultWork DEF Ops, Refused, BeginSeed, BeginPlain, BeginWdk, At,
       WIInv, Typed
<1>2. /\ UNCHANGED <<wdk, mnemonic, seedOf, disposed, tracked, wallets, disk, used>>
      /\ asked' = asked \/ asked' = [asked EXCEPT ![c] = mnemonic]
  BY DEF Refused, BeginSeed, BeginPlain, BeginWdk, memory, registry, vault, history
<1>3. /\ asked' \in [Calls -> Seeds \cup {None}]
      /\ \A d \in Calls : d # c => asked'[d] = asked[d]
  BY <1>2 DEF WIInv, Typed
<1>4. mnemonic = (IF wdk = None THEN None ELSE seedOf[wdk]) /\ mnemonic \in Contents \cup {None}
  BY DEF WIInv, Memory, KeysOfOneSeed, Typed, Contents
<1>5. /\ call' \in [Calls -> CallRec]
      /\ \A d \in Calls : d # c => call'[d] = call[d]
      /\ call'[c].stage # "idle" /\ Sound(c)'
  <2>1. CASE Refused(c, op)
    <3>1. call' = [call EXCEPT ![c] = Begun(op, "failed", None, None, None)]
      BY <2>1 DEF Refused
    <3> QED
      BY <1>1, <3>1 DEF Begun, CallRec, Sound, Ahead
  <2>2. CASE BeginSeed(c, op)
    <3> DEFINE stage == IF mnemonic = None THEN "failed" ELSE "account"
    <3>1. /\ call' = [call EXCEPT ![c] = Begun(op, stage, None, None, mnemonic)]
          /\ op.source \in {"smart", "spark"} /\ asked' = [asked EXCEPT ![c] = mnemonic]
      BY <2>2 DEF BeginSeed
    <3>2. asked'[c] = mnemonic
      BY <3>1 DEF WIInv, Typed
    <3>3. stage \in {"account", "failed"}
      OBVIOUS
    <3> HIDE DEF stage
    <3>4. /\ call' \in [Calls -> CallRec]
          /\ \A d \in Calls : d # c => call'[d] = call[d]
          /\ call'[c].op = op /\ call'[c].seed = mnemonic /\ call'[c].stage = stage
          /\ call'[c].chain = None /\ call'[c].manager = None
      BY <1>1, <1>4, <3>1, <3>3 DEF Begun, CallRec, Ahead
    <3> QED
      BY <1>1, <3>1, <3>2, <3>3, <3>4 DEF Sound, Ahead, OnKeys
  <2>3. CASE BeginPlain(c, op)
    <3>1. /\ call' = [call EXCEPT ![c] = Begun(op, "work", None, None, None)]
          /\ op.source = "none"
      BY <2>3 DEF BeginPlain
    <3>4. /\ call' \in [Calls -> CallRec]
          /\ \A d \in Calls : d # c => call'[d] = call[d]
          /\ call'[c].op = op /\ call'[c].seed = None /\ call'[c].stage = "work"
          /\ call'[c].chain = None /\ call'[c].manager = None
      BY <1>1, <3>1 DEF Begun, CallRec, Ahead
    <3> QED
      BY <1>1, <3>1, <3>4 DEF Sound, Ahead, OnKeys
  <2>4. ASSUME NEW ch \in Chains, BeginWdk(c, op, ch)
        PROVE  /\ call' \in [Calls -> CallRec]
               /\ \A d \in Calls : d # c => call'[d] = call[d]
               /\ call'[c].stage # "idle" /\ Sound(c)'
    <3>1. /\ call' = [call EXCEPT ![c] = TakesManager(op, ch)]
          /\ op.source = "wdk" /\ asked' = [asked EXCEPT ![c] = mnemonic]
      BY <2>4 DEF BeginWdk
    <3>2. asked'[c] = mnemonic
      BY <3>1 DEF WIInv, Typed
    <3>3. CASE wdk = None
      BY <1>1, <3>1, <3>3 DEF Begun, CallRec, TakesManager, Sound, Ahead
    <3>4. CASE wdk # None
      <4> DEFINE stage == IF ch \in tracked[wdk] THEN "account" ELSE "registering"
      <4>1. call' = [call EXCEPT ![c] = Begun(op, stage, ch, wdk, seedOf[wdk])]
        BY <3>1, <3>4 DEF TakesManager
      <4>2. wdk \in Managers /\ stage \in {"account", "registering"}
            /\ seedOf[wdk] = mnemonic
        BY <1>4, <3>4 DEF WIInv, Typed
      <4>3. stage = "account" => wallets[wdk][ch] > 0
        BY <4>2 DEF WIInv, Tracked
      <4> HIDE DEF stage
      <4>4. /\ call' \in [Calls -> CallRec]
            /\ \A d \in Calls : d # c => call'[d] = call[d]
            /\ call'[c].op = op /\ call'[c].seed = seedOf[wdk] /\ call'[c].stage = stage
            /\ call'[c].chain = ch /\ call'[c].manager = wdk
        BY <1>1, <1>4, <4>1, <4>2 DEF Begun, CallRec, Ahead
      <4> QED
        BY <1>1, <1>2, <3>1, <3>2, <4>2, <4>3, <4>4 DEF Sound, Ahead, OnKeys
    <3> QED
      BY <3>3, <3>4
  <2> QED
    BY <2>1, <2>2, <2>3, <2>4
<1>6. Tracked' /\ (\A d \in Calls : Sound(d)') /\ Used'
  BY <1>1, <1>2, <1>3, <1>5, CallStep
<1>7. Memory'
  BY <1>2, MemoryKept DEF memory
<1> QED
  BY <1>2, <1>3, <1>5, <1>6, <1>7 DEF WIInv, Typed

LEMMA WorkStep ==
    ASSUME WIInv, NEW c \in Calls,
           GotAccount(c) \/ Answered(c) \/ Rejected(c) \/ Unreadable(c)
    PROVE  WIInv'
<1>1. call \in [Calls -> CallRec] /\ Typed /\ Sound(c) /\ call[c] \in CallRec
  BY DEF WIInv, Typed
<1>2. UNCHANGED <<wdk, mnemonic, seedOf, disposed, tracked, wallets, disk, asked>>
  BY DEF GotAccount, Answered, Rejected, Unreadable, memory, registry, vault, history
<1>3. call[c].op.source \in OnKeys /\ call[c].stage \in Ahead => call[c].seed = asked[c]
  BY <1>1 DEF Sound
<1>4. /\ call' \in [Calls -> CallRec]
      /\ \A d \in Calls : d # c => call'[d] = call[d]
      /\ call'[c].stage # "idle" /\ Sound(c)'
      /\ \A u \in used' : u \in used \/ (u[1] = c /\ u[3] = asked[c])
  <2>1. CASE GotAccount(c)
    <3> DEFINE stage == IF call[c].op.work = <<>> THEN "done" ELSE "work"
    <3>1. Becomes(c, stage) /\ call[c].stage = "account" /\ used' = used
      BY <2>1 DEF GotAccount, At, history
    <3>2. stage \in {"done", "work"} /\ call[c].op.source \in OnKeys /\ call[c].op # Load
      BY <1>1, <3>1, LoadIs, VaultWork DEF Sound, OnKeys
    <3> HIDE DEF stage
    <3> QED
      BY <1>1, <1>2, <3>1, <3>2, BecomesIs DEF Sound, Ahead
  <2>2. CASE Answered(c)
    <3> DEFINE stage == IF call[c].at < Len(call[c].op.work) THEN "work" ELSE "done"
               k == call[c].op.work[call[c].at]
    <3>1. PICK v \in Verbs : Awaits(c, v)
      BY <2>2 DEF Answered, Verbs
    <3>2. call[c].stage = "work" /\ k = v /\ call[c].op # Load
          /\ (v \in {"sign", "send"} => call[c].op.source \in OnKeys)
      BY <1>1, <3>1, AwaitsIs
    <3>3. Moves(c, stage, call[c].seed) /\ stage \in {"work", "done"}
      BY <2>2 DEF Answered, Next1
    <3>4. used' = used \/ (v \in {"sign", "send"} /\ used' = used \cup {<<c, k, call[c].seed>>})
      BY <2>2, <3>1, <3>2 DEF Answered, Awaits, At, Verbs
    <3>5. \A u \in used' : u \in used \/ (u[1] = c /\ u[3] = asked[c])
      BY <1>3, <3>2, <3>4 DEF Ahead
    <3>6. call[c].seed \in Contents \cup {None}
      BY <1>1 DEF CallRec
    <3> HIDE DEF stage
    <3> QED
      BY <1>1, <1>2, <3>2, <3>3, <3>5, <3>6, MovesIs DEF Sound, Ahead
  <2>3. CASE Rejected(c) \/ Unreadable(c)
    <3>1. /\ Becomes(c, "failed")
          /\ used' = used \/ (Awaits(c, "send") /\ used' = used \cup {<<c, "send", call[c].seed>>})
      BY <2>3 DEF Rejected, Unreadable
    <3>2. Awaits(c, "send") => call[c].stage = "work" /\ call[c].op.source \in OnKeys
      BY <1>1, AwaitsIs
    <3>3. \A u \in used' : u \in used \/ (u[1] = c /\ u[3] = asked[c])
      BY <1>3, <3>1, <3>2 DEF Ahead
    <3> QED
      BY <1>1, <3>1, <3>3, BecomesIs DEF Sound, Ahead
  <2> QED
    BY <2>1, <2>2, <2>3
<1>5. Tracked' /\ (\A d \in Calls : Sound(d)') /\ Used'
  BY <1>2, <1>4, CallStep
<1>6. Memory'
  BY <1>2, MemoryKept DEF memory
<1> QED
  BY <1>2, <1>4, <1>5, <1>6 DEF WIInv, Typed

\* The chain is registered, and counted, before it is tracked.
LEMMA RegisteredStep ==
    ASSUME WIInv, NEW c \in Calls, Registered(c)
    PROVE  WIInv'
<1> DEFINE m == call[c].manager
           ch == call[c].chain
<1>1. /\ call[c].stage = "registering" /\ Becomes(c, "account")
      /\ wallets' = [wallets EXCEPT ![m][ch] = @ + 1]
      /\ tracked' = [tracked EXCEPT ![m] = @ \cup {ch}]
      /\ UNCHANGED <<wdk, mnemonic, seedOf, disposed, disk, used, asked>>
  BY DEF Registered, At, memory, vault, history
<1>2. Typed /\ call \in [Calls -> CallRec] /\ Sound(c)
  BY DEF WIInv, Typed
<1>3. /\ call' \in [Calls -> CallRec]
      /\ \A d \in Calls : d # c => call'[d] = call[d]
      /\ call'[c].op = call[c].op /\ call'[c].seed = call[c].seed /\ call'[c].stage = "account"
      /\ call'[c].chain = ch /\ call'[c].manager = m
  BY <1>1, <1>2, BecomesIs
<1>4. m \in Managers /\ ch \in Chains /\ call[c].op.source = "wdk"
  BY <1>1, <1>2 DEF Sound
<1>5. wallets \in [Managers -> [Chains -> Nat]] /\ tracked \in [Managers -> SUBSET Chains]
  BY <1>2 DEF Typed
<1>6. wallets' \in [Managers -> [Chains -> Nat]] /\ tracked' \in [Managers -> SUBSET Chains]
  BY <1>1, <1>4, <1>5
<1>7. /\ wallets'[m][ch] > 0
      /\ \A n \in Managers, h \in Chains : wallets[n][h] > 0 => wallets'[n][h] > 0
  BY <1>1, <1>4, <1>5
<1>8. Tracked'
  <2> SUFFICES ASSUME NEW n \in Managers, NEW h \in tracked'[n] PROVE wallets'[n][h] > 0
    BY DEF Tracked
  <2>1. h \in tracked[n] \/ (n = m /\ h = ch)
    BY <1>1, <1>4, <1>5
  <2>2. h \in Chains
    BY <1>6
  <2> QED
    BY <1>7, <2>1, <2>2 DEF WIInv, Tracked
<1>9. ASSUME NEW d \in Calls
      PROVE  Sound(d)'
  <2>1. CASE d = c
    BY <1>1, <1>2, <1>3, <1>4, <1>7, <2>1 DEF Sound, Ahead, OnKeys
  <2>2. CASE d # c
    <3>1. Sound(d) /\ call'[d] = call[d] /\ asked' = asked
      BY <1>1, <1>3, <2>2 DEF WIInv
    <3> QED
      BY <1>7, <3>1 DEF Sound
  <2> QED
    BY <2>1, <2>2
<1>10. Used'
  BY <1>1, <1>3 DEF WIInv, Used
<1>11. Memory'
  BY <1>1, MemoryKept DEF memory
<1> QED
  BY <1>1, <1>2, <1>3, <1>6, <1>8, <1>9, <1>10, <1>11 DEF WIInv, Typed

-----------------------------------------------------------------------------
(* The vault, the lock and the death of the worker.                          *)

\* A call that goes on in the vault, or ends there; what it goes on with is a
\* blob if it goes on to vault_load's derivation.
VaultMove(c) ==
    \/ Becomes(c, "failed")
    \/ \E stage \in {"work", "done"}, seed \in Contents \cup {None} :
           /\ Moves(c, stage, seed)
           /\ call[c].op = Load /\ call[c].at = 2 => seed \in Contents

LEMMA VaultMoveKeeps ==
    ASSUME WIInv, NEW c \in Calls, call[c].op \in VaultOps, VaultMove(c),
           UNCHANGED <<tracked, wallets, used, asked>>
    PROVE  /\ call' \in [Calls -> CallRec]
           /\ Tracked' /\ (\A d \in Calls : Sound(d)') /\ Used'
<1>1. call \in [Calls -> CallRec] /\ call[c] \in CallRec /\ call[c].op.source \notin OnKeys
  BY VaultWork DEF WIInv, Typed, OnKeys
<1>2. /\ call' \in [Calls -> CallRec]
      /\ \A d \in Calls : d # c => call'[d] = call[d]
      /\ call'[c].stage \in {"work", "done", "failed"} /\ Sound(c)'
  <2>1. CASE Becomes(c, "failed")
    BY <1>1, <2>1, BecomesIs DEF Sound, Ahead
  <2>2. ASSUME NEW stage \in {"work", "done"}, NEW seed \in Contents \cup {None},
               Moves(c, stage, seed), call[c].op = Load /\ call[c].at = 2 => seed \in Contents
        PROVE  /\ call' \in [Calls -> CallRec]
               /\ \A d \in Calls : d # c => call'[d] = call[d]
               /\ call'[c].stage \in {"work", "done", "failed"} /\ Sound(c)'
    <3>1. /\ call' \in [Calls -> CallRec]
          /\ \A d \in Calls : d # c => call'[d] = call[d]
          /\ call'[c].op = call[c].op /\ call'[c].seed = seed
          /\ call'[c].at = call[c].at + 1 /\ call'[c].stage = stage
      BY <1>1, <2>2, MovesIs
    <3>2. call[c].at \in Nat \ {0}
      BY <1>1 DEF CallRec
    <3> QED
      BY <1>1, <2>2, <3>1, <3>2 DEF Sound, Ahead
  <2> QED
    BY <2>1, <2>2 DEF VaultMove
<1>3. Tracked' /\ (\A d \in Calls : Sound(d)') /\ Used'
  BY <1>2, CallStep
<1> QED
  BY <1>2, <1>3

LEMMA VaultStep ==
    ASSUME WIInv, NEW c \in Calls,
           HasDb(c) \/ BlobRead(c) \/ BlobWritten(c) \/ Encrypted(c) \/ VaultRejects(c)
    PROVE  WIInv'
<1>1. Typed /\ call[c] \in CallRec /\ call[c].seed \in Contents \cup {None}
      /\ disk \in Contents \cup {None} /\ call[c].at \in Nat \ {0}
  BY DEF WIInv, Typed, CallRec
<1>2. UNCHANGED <<wdk, mnemonic, seedOf, disposed, tracked, wallets, used, asked>>
  BY DEF HasDb, BlobRead, BlobWritten, Encrypted, VaultRejects, memory, registry, history
<1>3. call[c].op \in VaultOps /\ VaultMove(c) /\ disk' \in Contents \cup {None}
  <2>1. CASE HasDb(c)
    <3>1. Awaits(c, "open") /\ disk' = disk
          /\ (Becomes(c, "failed") \/ Moves(c, "work", call[c].seed))
      BY <2>1 DEF HasDb, VaultMoves
    <3>2. call[c].op \in VaultOps /\ call[c].op.work[call[c].at] = "open"
      BY <1>1, <3>1, AwaitsIs DEF VaultVerbs
    <3>3. ~(call[c].op = Load /\ call[c].at = 2)
      BY <3>2, LoadIs
    <3> QED
      BY <1>1, <3>1, <3>2, <3>3 DEF VaultMove
  <2>2. CASE BlobRead(c)
    <3>1. Awaits(c, "get") /\ disk' = disk
      BY <2>2 DEF BlobRead
    <3>2. call[c].op \in VaultOps
      BY <1>1, <3>1, AwaitsIs DEF VaultVerbs
    <3>3. \/ call[c].op = HasStored /\ Next1(c)
          \/ Becomes(c, "failed")
          \/ disk # None /\ Moves(c, "work", disk)
      BY <2>2 DEF BlobRead, VaultMoves
    <3>4. VaultMove(c)
      BY <1>1, <3>3, LoadIs DEF VaultMove, Next1
    <3> QED
      BY <1>1, <3>1, <3>2, <3>4
  <2>3. CASE BlobWritten(c)
    <3>1. PICK k \in {"put", "delete"} : Awaits(c, k)
      BY <2>3 DEF BlobWritten
    <3>2. call[c].op \in VaultOps /\ call[c].op.work[call[c].at] = k
      BY <1>1, <3>1, AwaitsIs DEF VaultVerbs
    <3>3. ~(call[c].op = Load /\ call[c].at = 2)
      BY <3>2, LoadIs
    <3>4. Next1(c) /\ disk' \in {call[c].seed, None}
      BY <2>3 DEF BlobWritten
    <3> QED
      BY <1>1, <3>2, <3>3, <3>4 DEF VaultMove, Next1
  <2>4. CASE Encrypted(c)
    BY <1>1, <2>4, LoadIs DEF Encrypted, VaultMoves, VaultMove
  <2>5. CASE VaultRejects(c)
    BY <1>1, <2>5 DEF VaultRejects, VaultMove, vault
  <2> QED
    BY <2>1, <2>2, <2>3, <2>4, <2>5
<1>4. call' \in [Calls -> CallRec] /\ Tracked' /\ (\A d \in Calls : Sound(d)') /\ Used'
  BY <1>2, <1>3, VaultMoveKeeps
<1>5. Memory'
  BY <1>2, MemoryKept DEF memory
<1> QED
  BY <1>1, <1>2, <1>3, <1>4, <1>5 DEF WIInv, Typed

\* The manager of a load is the next one, and disposes of the one before it.
LEMMA LoadKeeps ==
    ASSUME WIInv, NEW s \in Seeds, Cardinality(Made) < MaxLoads,
           wdk' = Cardinality(Made) + 1, mnemonic' = s, Dispose,
           seedOf' = [seedOf EXCEPT ![Cardinality(Made) + 1] = s]
    PROVE  /\ Memory' /\ disposed' \subseteq Managers
           /\ wdk' \in Managers /\ seedOf' \in [Managers -> Seeds \cup {None}]
<1>1. PICK k \in 0 .. MaxLoads : Made = 1 .. k
  BY DEF WIInv, Memory, Numbered
<1>2. Cardinality(Made) = k
  BY <1>1, FS_Interval, BoundsAssumption
<1>3. k + 1 \in Managers /\ k < MaxLoads
  BY <1>1, <1>2, BoundsAssumption DEF Managers
<1>4. None \notin Seeds /\ None \notin Managers /\ k + 1 \notin Made
  BY <1>1, NoneAssumption DEF Contents
<1>5. /\ disposed' = (IF wdk = None THEN disposed ELSE disposed \cup {wdk})
      /\ wdk' = k + 1 /\ mnemonic' = s /\ seedOf' = [seedOf EXCEPT ![k + 1] = s]
  BY <1>2 DEF Dispose
<1>6. seedOf' \in [Managers -> Seeds \cup {None}] /\ seedOf'[k + 1] = s
      /\ \A m \in Managers : m # k + 1 => seedOf'[m] = seedOf[m]
  BY <1>3, <1>5 DEF WIInv, Typed
<1>7. Made' = Made \cup {k + 1}
  BY <1>3, <1>4, <1>6 DEF Made
<1>8. Made' = 1 .. (k + 1) /\ k + 1 \in 0 .. MaxLoads
  BY <1>1, <1>3, <1>7, BoundsAssumption
<1>9. disposed \subseteq Made /\ wdk \in Made \cup {None}
  BY DEF WIInv, Memory, Numbered
<1>10. Numbered'
  <2>1. \E j \in 0 .. MaxLoads : Made' = 1 .. j
    BY <1>8
  <2>2. disposed' \subseteq Made' /\ wdk' \in Made'
    BY <1>5, <1>7, <1>9
  <2> QED
    BY <2>1, <2>2 DEF Numbered
<1>11. KeysOfOneSeed'
  <2>1. ASSUME NEW m \in Managers, seedOf'[m] # None
        PROVE  m \notin disposed' <=> m = wdk'
    <3>1. CASE m = k + 1
      BY <1>4, <1>5, <1>9, <3>1
    <3>2. CASE m # k + 1
      <4>1. seedOf[m] # None
        BY <1>6, <2>1, <3>2
      <4>2. m \notin disposed <=> m = wdk
        BY <4>1 DEF WIInv, Memory, KeysOfOneSeed
      <4> QED
        BY <1>4, <1>5, <3>2, <4>2
    <3> QED
      BY <3>1, <3>2
  <2>2. mnemonic' = (IF wdk' = None THEN None ELSE seedOf'[wdk'])
    BY <1>3, <1>4, <1>5, <1>6
  <2> QED
    BY <2>1, <2>2 DEF KeysOfOneSeed
<1> QED
  BY <1>3, <1>5, <1>6, <1>9, <1>10, <1>11 DEF Memory, WIInv, Typed

LEMMA DecryptedStep ==
    ASSUME WIInv, NEW c \in Calls, Decrypted(c)
    PROVE  WIInv'
<1>1. Typed /\ call[c] \in CallRec /\ call[c].seed \in Contents \cup {None}
      /\ call[c].at \in Nat \ {0}
  BY DEF WIInv, Typed, CallRec
<1>2. /\ call[c].op = Load /\ Awaits(c, "derive") /\ Next1(c)
      /\ UNCHANGED <<tracked, wallets, disk, used, asked>>
  BY DEF Decrypted, registry, vault, history
<1>3. call[c].stage = "work" /\ call[c].at = 3
  <2>1. call[c].stage = "work" /\ Load.work[call[c].at] = "derive" /\ call[c].at <= 3
    BY <1>2, LoadIs DEF Awaits, At
  <2> QED
    BY <1>1, <2>1, LoadIs
<1>4. call[c].seed \in Contents
  BY <1>2, <1>3 DEF WIInv, Sound
<1>5. VaultMove(c)
  BY <1>1, <1>2, <1>4 DEF VaultMove, Next1
<1>6. call' \in [Calls -> CallRec] /\ Tracked' /\ (\A d \in Calls : Sound(d)') /\ Used'
  BY <1>2, <1>5, LoadIs, VaultMoveKeeps
<1>7. /\ Memory' /\ disposed' \subseteq Managers /\ wdk' \in Managers \cup {None}
      /\ mnemonic' \in Seeds \cup {None} /\ seedOf' \in [Managers -> Seeds \cup {None}]
  <2>1. CASE call[c].seed = Garbage
    <3>1. UNCHANGED memory
      BY <2>1 DEF Decrypted
    <3> QED
      BY <1>1, <3>1, MemoryKept DEF memory, Typed
  <2>2. CASE call[c].seed # Garbage
    <3>1. call[c].seed \in Seeds
      BY <1>4, <2>2 DEF Contents
    <3>2. /\ Cardinality(Made) < MaxLoads /\ wdk' = Cardinality(Made) + 1
          /\ seedOf' = [seedOf EXCEPT ![Cardinality(Made) + 1] = call[c].seed]
          /\ mnemonic' = call[c].seed /\ Dispose
      BY <2>2 DEF Decrypted, Made
    <3> QED
      BY <3>1, <3>2, LoadKeeps
  <2> QED
    BY <2>1, <2>2
<1> QED
  BY <1>1, <1>2, <1>6, <1>7 DEF WIInv, Typed

LEMMA BeginVaultStep ==
    ASSUME WIInv, NEW c \in Calls, NEW op \in VaultOps, NEW content \in Contents \cup {None},
           BeginVault(c, op, content)
    PROVE  WIInv'
<1>1. /\ call[c].stage = "idle" /\ UNCHANGED <<tracked, wallets, disk, used, asked>>
      /\ call' = [call EXCEPT ![c] = Begun(op, "work", None, None, content)]
      /\ Forget \/ UNCHANGED memory
  BY DEF BeginVault, At, registry, history
<1>2. call \in [Calls -> CallRec] /\ op \in Ops /\ op.source \notin OnKeys
  BY VaultWork DEF WIInv, Typed, Ops, OnKeys
<1>3. /\ call' \in [Calls -> CallRec]
      /\ \A d \in Calls : d # c => call'[d] = call[d]
      /\ call'[c].op = op /\ call'[c].stage = "work" /\ call'[c].at = 1
  BY <1>1, <1>2 DEF Begun, CallRec, Ahead
<1>4. Sound(c)'
  BY <1>2, <1>3 DEF Sound
<1>5. Tracked' /\ (\A d \in Calls : Sound(d)') /\ Used'
  BY <1>1, <1>3, <1>4, CallStep
<1>6. /\ Memory' /\ disposed' \subseteq Managers /\ wdk' \in Managers \cup {None}
      /\ mnemonic' \in Seeds \cup {None} /\ seedOf' \in [Managers -> Seeds \cup {None}]
  <2>1. CASE Forget
    BY <2>1, ForgetKeeps DEF WIInv, Typed
  <2>2. CASE UNCHANGED memory
    BY <2>2, MemoryKept DEF memory, WIInv, Typed
  <2> QED
    BY <1>1, <2>1, <2>2
<1> QED
  BY <1>1, <1>3, <1>5, <1>6 DEF WIInv, Typed

LEMMA LockStep ==
    ASSUME WIInv, Lock
    PROVE  WIInv'
<1>1. Forget /\ UNCHANGED <<tracked, wallets, disk, call, used, asked>>
  BY DEF Lock, registry, vault, history
<1> QED
  BY <1>1, ForgetKeeps DEF WIInv, Typed, Tracked, Sound, Used

\* What a restart leaves: nothing in memory, no call under way, every manager gone.
LEMMA RestartStep ==
    ASSUME WIInv, Restart
    PROVE  WIInv'
<1>1. /\ wdk' = None /\ mnemonic' = None /\ disposed' = Made
      /\ call' = [c \in Calls |-> IF At(c, "idle") THEN call[c] ELSE [call[c] EXCEPT !.stage = "failed"]]
      /\ UNCHANGED <<seedOf, tracked, wallets, disk, used, asked>>
  BY DEF Restart, registry, Made
<1>2. ASSUME NEW c \in Calls
      PROVE  /\ call'[c] \in CallRec /\ call'[c].stage \in {"idle", "failed"}
             /\ call'[c].stage = "idle" => call[c].stage = "idle"
  <2>1. call[c] \in CallRec
    BY DEF WIInv, Typed
  <2>2. CASE At(c, "idle")
    BY <1>1, <2>1, <2>2 DEF At
  <2>3. CASE ~At(c, "idle")
    <3>1. call'[c] = [call[c] EXCEPT !.stage = "failed"]
      BY <1>1, <2>3
    <3> QED
      BY <2>1, <3>1 DEF CallRec
  <2> QED
    BY <2>2, <2>3
<1>3. call' \in [Calls -> CallRec] /\ \A c \in Calls : Sound(c)'
  BY <1>1, <1>2 DEF Sound, Ahead
<1>4. Made' = Made /\ Made \subseteq Managers /\ None \notin Managers
  BY <1>1, NoneAssumption DEF Made
<1>5. Memory'
  BY <1>1, <1>4 DEF WIInv, Memory, KeysOfOneSeed, Numbered, Made
<1>6. Used' /\ Tracked'
  BY <1>1, <1>2 DEF WIInv, Used, Tracked
<1> QED
  BY <1>1, <1>3, <1>4, <1>5, <1>6 DEF WIInv, Typed

-----------------------------------------------------------------------------

LEMMA WorkerInit == Init => WIInv
<1> SUFFICES ASSUME Init PROVE WIInv
  OBVIOUS
<1>1. HasStored \in Ops
  BY LoadIs DEF Ops
<1>2. call \in [Calls -> CallRec] /\ \A c \in Calls : call[c].stage = "idle"
  BY <1>1 DEF Init, Idle, Begun, CallRec
<1>3. Typed
  BY <1>2, FoundAssumption DEF Init, Typed
<1>4. Made = 1 .. 0 /\ 0 \in 0 .. MaxLoads
  BY BoundsAssumption DEF Init, Made
<1>5. Memory
  BY <1>4 DEF Init, Memory, KeysOfOneSeed, Numbered
<1>6. Tracked /\ (\A c \in Calls : Sound(c)) /\ Used
  BY <1>2 DEF Init, Tracked, Sound, Used, Ahead
<1> QED
  BY <1>3, <1>5, <1>6 DEF WIInv

LEMMA WorkerStep == WIInv /\ [Next]_vars => WIInv'
<1> SUFFICES ASSUME WIInv, [Next]_vars PROVE WIInv'
  OBVIOUS
<1>1. ASSUME NEW c \in Calls, Begins(c)
      PROVE  WIInv'
  BY <1>1, BeginStep, BeginVaultStep DEF Begins, Refused, BeginSeed, BeginPlain, BeginWdk, BeginVault
<1>2. ASSUME NEW c \in Calls, Goes(c)
      PROVE  WIInv'
  BY <1>2, RegisteredStep, WorkStep, VaultStep, DecryptedStep DEF Goes
<1>3. CASE Opened
  BY <1>3, MemoryKept DEF Opened, memory, registry, history, WIInv, Typed, Tracked, Sound, Used
<1>4. CASE UNCHANGED vars
  BY <1>4, MemoryKept DEF vars, memory, WIInv, Typed, Tracked, Sound, Used
<1> QED
  BY <1>1, <1>2, <1>3, <1>4, LockStep, RestartStep DEF Next

LEMMA WorkerInvariant == Spec => []WIInv
BY WorkerInit, WorkerStep, PTL DEF Spec

\* The manager in use and the mnemonic are of one seed, and of all managers ever
\* made only the present one is not disposed of (wallet-worker.ts: vault_load,
\* lock, vault_clear), for any number of calls and loads.
THEOREM KeysAreOfOneSeed == Spec => []KeysOfOneSeed
<1>1. WIInv => KeysOfOneSeed
  BY DEF WIInv, Memory
<1> QED
  BY <1>1, WorkerInvariant, PTL

\* No first call for a chain, among any number of them, uses a manager before its
\* chain is registered there (registry.ts: ensureChainRegistered).
THEOREM ChainsAreRegisteredFirst == Spec => []RegisteredBeforeUse
<1>1. WIInv => RegisteredBeforeUse
  BY DEF WIInv, Sound, RegisteredBeforeUse, At
<1> QED
  BY <1>1, WorkerInvariant, PTL

\* Loads, locks and clears in the middle of a call do not change whose account it
\* signs and sends with (wallet-worker.ts: the account taken at the first await).
THEOREM CallsKeepTheirSeed == Spec => []CallKeepsItsSeed
<1>1. WIInv => CallKeepsItsSeed
  BY DEF WIInv, Used, CallKeepsItsSeed
<1> QED
  BY <1>1, WorkerInvariant, PTL

-----------------------------------------------------------------------------
(* The connection: what a vault call may do before the database is open.      *)

\* As long as the database is not open, a vault call under way is at its open or
\* at the derivation that vault_store makes before it.
Opens(c) ==
    call[c].stage = "work" /\ call[c].op \in VaultOps /\ db # "open" =>
        call[c].op.work[call[c].at] = "open" \/ (call[c].op = Store /\ call[c].at = 1)
Connected == \A c \in Calls : Opens(c)

LEMMA StoreIs ==
    /\ Store.work[1] = "derive" /\ Store.work[2] = "open" /\ Store.work[3] = "put"
    /\ Len(Store.work) = 3
BY DEF Store, From

LEMMA FirstVaultAwait == \A op \in VaultOps : op.work[1] = "open" \/ op = Store
BY DEF VaultOps, Store, From

LEMMA AccountIsNoVault == \A op \in AccountOps : op \notin VaultOps
BY AccountWork, VaultWork DEF OnAccount, OnKeys

\* An await behind the open finds the database open.
LEMMA BehindOpen ==
    ASSUME WIInv, Connected, NEW c \in Calls,
           \/ Awaits(c, "get") \/ Awaits(c, "put") \/ Awaits(c, "delete")
           \/ Awaits(c, "derive") /\ call[c].op = Load
    PROVE  db = "open"
<1>1. Typed
  BY DEF WIInv
<1>2. PICK k \in {"get", "put", "delete", "derive"} :
          Awaits(c, k) /\ (k = "derive" => call[c].op = Load)
  OBVIOUS
<1>3. /\ call[c].stage = "work" /\ call[c].op \in VaultOps
      /\ call[c].op.work[call[c].at] = k
  BY <1>1, <1>2, AwaitsIs DEF VaultVerbs
<1>4. ~(call[c].op = Store /\ call[c].at = 1)
  BY <1>2, <1>3, StoreIs, LoadIs
<1>5. Opens(c)
  BY DEF Connected
<1> QED
  BY <1>3, <1>4, <1>5 DEF Opens

\* One call moves while the connection stays open if it is.
LEMMA OpensStep ==
    ASSUME Connected, NEW c \in Calls, \A d \in Calls : d # c => call'[d] = call[d],
           db = "open" => db' = "open", Opens(c)'
    PROVE  Connected'
<1> SUFFICES ASSUME NEW d \in Calls PROVE Opens(d)'
  BY DEF Connected
<1>1. CASE d = c
  BY <1>1
<1>2. CASE d # c
  <2>1. Opens(d) /\ call'[d] = call[d]
    BY <1>2 DEF Connected
  <2> QED
    BY <2>1 DEF Opens
<1> QED
  BY <1>1, <1>2

LEMMA OpensAccount ==
    ASSUME WIInv, Connected, NEW c \in Calls, Accounts(c) \/ Registered(c)
    PROVE  Connected'
<1>1. call \in [Calls -> CallRec] /\ Typed /\ Sound(c)
  BY DEF WIInv, Typed
<1>2. db' = db
  BY DEF Accounts, Refused, BeginSeed, BeginPlain, BeginWdk, Registered, GotAccount, Answered,
     Rejected, Unreadable, vault
<1>3. /\ \A d \in Calls : d # c => call'[d] = call[d]
      /\ Opens(c)'
  <2>1. ASSUME NEW op \in AccountOps,
               \/ Refused(c, op) \/ BeginSeed(c, op) \/ BeginPlain(c, op)
               \/ \E ch \in Chains : BeginWdk(c, op, ch)
        PROVE  /\ \A d \in Calls : d # c => call'[d] = call[d]
               /\ Opens(c)'
    <3>1. PICK stage, ch, m, s : call' = [call EXCEPT ![c] = Begun(op, stage, ch, m, s)]
      BY <2>1 DEF Refused, BeginSeed, BeginPlain, BeginWdk, TakesManager
    <3>2. call'[c].op = op /\ \A d \in Calls : d # c => call'[d] = call[d]
      BY <1>1, <3>1 DEF Begun
    <3> QED
      BY <3>2, AccountIsNoVault DEF Opens
  <2>2. ASSUME NEW stage \in {"account", "work", "done", "failed"}, Becomes(c, stage),
               stage = "work" => call[c].op \notin VaultOps
        PROVE  /\ \A d \in Calls : d # c => call'[d] = call[d]
               /\ Opens(c)'
    BY <1>1, <2>2, BecomesIs DEF Opens
  <2>3. CASE GotAccount(c)
    <3>1. call[c].op \notin VaultOps
      BY <1>1, <2>3, VaultWork DEF GotAccount, At, Sound, OnKeys
    <3>2. Becomes(c, "done") \/ Becomes(c, "work")
      BY <2>3 DEF GotAccount
    <3> QED
      BY <2>2, <3>1, <3>2
  <2>4. CASE Answered(c)
    <3>1. call[c].op \notin VaultOps
      BY <1>1, <2>4, AwaitsIs, AccountIsNoVault DEF Answered, Verbs
    <3>2. call[c].seed \in Contents \cup {None}
      BY <1>1 DEF CallRec
    <3>3. Moves(c, "work", call[c].seed) \/ Moves(c, "done", call[c].seed)
      BY <2>4 DEF Answered, Next1
    <3> QED
      BY <1>1, <3>1, <3>2, <3>3, MovesIs DEF Opens
  <2>5. CASE Rejected(c) \/ Unreadable(c)
    BY <2>2, <2>5 DEF Rejected, Unreadable
  <2>6. CASE Registered(c)
    BY <2>2, <2>6 DEF Registered
  <2> QED
    BY <2>1, <2>3, <2>4, <2>5, <2>6 DEF Accounts
<1> QED
  BY <1>2, <1>3, OpensStep

LEMMA OpensVault ==
    ASSUME WIInv, Connected, NEW c \in Calls,
           \/ HasDb(c) \/ BlobRead(c) \/ BlobWritten(c) \/ Encrypted(c) \/ Decrypted(c)
           \/ VaultRejects(c)
    PROVE  Connected'
<1>1. /\ call \in [Calls -> CallRec] /\ Typed /\ call[c].at \in Nat \ {0}
      /\ call[c].seed \in Contents \cup {None} /\ disk \in Contents \cup {None}
  BY DEF WIInv, Typed, CallRec
<1>2. ASSUME NEW stage \in {"work", "done"}, NEW seed \in Contents \cup {None},
             Moves(c, stage, seed), db' = "open"
      PROVE  Connected'
  BY <1>1, <1>2, MovesIs, OpensStep DEF Opens
<1>3. ASSUME Becomes(c, "failed"), db' = db
      PROVE  Connected'
  BY <1>1, <1>3, BecomesIs, OpensStep DEF Opens
<1>4. ASSUME NEW seed \in Contents \cup {None}, VaultMoves(c, seed), db = "open"
      PROVE  Connected'
  <2>1. Moves(c, "work", seed) /\ db' = "open"
    BY <1>4 DEF VaultMoves, GetDb
  <2> QED
    BY <1>2, <2>1
<1>5. CASE HasDb(c)
  BY <1>1, <1>3, <1>4, <1>5 DEF HasDb
<1>6. CASE BlobRead(c)
  <2>1. db = "open"
    BY <1>6, BehindOpen DEF BlobRead
  <2>2. \/ Next1(c) /\ db' = db
        \/ Becomes(c, "failed") /\ db' = db
        \/ VaultMoves(c, disk)
    BY <1>6 DEF BlobRead
  <2> QED
    BY <1>1, <1>2, <1>3, <1>4, <2>1, <2>2 DEF Next1
<1>7. CASE BlobWritten(c)
  <2>1. db = "open"
    BY <1>7, BehindOpen DEF BlobWritten
  <2>2. Next1(c) /\ db' = db
    BY <1>7 DEF BlobWritten
  <2> QED
    BY <1>1, <1>2, <2>1, <2>2 DEF Next1
<1>8. CASE Encrypted(c)
  <2>1. call[c].op = Store /\ Awaits(c, "derive") /\ VaultMoves(c, call[c].seed)
    BY <1>8 DEF Encrypted
  <2>2. call[c].at = 1
    <3>1. Store.work[call[c].at] = "derive" /\ call[c].at <= 3
      BY <2>1, StoreIs DEF Awaits
    <3> QED
      BY <1>1, <3>1, StoreIs
  <2>3. Moves(c, "work", call[c].seed) /\ (db = "open" => db' = "open")
    BY <2>1 DEF VaultMoves, GetDb
  <2>4. /\ \A d \in Calls : d # c => call'[d] = call[d]
        /\ call'[c].op = Store /\ call'[c].at = 2
    BY <1>1, <2>1, <2>2, <2>3, MovesIs
  <2> QED
    BY <2>3, <2>4, StoreIs, OpensStep DEF Opens
<1>9. CASE Decrypted(c)
  <2>1. db = "open"
    BY <1>9, BehindOpen DEF Decrypted
  <2>2. Next1(c) /\ db' = db
    BY <1>9 DEF Decrypted, vault
  <2> QED
    BY <1>1, <1>2, <2>1, <2>2 DEF Next1
<1>10. CASE VaultRejects(c)
  BY <1>3, <1>10 DEF VaultRejects, vault
<1> QED
  BY <1>5, <1>6, <1>7, <1>8, <1>9, <1>10

LEMMA OpensBegin ==
    ASSUME WIInv, Connected, NEW c \in Calls, NEW op \in VaultOps,
           NEW content \in Contents \cup {None}, BeginVault(c, op, content)
    PROVE  Connected'
<1>1. /\ call' = [call EXCEPT ![c] = Begun(op, "work", None, None, content)]
      /\ db = "open" => db' = "open"
  BY DEF BeginVault, GetDb
<1>2. /\ \A d \in Calls : d # c => call'[d] = call[d]
      /\ call'[c].op = op /\ call'[c].at = 1
  BY <1>1 DEF WIInv, Typed, Begun
<1> QED
  BY <1>1, <1>2, FirstVaultAwait, OpensStep DEF Opens

LEMMA OpensRestart ==
    ASSUME WIInv, Restart
    PROVE  Connected'
<1> SUFFICES ASSUME NEW c \in Calls PROVE call'[c].stage # "work"
  BY DEF Connected, Opens
<1>1. call[c] \in CallRec
  BY DEF WIInv, Typed
<1>2. call'[c] = IF At(c, "idle") THEN call[c] ELSE [call[c] EXCEPT !.stage = "failed"]
  BY DEF Restart
<1> QED
  BY <1>1, <1>2 DEF At, CallRec

LEMMA ConnectedStep == WIInv /\ Connected /\ [Next]_vars => Connected'
<1> SUFFICES ASSUME WIInv, Connected, [Next]_vars PROVE Connected'
  OBVIOUS
<1>1. ASSUME NEW c \in Calls, Begins(c)
      PROVE  Connected'
  <2>1. \/ Accounts(c)
        \/ \E op \in VaultOps, s \in Contents \cup {None} : BeginVault(c, op, s)
    BY <1>1 DEF Begins, Accounts, Refused, BeginSeed, BeginPlain, BeginWdk, BeginVault
  <2> QED
    BY <2>1, OpensAccount, OpensBegin
<1>2. ASSUME NEW c \in Calls, Goes(c)
      PROVE  Connected'
  BY <1>2, OpensAccount, OpensVault DEF Goes, Accounts
<1>3. CASE Opened \/ Lock \/ UNCHANGED vars
  <2>1. call' = call /\ (db = "open" => db' = "open")
    BY <1>3 DEF Opened, Lock, vars, vault
  <2> QED
    BY <2>1 DEF Connected, Opens
<1> QED
  BY <1>1, <1>2, <1>3, OpensRestart DEF Next

Counted == deaths \in Nat

LEMMA CountedStep == Counted /\ [Next]_vars => Counted'
<1> USE DEF Counted
<1> SUFFICES ASSUME Counted, [Next]_vars PROVE Counted'
  OBVIOUS
<1>1. ASSUME NEW c \in Calls, Begins(c) \/ Goes(c)
      PROVE  deaths' = deaths
  BY <1>1 DEF Begins, Refused, BeginSeed, BeginPlain, BeginWdk, BeginVault, Goes, Registered,
     GotAccount, Answered, Rejected, Unreadable, HasDb, BlobRead, BlobWritten, Encrypted,
     Decrypted, VaultRejects, history
<1>2. CASE Opened \/ Lock \/ Restart \/ UNCHANGED vars
  BY <1>2 DEF Opened, Lock, Restart, vars, history
<1> QED
  BY <1>1, <1>2 DEF Next

LEMMA ConnectedInit == Init => Connected /\ Counted
BY DEF Init, Idle, Begun, Connected, Opens, Counted

\* With the connection failed, a step of one call leaves the disk alone and does
\* not end a call of the vault.
LEMMA FailedKeeps ==
    ASSUME WIInv, Connected, Counted, db = "failed", [Next]_vars
    PROVE  /\ disk' = disk
           /\ db' # "failed" => deaths' # deaths
           /\ \A c \in Calls : call[c].op \in VaultOps /\ At(c, "work") =>
                  call'[c].stage # "done"
<1> DEFINE Safe == \A c \in Calls : call[c].op \in VaultOps /\ At(c, "work") =>
                       call'[c].stage # "done"
<1>1. call \in [Calls -> CallRec] /\ Typed /\ \A c \in Calls : call[c] \in CallRec
  BY DEF WIInv, Typed
<1>2. ASSUME NEW c \in Calls, \A d \in Calls : d # c => call'[d] = call[d],
             call[c].op \in VaultOps /\ At(c, "work") => call'[c].stage # "done"
      PROVE  Safe
  BY <1>2 DEF At
<1>3. ASSUME NEW c \in Calls,
             \/ Becomes(c, "failed") \/ Becomes(c, "account")
             \/ \E seed \in Contents \cup {None} : Moves(c, "work", seed)
      PROVE  Safe
  BY <1>1, <1>2, <1>3, BecomesIs, MovesIs
<1>4. ASSUME NEW c \in Calls, Begins(c)
      PROVE  disk' = disk /\ db' = "failed" /\ Safe
  <2>1. disk' = disk /\ db' = "failed" /\ At(c, "idle")
    BY <1>4 DEF Begins, Refused, BeginSeed, BeginPlain, BeginWdk, BeginVault, GetDb, vault
  <2>2. \A d \in Calls : d # c => call'[d] = call[d]
    BY <1>1, <1>4 DEF Begins, Refused, BeginSeed, BeginPlain, BeginWdk, BeginVault
  <2> QED
    BY <1>2, <2>1, <2>2 DEF At
<1>5. ASSUME NEW c \in Calls, Goes(c)
      PROVE  disk' = disk /\ db' = "failed" /\ Safe
  <2>1. CASE Registered(c) \/ Rejected(c) \/ Unreadable(c) \/ VaultRejects(c)
    BY <1>3, <2>1 DEF Registered, Rejected, Unreadable, VaultRejects, vault
  <2>2. CASE GotAccount(c)
    <3>1. At(c, "account") /\ UNCHANGED <<disk, db>> /\ (Becomes(c, "done") \/ Becomes(c, "work"))
      BY <2>2 DEF GotAccount, vault
    <3>2. \A d \in Calls : d # c => call'[d] = call[d]
      BY <1>1, <3>1, BecomesIs
    <3> QED
      BY <1>2, <3>1, <3>2 DEF At
  <2>3. CASE Answered(c)
    <3>1. call[c].op \notin VaultOps
      BY <1>1, <2>3, AwaitsIs, AccountIsNoVault DEF Answered, Verbs
    <3>2. call[c].seed \in Contents \cup {None}
      BY <1>1 DEF CallRec
    <3>3. UNCHANGED <<disk, db>>
          /\ (Moves(c, "work", call[c].seed) \/ Moves(c, "done", call[c].seed))
      BY <2>3 DEF Answered, Next1, vault
    <3>4. \A d \in Calls : d # c => call'[d] = call[d]
      BY <1>1, <3>2, <3>3, MovesIs
    <3> QED
      BY <1>2, <3>1, <3>3, <3>4
  <2>4. CASE HasDb(c)
    BY <1>3, <2>4 DEF HasDb
  <2>5. ~(BlobRead(c) \/ BlobWritten(c) \/ Decrypted(c))
    BY BehindOpen DEF BlobRead, BlobWritten, Decrypted
  <2>6. CASE Encrypted(c)
    <3>1. call[c].seed \in Contents \cup {None}
      BY <1>1 DEF CallRec
    <3>2. disk' = disk /\ db' = "failed" /\ Moves(c, "work", call[c].seed)
      BY <2>6 DEF Encrypted, VaultMoves, GetDb
    <3> QED
      BY <1>3, <3>1, <3>2
  <2> QED
    BY <1>5, <2>1, <2>2, <2>3, <2>4, <2>5, <2>6 DEF Goes
<1>6. ASSUME Opened
      PROVE  disk' = disk /\ db' = "failed" /\ Safe
  BY <1>6 DEF Opened
<1>7. ASSUME Lock \/ UNCHANGED vars
      PROVE  disk' = disk /\ db' = "failed" /\ Safe
  BY <1>7 DEF Lock, vars, vault, At
<1>8. ASSUME Restart
      PROVE  disk' = disk /\ deaths' # deaths /\ Safe
  <2>1. \A c \in Calls : call'[c].stage \in {"idle", "failed"}
    <3> SUFFICES ASSUME NEW c \in Calls PROVE call'[c].stage \in {"idle", "failed"}
      OBVIOUS
    <3>1. call'[c] = IF At(c, "idle") THEN call[c] ELSE [call[c] EXCEPT !.stage = "failed"]
      BY <1>8 DEF Restart
    <3> QED
      BY <1>1, <3>1 DEF At, CallRec
  <2>2. disk' = disk /\ deaths' = deaths + 1
    BY <1>8 DEF Restart
  <2> QED
    BY <2>1, <2>2 DEF Counted
<1> HIDE DEF Safe
<1>9. disk' = disk /\ (db' # "failed" => deaths' # deaths) /\ Safe
  BY <1>4, <1>5, <1>6, <1>7, <1>8 DEF Next
<1> QED
  BY <1>9 DEF Safe

\* In no life of the worker, with any number of calls, does the vault come back
\* from a database that would not open: its operations fail and the blob stays
\* (storage.ts: the rejected dbPromise is kept).
THEOREM AFailedOpenIsFinal == Spec => FailedOpenIsFinal
<1>1. WIInv /\ Connected /\ Counted /\ [Next]_vars =>
          [db = "failed" =>
              /\ disk' = disk
              /\ db' # "failed" => deaths' # deaths
              /\ \A c \in Calls : call[c].op \in VaultOps /\ At(c, "work") =>
                     call'[c].stage # "done"]_vars
  BY FailedKeeps
<1>2. Spec => [](Connected /\ Counted)
  BY ConnectedInit, ConnectedStep, CountedStep, WorkerInvariant, PTL DEF Spec
<1> QED
  BY <1>1, <1>2, WorkerInvariant, PTL DEF Spec, FailedOpenIsFinal

=============================================================================
