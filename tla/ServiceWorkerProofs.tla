-------------------------- MODULE ServiceWorkerProofs --------------------------
(***************************************************************************)
(* Theorems about ServiceWorker, for every set of requests, origins,       *)
(* accounts, seeds and wallet UIs, with restarts, refused storage          *)
(* operations and backup imports.                                          *)
(***************************************************************************)
EXTENDS ServiceWorker, SequenceTheorems, TLAPS


-----------------------------------------------------------------------------
(* Requests                                                                 *)

\* A handler goes on from one stage to the next, or answers; it has its effect
\* on the user's yes (an entry of the allow-list) or when the worker signs.
Lawful(old, new) ==
    \/ old.stage # "new" /\ new.stage = "closed" /\ new.acted = old.acted
    \/ /\ new.acted = old.acted
       /\ <<PhaseOf(old.stage), PhaseOf(new.stage)>> \in
            {<<"new", "received">>, <<"received", "received">>, <<"received", "asking">>,
             <<"asking", "granted">>, <<"granted", "granted">>}
    \/ old.stage = "asking" /\ new.stage = "saving" /\ new.acted
    \/ old.stage = "signing" /\ ~old.acted /\ new.stage = "signing" /\ new.acted

\* The account a handler has in hand: the one of before, none, or one of those
\* approved for its origin.
MayUse(r, account) ==
    \/ account \in {req[r].account, NoAccount}
    \/ ~At(r, "new") /\ account \in ApprovedAccounts(Origin(r))

\* The request r, which has not been answered yet, goes to the record rec.
MovesTo(r, rec) ==
    /\ ~At(r, "closed")
    /\ Lawful(req[r], rec)
    /\ rec.acted => rec.stage \in {"signing", "saving", "telling", "closed"}
    /\ MayUse(r, rec.account)
    /\ rec.stage # "new" /\ rec.call # NoCall /\ (~At(r, "new") => rec.call = req[r].call)
    /\ rec.stage = "asking" /\ rec.call.method \in {"sign", "send"} => rec.account \in Accounts
    /\ req' = [req EXCEPT ![r] = rec]
    /\ pending' = IF rec.stage = "asking" THEN pending \cup {r} ELSE pending \ {r}

Moves(r) == \E rec \in Request : MovesTo(r, rec)

RestartsRequests ==
    /\ pending' = {}
    /\ req' = [r \in Reqs |-> IF At(r, "new") THEN req[r] ELSE Closed(req[r])]

\* A request that was submitted carries one of the calls of its page.
LEMMA CallsAreWellFormed ==
    ASSUME RequestTypeOK, NEW r \in Reqs, ~At(r, "new")
    PROVE  /\ req[r] \in Request
           /\ req[r].call \in PageCalls /\ req[r].call # NoCall
           /\ Origin(r) \in Origins
           /\ Method(r) \in Methods
           /\ Method(r) = "switch" => req[r].call.chain \in Chains
<1>1. req[r] \in Request /\ req[r].call # NoCall
  BY DEF RequestTypeOK, At
<1>2. req[r].call \in PageCalls
  BY <1>1 DEF Request
<1>3. req[r].call \in Calls
  BY <1>2, PageCallsAssumption
<1>4. QED
  BY <1>1, <1>2, <1>3, PageCallsAssumption DEF Calls, Origin, Method

\* Answering a request that was received moves it, and so does sending it to
\* the worker.
LEMMA CloseMoves ==
    ASSUME RequestTypeOK, NEW r \in Reqs, ~At(r, "new"), ~At(r, "closed"),
           Close(r), pending' = pending \ {r}
    PROVE  Moves(r)
<1> DEFINE rec == Closed(req[r])
<1>1. req[r] \in Request /\ req[r].call # NoCall
  BY CallsAreWellFormed
<1>2. rec \in Request /\ rec.stage = "closed" /\ rec.call = req[r].call
      /\ rec.acted = req[r].acted /\ MayUse(r, rec.account)
  BY <1>1 DEF Request, Closed, Stages, MayUse
<1>3. req' = [req EXCEPT ![r] = rec]
  <2>1. req \in [Reqs -> Request]
    BY DEF RequestTypeOK
  <2>2. QED
    BY <2>1 DEF Close
<1> HIDE DEF rec
<1>4. Lawful(req[r], rec)
  BY <1>2 DEF Lawful, At
<1>5. QED
  BY <1>1, <1>2, <1>3, <1>4 DEF Moves, MovesTo

LEMMA WorkerCallMoves ==
    ASSUME RequestTypeOK, WalletTypeOK, NEW r \in Reqs, ~At(r, "new"), ~At(r, "closed"),
           NEW stage \in Stages \ {"new", "asking"},
           NEW account \in Accounts \cup {NoAccount}, MayUse(r, account),
           <<req[r].stage, stage>> \in
             {<<"loading", "answering">>, <<"loading", "deriving">>,
              <<"asking", "signing">>, <<"saving", "telling">>},
           CallWorker(r, stage, account), pending' = pending \ {r}
    PROVE  Moves(r)
<1>1. CASE seed = NoSeed
  BY <1>1, CloseMoves DEF CallWorker
<1>2. CASE seed # NoSeed
  <2> DEFINE rec == [req[r] EXCEPT !.stage = stage, !.key = seed, !.account = account]
  <2>1. req[r] \in Request /\ req[r].call # NoCall
    BY CallsAreWellFormed
  <2>2. rec \in Request /\ rec.stage = stage /\ rec.call = req[r].call
        /\ rec.acted = req[r].acted /\ rec.account = account
    BY <2>1 DEF Request, WalletTypeOK
  <2>3. req' = [req EXCEPT ![r] = rec]
    BY <1>2 DEF CallWorker, RequestTypeOK
  <2>4. Lawful(req[r], rec)
    BY <2>2 DEF Lawful, PhaseOf
  <2>5. rec.acted => rec.stage \in {"signing", "saving", "telling", "closed"}
    BY <2>2 DEF RequestTypeOK
  <2> HIDE DEF rec
  <2>6. QED
    BY <2>1, <2>2, <2>3, <2>4, <2>5 DEF Moves, MovesTo
<1>3. QED
  BY <1>1, <1>2

LEMMA ReceivedStages ==
    ASSUME NEW stage \in Stages, PhaseOf(stage) = "received"
    PROVE  stage \in {"loading", "deriving", "answering"}
BY DEF Stages, PhaseOf

\* Putting a request in front of the user moves it, given a signer for what
\* is to be signed.
LEMMA AskMoves ==
    ASSUME RequestTypeOK, NEW r \in Reqs, PhaseOf(req[r].stage) = "received", Ask(r),
           Method(r) \in {"sign", "send"} => req[r].account \in Accounts
    PROVE  Moves(r)
<1> DEFINE rec == [req[r] EXCEPT !.stage = "asking"]
<1>1. ~At(r, "new") /\ ~At(r, "closed") /\ req[r].stage \in {"loading", "deriving", "answering"}
  BY ReceivedStages DEF At, RequestTypeOK, Request
<1>2. req[r] \in Request /\ req[r].call # NoCall /\ ~req[r].acted
  BY <1>1, CallsAreWellFormed DEF RequestTypeOK, Request
<1>3. rec \in Request /\ rec.stage = "asking" /\ rec.call = req[r].call
      /\ rec.account = req[r].account /\ rec.acted = req[r].acted
  BY <1>2 DEF Request, Stages
<1>4. req' = [req EXCEPT ![r] = rec] /\ pending' = pending \cup {r}
  BY DEF Ask, GoTo, Flow!Open, RequestTypeOK
<1>5. Lawful(req[r], rec)
  BY <1>3 DEF Lawful, PhaseOf
<1> HIDE DEF rec
<1>6. MayUse(r, rec.account)
  BY <1>3 DEF MayUse
<1>7. QED
  BY <1>1, <1>2, <1>3, <1>4, <1>5, <1>6 DEF Moves, MovesTo, Method

\* An origin's approved indices are account indices.
LEMMA ApprovedAreAccounts ==
    ASSUME List!ConnTypeOK, NEW o \in Origins
    PROVE  ApprovedAccounts(o) \subseteq Accounts
BY DEF List!ConnTypeOK, List!Map, Entries, ApprovedAccounts, Connected

\* The handler of a request that waited for load() (dapp-handlers.ts).
LEMMA HandleMoves ==
    ASSUME RequestTypeOK, WalletTypeOK, List!ConnTypeOK, WaitingIsPending,
           NEW r \in Reqs, Handle(r)
    PROVE  Moves(r)
<1>1. /\ At(r, "loading") /\ ~At(r, "new") /\ ~At(r, "closed") /\ r \notin pending
      /\ req[r].stage = "loading" /\ PhaseOf(req[r].stage) = "received"
  BY DEF Handle, At, WaitingIsPending, PhaseOf
<1>2. pending' = pending => pending' = pending \ {r}
  BY <1>1
<1>3. /\ "answering" \in Stages \ {"new", "asking"}
      /\ "deriving" \in Stages \ {"new", "asking"}
      /\ NoAccount \in Accounts \cup {NoAccount}
  BY DEF Stages
<1>4. Origin(r) \in Origins /\ ApprovedAccounts(Origin(r)) \subseteq Accounts
  BY <1>1, CallsAreWellFormed, ApprovedAreAccounts
<1>5. CASE AnswerAccounts(r)
  BY <1>1, <1>2, <1>3, <1>5, CloseMoves, WorkerCallMoves DEF AnswerAccounts, MayUse
<1>6. CASE Refuse(r)
  BY <1>1, <1>2, <1>6, CloseMoves DEF Refuse
<1>7. CASE Ask(r) /\ Method(r) \notin {"sign", "send"}
  BY <1>1, <1>7, AskMoves
<1>8. CASE HandleSign(r)
  <2>1. ResolvedAccount(r) \in Accounts \cup {NoAccount} /\ MayUse(r, ResolvedAccount(r))
    BY <1>1, <1>4 DEF ResolvedAccount, MayUse
  <2>2. Close(r) \/ CallWorker(r, "deriving", ResolvedAccount(r))
    BY <1>8 DEF HandleSign
  <2>3. pending' = pending \ {r}
    BY <1>2, <1>8 DEF HandleSign
  <2>4. QED
    BY <1>1, <1>3, <2>1, <2>2, <2>3, CloseMoves, WorkerCallMoves
<1>9. CASE HandleSend(r)
  <2>1. CASE Refuse(r)
    BY <1>6, <2>1
  <2>2. ASSUME NEW i \in ApprovedAccounts(Origin(r)), Flow!Open(r),
               req' = [req EXCEPT ![r].stage = "asking", ![r].account = i]
        PROVE  Moves(r)
    <3> DEFINE rec == [req[r] EXCEPT !.stage = "asking", !.account = i]
    <3>1. req[r] \in Request /\ req[r].call # NoCall /\ ~req[r].acted
      BY <1>1, CallsAreWellFormed DEF RequestTypeOK
    <3>2. i \in Accounts
      BY <1>4
    <3>3. rec \in Request /\ rec.stage = "asking" /\ rec.call = req[r].call /\ rec.account = i
          /\ rec.acted = req[r].acted
      BY <3>1, <3>2 DEF Request, Stages
    <3>4. req' = [req EXCEPT ![r] = rec] /\ pending' = pending \cup {r}
      BY <2>2 DEF Flow!Open, RequestTypeOK
    <3>5. Lawful(req[r], rec)
      BY <1>1, <3>3 DEF Lawful, PhaseOf
    <3>6. MayUse(r, rec.account)
      BY <1>1, <3>3 DEF MayUse
    <3> HIDE DEF rec
    <3>7. QED
      BY <1>1, <3>1, <3>2, <3>3, <3>4, <3>5, <3>6 DEF Moves, MovesTo
  <2>3. QED
    BY <1>9, <2>1, <2>2 DEF HandleSend
<1>10. QED
  <2>1. CASE HandleAccounts(r) \/ HandleConnect(r)
    BY <2>1, <1>5, <1>6, <1>7 DEF HandleAccounts, HandleConnect
  <2>2. CASE HandleSwitch(r) \/ HandleAddChain(r)
    BY <2>2, <1>6, <1>7 DEF HandleSwitch, HandleAddChain
  <2>3. QED
    BY <2>1, <2>2, <1>8, <1>9 DEF Handle

\* A page submits a request.
LEMMA SubmitMoves ==
    ASSUME RequestTypeOK, WaitingIsPending, NEW r \in Reqs, NEW call \in PageCalls, Submit(r, call)
    PROVE  Moves(r)
<1> DEFINE rec == [req[r] EXCEPT !.stage = "loading", !.call = call]
<1>1. req[r] \in Request /\ call # NoCall
  BY PageCallsAssumption, NoCallAssumption DEF RequestTypeOK
<1>2. rec \in Request /\ rec.stage = "loading" /\ rec.call = call /\ rec.acted = req[r].acted
  BY <1>1 DEF Request, Stages
<1>3. ~At(r, "closed") /\ At(r, "new") /\ r \notin pending /\ req[r].stage = "new"
  BY DEF Submit, At, WaitingIsPending
<1>4. req' = [req EXCEPT ![r] = rec] /\ pending' = pending \ {r}
  BY <1>3 DEF Submit, RequestTypeOK
<1>5. Lawful(req[r], rec) /\ ~rec.acted /\ MayUse(r, rec.account)
  BY <1>1, <1>2, <1>3 DEF Lawful, PhaseOf, RequestTypeOK, MayUse, Request
<1> HIDE DEF rec
<1>6. QED
  BY <1>1, <1>2, <1>3, <1>4, <1>5 DEF Moves, MovesTo

\* Every step of a suspended handler is a move of its request.
LEMMA RequestStepMoves ==
    ASSUME RequestTypeOK, WalletTypeOK, List!ConnTypeOK, WaitingIsPending,
           NEW r \in Reqs, RequestStep(r)
    PROVE  Moves(r) /\ ~At(r, "new")
<1>1. "telling" \in Stages \ {"new", "asking"} /\ NoAccount \in Accounts \cup {NoAccount}
      /\ MayUse(r, NoAccount)
  BY DEF Stages, MayUse
<1>2. CASE Handle(r)
  BY <1>2, HandleMoves DEF Handle, At
<1>3. CASE ~Handle(r)
  <2>1. ~At(r, "new") /\ ~At(r, "closed") /\ r \notin pending
    BY <1>3 DEF RequestStep, LoadRejected, Derived, Signs, Signed, Saved, SaveRejected, Answered,
                At, WaitingIsPending
  <2>2. pending' = pending => pending' = pending \ {r}
    BY <2>1
  <2>3. CASE LoadRejected(r) \/ SaveRejected(r) \/ Answered(r) \/ Signed(r)
    BY <2>1, <2>2, <2>3, CloseMoves DEF LoadRejected, SaveRejected, Answered, Signed
  <2>4. CASE Derived(r)
    <3>1. CASE Refuse(r)
      BY <2>1, <2>2, <3>1, CloseMoves DEF Refuse
    <3>2. CASE req[r].account # NoAccount /\ Ask(r)
      <4>1. PhaseOf(req[r].stage) = "received"
        BY <2>4 DEF Derived, At, PhaseOf
      <4>2. QED
        BY <2>1, <3>2, <4>1, AskMoves, CallsAreWellFormed DEF Request
    <3>3. QED
      BY <2>4, <3>1, <3>2 DEF Derived
  <2>5. CASE Saved(r)
    <3>1. Close(r) \/ CallWorker(r, "telling", NoAccount)
      BY <2>5 DEF Saved
    <3>2. pending' = pending /\ req[r].stage = "saving"
      BY <2>5 DEF Saved, At
    <3>3. QED
      BY <1>1, <2>1, <2>2, <3>1, <3>2, CloseMoves, WorkerCallMoves
  <2>6. CASE Signs(r)
    <3> DEFINE rec == [req[r] EXCEPT !.acted = TRUE]
    <3>1. req[r] \in Request /\ req[r].call # NoCall
      BY <2>1, CallsAreWellFormed
    <3>2. /\ rec \in Request /\ rec.stage = "signing" /\ rec.call = req[r].call /\ rec.acted
          /\ MayUse(r, rec.account)
      BY <2>6, <3>1 DEF Signs, At, Request, MayUse
    <3>3. req' = [req EXCEPT ![r] = rec] /\ pending' = pending \ {r}
      BY <2>2, <2>6 DEF Signs, RequestTypeOK
    <3>4. Lawful(req[r], rec)
      BY <2>6, <3>2 DEF Signs, At, Lawful
    <3> HIDE DEF rec
    <3>5. QED
      BY <2>1, <3>1, <3>2, <3>3, <3>4 DEF Moves, MovesTo
  <2>7. QED
    BY <1>3, <2>1, <2>3, <2>4, <2>5, <2>6 DEF RequestStep
<1>4. QED
  BY <1>2, <1>3

\* The user's answer settles a request that was waiting, whichever it is.
LEMMA RespondMoves ==
    ASSUME RequestTypeOK, WalletTypeOK, List!ConnTypeOK, WaitingIsPending,
           NEW r \in Reqs, Respond(r)
    PROVE  Moves(r) /\ ~At(r, "new")
<1>1. r \in pending /\ pending' = pending \ {r}
  BY DEF Respond, Reject, ApproveConnect, ApproveSignature, ApproveSwitch, ApproveAddChain,
         Flow!Settle
<1>2. At(r, "asking") /\ ~At(r, "new") /\ ~At(r, "closed") /\ req[r].stage = "asking"
  BY <1>1 DEF WaitingIsPending, At
<1>3. req[r] \in Request /\ req[r].call # NoCall
  BY <1>2, CallsAreWellFormed
<1>4. CASE Reject(r) \/ ApproveAddChain(r)
  BY <1>1, <1>2, <1>4, CloseMoves DEF Reject, ApproveAddChain
<1>5. CASE ApproveSignature(r)
  <2>1. /\ req[r].account \in Accounts \cup {NoAccount} /\ MayUse(r, req[r].account)
        /\ "signing" \in Stages \ {"new", "asking"}
    BY <1>3 DEF Request, Stages, MayUse
  <2>2. QED
    BY <1>1, <1>2, <1>5, <2>1, WorkerCallMoves DEF ApproveSignature
<1>6. CASE req' = [req EXCEPT ![r].stage = "saving", ![r].acted = TRUE]
  <2> DEFINE rec == [req[r] EXCEPT !.stage = "saving", !.acted = TRUE]
  <2>1. /\ rec \in Request /\ rec.stage = "saving" /\ rec.call = req[r].call /\ rec.acted
        /\ MayUse(r, rec.account)
    BY <1>3 DEF Request, Stages, MayUse
  <2>2. req' = [req EXCEPT ![r] = rec]
    BY <1>6 DEF RequestTypeOK
  <2>3. Lawful(req[r], rec)
    BY <1>2, <2>1 DEF Lawful
  <2> HIDE DEF rec
  <2>4. QED
    BY <1>1, <1>2, <1>3, <2>1, <2>2, <2>3 DEF Moves, MovesTo
<1>7. QED
  BY <1>2, <1>4, <1>5, <1>6 DEF Respond, ApproveConnect, ApproveSwitch

\* What a step of the worker may do to the requests and to `withdrawn`.
LEMMA RequestFrame ==
    ASSUME RequestTypeOK, WalletTypeOK, List!ConnTypeOK, WaitingIsPending, [Next]_vars
    PROVE  \/ \E r \in Reqs : /\ Moves(r) /\ withdrawn' = withdrawn
                              /\ At(r, "new") => \E call \in PageCalls : Submit(r, call)
           \/ CancelRequests
           \/ RestartsRequests /\ withdrawn' = withdrawn
           \/ UNCHANGED <<req, pending, withdrawn>>
<1>1. ASSUME NEW r \in Reqs, NEW call \in PageCalls, Submit(r, call)
      PROVE  Moves(r) /\ withdrawn' = withdrawn
  BY <1>1, SubmitMoves DEF Submit, lockHistory
<1>2. ASSUME NEW r \in Reqs, RequestStep(r)
      PROVE  Moves(r) /\ ~At(r, "new") /\ withdrawn' = withdrawn
  <2>1. withdrawn' = withdrawn
    BY <1>2 DEF RequestStep, LoadRejected, Handle, Derived, Signs, Signed, Saved, SaveRejected,
                Answered, KeepWallet, historyVars, lockHistory
  <2>2. QED
    BY <1>2, <2>1, RequestStepMoves
<1>3. ASSUME NEW r \in Reqs, Respond(r)
      PROVE  Moves(r) /\ ~At(r, "new") /\ withdrawn' = withdrawn
  <2>1. withdrawn' = withdrawn
    BY <1>3 DEF Respond, Reject, ApproveConnect, ApproveSignature, ApproveSwitch, ApproveAddChain,
                KeepWallet, historyVars, lockHistory
  <2>2. QED
    BY <1>3, <2>1, RespondMoves
<1>4. ASSUME NEW p \in Surfaces, SurfaceStep(p)
      PROVE  CancelRequests \/ UNCHANGED <<req, pending, withdrawn>>
  BY <1>4 DEF SurfaceStep, VaultOp, ClearVault, ClearRejected, RevokeConnections,
              RevokeRejected, RevokeConnection, SettingsSaved, historyVars, lockHistory
<1>5. CASE Lock
  BY <1>5 DEF Lock
<1>6. CASE AutoLock
  BY <1>6 DEF AutoLock
<1>7. CASE LoadList
  BY <1>7 DEF LoadList, historyVars, lockHistory
<1>8. CASE Restart
  BY <1>8 DEF Restart, RestartsRequests
<1>9. CASE UNCHANGED vars
  BY <1>9 DEF vars, historyVars, lockHistory
<1>10. QED
  BY <1>1, <1>2, <1>3, <1>4, <1>5, <1>6, <1>7, <1>8, <1>9 DEF Next

\* Well-typed requests and an exact pending map are preserved together.
LEMMA RequestsStep ==
    ASSUME RequestTypeOK, WalletTypeOK, List!ConnTypeOK, WaitingIsPending, [Next]_vars
    PROVE  RequestTypeOK' /\ WaitingIsPending'
<1>1. ASSUME NEW r \in Reqs, Moves(r)
      PROVE  RequestTypeOK' /\ WaitingIsPending'
  <2>1. PICK rec \in Request : MovesTo(r, rec)
    BY <1>1 DEF Moves
  <2>2. QED
    BY <2>1 DEF MovesTo, RequestTypeOK, WaitingIsPending, At
<1>2. CASE CancelRequests
  <2>1. \A r \in pending : Closed(req[r]) \in Request
    BY DEF Closed, Request, Stages, RequestTypeOK, WaitingIsPending
  <2>2. pending \subseteq Reqs /\ pending' = {}
    BY <1>2 DEF WaitingIsPending, CancelRequests, Flow!CancelAll
  <2>3. \A r \in pending : Closed(req[r]).stage = "closed" /\ Closed(req[r]).call = req[r].call
    BY <2>2 DEF Closed, Request, RequestTypeOK
  <2>4. \A r \in Reqs : req'[r] = IF r \in pending THEN Closed(req[r]) ELSE req[r]
    BY <1>2 DEF CancelRequests
  <2>5. RequestTypeOK'
    BY <1>2, <2>1, <2>2, <2>3 DEF RequestTypeOK, CancelRequests, WaitingIsPending, At
  <2>6. WaitingIsPending'
    BY <2>2, <2>3, <2>4 DEF WaitingIsPending, At
  <2>7. QED
    BY <2>5, <2>6
<1>3. CASE RestartsRequests
  <2>1. \A r \in Reqs : /\ Closed(req[r]) \in Request
                        /\ Closed(req[r]).stage = "closed"
                        /\ Closed(req[r]).call = req[r].call
    BY DEF Closed, Request, Stages, RequestTypeOK
  <2>2. QED
    BY <1>3, <2>1 DEF RestartsRequests, RequestTypeOK, WaitingIsPending, At
<1>4. CASE UNCHANGED <<req, pending, withdrawn>>
  BY <1>4 DEF RequestTypeOK, WaitingIsPending, At
<1>5. QED
  BY <1>1, <1>2, <1>3, <1>4, RequestFrame

-----------------------------------------------------------------------------
(* The allow-list and the rest of the state                                 *)

\* save() queues a snapshot of the map.
LEMMA SaveKeepsQueue ==
    ASSUME writes \in Seq(List!Write), NEW map \in List!Map, NEW c \in Callers, List!Save(map, c)
    PROVE  writes' \in Seq(List!Write)
<1>1. [image |-> map, by |-> c] \in List!Write
  BY DEF List!Write
<1>2. QED
  BY <1>1, AppendProperties DEF List!Save

\* The three ways the handlers change the list: each entry they write is one
\* the list may hold.
LEMMA ApproveKeepsList ==
    ASSUME List!ConnTypeOK, NEW o \in Origins, NEW e \in Entries, NEW c \in Callers,
           List!Approve(o, e, c)
    PROVE  List!ConnTypeOK'
<1>1. conns' \in List!Map
  BY DEF List!Approve, List!Map, List!ConnTypeOK
<1>2. QED
  BY <1>1, SaveKeepsQueue DEF List!Approve, List!ConnTypeOK

LEMMA RevokeKeepsList ==
    ASSUME List!ConnTypeOK, NEW c \in Callers,
           List!RevokeAll(c) \/ \E o \in Origins : List!Revoke(o, c)
    PROVE  List!ConnTypeOK'
<1>1. /\ conns' \in List!Map /\ load = "loaded" /\ UNCHANGED <<load, stored>>
      /\ List!Save(conns', c) \/ writes' = writes
  BY DEF List!RevokeAll, List!Revoke, List!Map, List!EmptyMap, List!ConnTypeOK
<1>2. QED
  BY <1>1, SaveKeepsQueue DEF List!ConnTypeOK

LEMMA AnswerKeepsList ==
    ASSUME List!ConnTypeOK, List!WriteDone \/ List!WriteFail
    PROVE  List!ConnTypeOK'
<1>1. writes # <<>> /\ writes' = Tail(writes) /\ UNCHANGED <<conns, load>>
  BY DEF List!WriteDone, List!WriteFail
<1>2. Head(writes) \in List!Write /\ Tail(writes) \in Seq(List!Write)
  BY <1>1, HeadTailProperties DEF List!ConnTypeOK
<1>3. stored' \in List!Map
  BY <1>2 DEF List!WriteDone, List!WriteFail, List!ConnTypeOK, List!Write
<1>4. QED
  BY <1>1, <1>2, <1>3 DEF List!ConnTypeOK

LEMMA RestartKeepsList ==
    ASSUME List!ConnTypeOK, List!ConnRestart
    PROVE  List!ConnTypeOK'
<1>1. ASSUME NEW k \in DOMAIN writes PROVE writes[k].image \in List!Map
  <2>1. k \in 1 .. Len(writes)
    BY LenProperties DEF List!ConnTypeOK
  <2>2. writes[k] \in List!Write
    BY <2>1, ElementOfSeq DEF List!ConnTypeOK
  <2>3. QED
    BY <2>2 DEF List!Write
<1>2. conns' \in List!Map /\ stored' \in List!Map
  BY <1>1 DEF List!ConnRestart, List!EmptyMap, List!Map, List!ConnTypeOK
<1>3. writes' \in Seq(List!Write)
  BY DEF List!ConnRestart
<1>4. QED
  BY <1>2, <1>3 DEF List!ConnRestart, List!ConnTypeOK

LEMMA LoadKeepsList ==
    ASSUME List!ConnTypeOK, List!LoadBegin \/ List!LoadDone \/ List!LoadFail
    PROVE  List!ConnTypeOK'
<1>1. conns' \in List!Map
  BY DEF List!LoadBegin, List!LoadDone, List!LoadFail, List!ConnTypeOK, List!Map
<1>2. QED
  BY <1>1 DEF List!LoadBegin, List!LoadDone, List!LoadFail, List!ConnTypeOK

\* The list, and what the user granted or is taking back, stay as they are, and
\* whoever awaits a save still does.
KeepsList ==
    /\ UNCHANGED <<conns, load, stored, writes, grant, taking>>
    /\ \A p \in Surfaces : op[p].do = "saving" => op'[p].do = "saving"

\* Storage answers the save of a request.
AnswersRequest ==
    /\ List!WriteDone \/ List!WriteFail
    /\ Head(writes).by \in Reqs
    /\ UNCHANGED <<grant, taking, op>>

\* What a step of the worker may do to the list.
LEMMA ListFrame ==
    ASSUME WalletTypeOK, [Next]_vars
    PROVE  \/ \E r \in Reqs, accounts \in SUBSET Accounts : ApproveConnect(r, accounts)
           \/ \E r \in Reqs : ApproveSwitch(r)
           \/ \E p \in Surfaces, o \in Origins : RevokeConnection(p, o) /\ Connected(o)
           \/ \E p \in Surfaces : RevokeConnections(p)
           \/ \E p \in Surfaces : SettingsSaved(p)
           \/ AnswersRequest
           \/ LoadList
           \/ Restart
           \/ KeepsList
<1> USE DEF historyVars, grantHistory, connVars, vaultVars
<1>1. ASSUME NEW r \in Reqs, \E call \in PageCalls : Submit(r, call)
      PROVE  KeepsList
  BY <1>1 DEF Submit, KeepsList
<1>2. ASSUME NEW r \in Reqs, RequestStep(r)
      PROVE  AnswersRequest \/ KeepsList
  BY <1>2 DEF RequestStep, LoadRejected, Handle, Derived, Signs, Signed, Saved, SaveRejected,
              Answered, KeepWallet, KeepsList, AnswersRequest
<1>3. ASSUME NEW r \in Reqs, Respond(r)
      PROVE  \/ \E accounts \in SUBSET Accounts : ApproveConnect(r, accounts)
             \/ ApproveSwitch(r)
             \/ KeepsList
  BY <1>3 DEF Respond, Reject, ApproveSignature, ApproveAddChain, KeepWallet, KeepsList
<1>4. ASSUME NEW p \in Surfaces, SurfaceStep(p)
      PROVE  \/ \E o \in Origins : RevokeConnection(p, o) /\ Connected(o)
             \/ RevokeConnections(p)
             \/ SettingsSaved(p)
             \/ KeepsList
  <2>1. ASSUME op[p].do # "saving", NEW new, op' = [op EXCEPT ![p] = new],
               UNCHANGED <<conns, load, stored, writes, grant, taking>>
        PROVE  KeepsList
    BY <2>1 DEF KeepsList, WalletTypeOK
  <2>2. CASE VaultOp(p)
    <3>1. CASE \E s \in Seeds : ImportBackup(p, s)
      BY <2>2, <3>1 DEF VaultOp, ImportBackup, KeepsList
    <3>2. CASE ~\E s \in Seeds : ImportBackup(p, s)
      BY <2>1, <2>2, <3>2 DEF VaultOp, StoreBegin, StoreEnd, LoadBegin, LoadEnd, ClearBegin,
                              Idle, Start, Finish
    <3>3. QED
      BY <3>1, <3>2
  <2>3. CASE ClearVault(p) \/ ClearRejected(p) \/ RevokeRejected(p)
    BY <2>1, <2>3 DEF ClearVault, ClearRejected, RevokeRejected, Start, Finish
  <2>4. ASSUME NEW o \in Origins, RevokeConnection(p, o), ~Connected(o)
        PROVE  KeepsList
    BY <2>4 DEF RevokeConnection, List!Revoke, Connected, KeepsList
  <2>5. QED
    BY <1>4, <2>2, <2>3, <2>4 DEF SurfaceStep
<1>5. CASE Lock \/ AutoLock \/ UNCHANGED vars
  BY <1>5 DEF Lock, AutoLock, vars, KeepsList
<1>6. QED
  BY <1>1, <1>2, <1>3, <1>4, <1>5 DEF Next

LEMMA ListStep ==
    ASSUME RequestTypeOK, WalletTypeOK, List!ConnTypeOK, WaitingIsPending, [Next]_vars
    PROVE  List!ConnTypeOK'
<1>1. Reqs \subseteq Callers /\ Surfaces \subseteq Callers
  BY DEF Callers
<1>2. ASSUME NEW r \in pending
      PROVE  r \in Reqs /\ Origin(r) \in Origins
             /\ (Method(r) = "switch" => req[r].call.chain \in Chains)
  BY <1>2, CallsAreWellFormed DEF WaitingIsPending, At
<1>3. ASSUME NEW r \in Reqs, NEW accounts \in SUBSET Accounts, ApproveConnect(r, accounts)
      PROVE  List!ConnTypeOK'
  <2>1. r \in pending
    BY <1>3 DEF ApproveConnect, Flow!Settle
  <2>2. [chain |-> DefaultChain, accounts |-> accounts] \in Entries
    BY DefaultChainAssumption DEF Entries
  <2>3. QED
    BY <1>1, <1>2, <1>3, <2>1, <2>2, ApproveKeepsList DEF ApproveConnect
<1>4. ASSUME NEW r \in Reqs, ApproveSwitch(r)
      PROVE  List!ConnTypeOK'
  <2>1. r \in pending /\ Method(r) = "switch"
    BY <1>4 DEF ApproveSwitch, Flow!Settle
  <2>2. [chain |-> req[r].call.chain, accounts |-> ApprovedAccounts(Origin(r))] \in Entries
    BY <1>2, <2>1, ApprovedAreAccounts DEF Entries
  <2>3. QED
    BY <1>1, <1>2, <1>4, <2>1, <2>2, ApproveKeepsList DEF ApproveSwitch
<1>5. ASSUME NEW p \in Surfaces,
             RevokeConnections(p) \/ \E o \in Origins : RevokeConnection(p, o)
      PROVE  List!ConnTypeOK'
  BY <1>1, <1>5, RevokeKeepsList DEF RevokeConnections, RevokeConnection
<1>6. CASE LoadList
  BY <1>6, LoadKeepsList DEF LoadList
<1>7. CASE Restart
  BY <1>7, RestartKeepsList DEF Restart
<1>8. CASE KeepsList
  BY <1>8 DEF KeepsList, List!ConnTypeOK
<1>9. QED
  BY <1>3, <1>4, <1>5, <1>6, <1>7, <1>8, AnswerKeepsList, ListFrame DEF AnswersRequest, SettingsSaved

LEMMA WalletStep ==
    ASSUME WalletTypeOK, [Next]_vars
    PROVE  WalletTypeOK'
<1> USE DEF WalletTypeOK
<1>1. /\ IdleOp \in Operation
      /\ \A s \in Seeds \cup {NoSeed} : \A do \in {"store", "load", "clear", "revokeAll", "saving"} :
            [do |-> do, seed |-> s] \in Operation
  BY DEF IdleOp, Operation
<1>2. ASSUME NEW p \in Surfaces, SurfaceStep(p)
      PROVE  WalletTypeOK'
  <2>1. CASE VaultOp(p)
    <3>1. op' \in [Surfaces -> Operation]
      BY <1>1, <2>1 DEF VaultOp, StoreBegin, StoreEnd, LoadBegin, LoadEnd, ImportBackup, ClearBegin,
                        Start, Finish
    <3>2. seed' \in Seeds \cup {NoSeed} /\ vault' \in Seeds \cup {NoSeed}
      BY <2>1 DEF VaultOp, StoreBegin, StoreEnd, LoadBegin, LoadEnd, ImportBackup, ClearBegin,
                  Operation
    <3>3. lockState' \in {"locked", "unlocked"}
      BY <2>1 DEF VaultOp, StoreBegin, StoreEnd, LoadBegin, LoadEnd, ImportBackup, ClearBegin
    <3>4. QED
      BY <3>1, <3>2, <3>3
  <2>2. CASE ~VaultOp(p)
    <3>1. op' \in [Surfaces -> Operation]
      BY <1>1, <1>2, <2>2 DEF SurfaceStep, ClearVault, ClearRejected, RevokeConnections,
                              RevokeRejected, RevokeConnection, Revoking, SettingsSaved, Start, Finish
    <3>2. /\ seed' = seed
          /\ lockState' \in {lockState, "locked"}
          /\ vault' \in {vault, NoSeed}
      BY <1>2, <2>2 DEF SurfaceStep, ClearVault, ClearRejected, RevokeConnections,
                        RevokeRejected, RevokeConnection, SettingsSaved, LockEngine
    <3>3. QED
      BY <3>1, <3>2
  <2>3. QED
    BY <2>1, <2>2
<1>3. ASSUME NEW r \in Reqs,
             (\E call \in PageCalls : Submit(r, call)) \/ RequestStep(r) \/ Respond(r)
      PROVE  UNCHANGED vaultVars
  BY <1>3 DEF RequestStep, Submit, LoadRejected, Handle, Derived, Signs, Signed, Saved,
              SaveRejected, Answered, Respond, Reject, ApproveConnect, ApproveSignature,
              ApproveSwitch, ApproveAddChain, KeepWallet
<1>4. CASE Lock \/ AutoLock
  BY <1>4 DEF Lock, AutoLock, LockEngine
<1>5. CASE Restart
  BY <1>1, <1>5 DEF Restart
<1>6. CASE LoadList \/ UNCHANGED vars
  BY <1>6 DEF LoadList, vars, vaultVars
<1>7. QED
  BY <1>2, <1>3, <1>4, <1>5, <1>6 DEF Next, vaultVars

\* What a step of the worker may do to the grants and to what requests may use.
LEMMA GrantFrame ==
    ASSUME HistoryTypeOK, [Next]_vars
    PROVE  \/ \E r \in Reqs, call \in PageCalls : Submit(r, call)
           \/ \E r \in Reqs, accounts \in SUBSET Accounts : ApproveConnect(r, accounts)
           \/ due' = due /\ \A o \in Origins : grant'[o].accounts \subseteq grant[o].accounts
<1> DEFINE Shrinks == due' = due /\ \A o \in Origins : grant'[o].accounts \subseteq grant[o].accounts
<1> USE DEF historyVars, grantHistory
<1>1. ASSUME UNCHANGED <<grant, due>> PROVE Shrinks
  BY <1>1
<1> HIDE DEF Shrinks
<1>2. ASSUME NEW r \in Reqs, RequestStep(r)
      PROVE  Shrinks
  BY <1>1, <1>2 DEF RequestStep, LoadRejected, Handle, Derived, Signs, Signed, Saved, SaveRejected,
              Answered, KeepWallet
<1>3. ASSUME NEW r \in Reqs, Respond(r)
      PROVE  Shrinks \/ \E accounts \in SUBSET Accounts : ApproveConnect(r, accounts)
  BY <1>1, <1>3 DEF Respond, Reject, ApproveSignature, ApproveSwitch, ApproveAddChain, KeepWallet
<1>4. ASSUME NEW p \in Surfaces, SurfaceStep(p)
      PROVE  Shrinks
  <2>1. CASE SettingsSaved(p)
    BY <2>1 DEF SettingsSaved, HistoryTypeOK, Shrinks
  <2>2. CASE ~SettingsSaved(p)
    BY <1>1, <1>4, <2>2 DEF SurfaceStep, VaultOp, ClearVault, ClearRejected, RevokeConnections,
                            RevokeRejected, RevokeConnection
  <2>3. QED
    BY <2>1, <2>2
<1>5. CASE Lock \/ AutoLock \/ LoadList \/ Restart \/ UNCHANGED vars
  BY <1>1, <1>5 DEF Lock, AutoLock, LoadList, Restart, vars
<1>6. QED
  BY <1>2, <1>3, <1>4, <1>5 DEF Next, Shrinks

\* What a step of the worker may do to the history of the locks.
LEMMA LockFrame ==
    ASSUME HistoryTypeOK, WalletTypeOK, [Next]_vars
    PROVE  cause' \in {"request", "alarm", "overtaken"} /\ overtaken' \in SUBSET Surfaces
<1> USE DEF historyVars, lockHistory, HistoryTypeOK
<1>1. ASSUME NEW r \in Reqs,
             (\E call \in PageCalls : Submit(r, call)) \/ RequestStep(r) \/ Respond(r)
      PROVE  UNCHANGED lockHistory
  BY <1>1 DEF RequestStep, Submit, LoadRejected, Handle, Derived, Signs, Signed, Saved,
              SaveRejected, Answered, Respond, Reject, ApproveConnect, ApproveSignature,
              ApproveSwitch, ApproveAddChain, KeepWallet
<1>2. ASSUME NEW p \in Surfaces, SurfaceStep(p)
      PROVE  cause' \in {"request", "alarm", "overtaken"} /\ overtaken' \in SUBSET Surfaces
  BY <1>2 DEF SurfaceStep, VaultOp, LoadEnd, ClearVault, LockEngine, ClearRejected,
              RevokeConnections, RevokeRejected, RevokeConnection, SettingsSaved
<1>3. CASE Lock \/ AutoLock \/ LoadList \/ Restart \/ UNCHANGED vars
  BY <1>3 DEF Lock, AutoLock, LockEngine, LoadList, Restart, vars
<1>4. QED
  BY <1>1, <1>2, <1>3 DEF Next

LEMMA HistoryStep ==
    ASSUME RequestTypeOK, WalletTypeOK, List!ConnTypeOK, HistoryTypeOK, WaitingIsPending,
           [Next]_vars
    PROVE  HistoryTypeOK'
<1> USE DEF HistoryTypeOK
<1>1. told' \in [Origins -> Chains \cup {NoChain}]
  <2>1. CASE told' = told
    BY <2>1
  <2>2. ASSUME NEW r \in Reqs, Saved(r), Method(r) = "switch"
        PROVE  told' \in [Origins -> Chains \cup {NoChain}]
    <3>1. ~At(r, "new")
      BY <2>2 DEF Saved, At
    <3>2. req[r].call.chain \in Chains
      BY <2>2, <3>1, CallsAreWellFormed
    <3>3. told' = told \/ told' = [told EXCEPT ![Origin(r)] = req[r].call.chain]
      BY <2>2 DEF Saved
    <3>4. QED
      BY <3>2, <3>3
  <2>3. told' = told \/ \E r \in Reqs : Saved(r) /\ Method(r) = "switch"
    BY DEF Next, RequestStep, Submit, LoadRejected, Handle, Derived, Signs, Signed, Saved,
           SaveRejected, Answered, Respond, Reject, ApproveConnect, ApproveSignature, ApproveSwitch,
           ApproveAddChain, KeepWallet, SurfaceStep, VaultOp, ClearVault, ClearRejected,
           RevokeConnections, RevokeRejected, RevokeConnection, SettingsSaved, Lock, AutoLock,
           LoadList, Restart, vars
  <2>4. QED
    BY <2>1, <2>2, <2>3
<1> DEFINE GrantsTyped ==
               /\ grant' \in [Origins -> [accounts : SUBSET Accounts, seed : Seeds \cup {NoSeed}]]
               /\ taking' \in [Surfaces -> [Origins -> SUBSET Accounts]]
<1>2. GrantsTyped
  <2>1. TakesNothing \in [Origins -> SUBSET Accounts]
    BY DEF TakesNothing
  <2>2. ASSUME NEW r \in Reqs, NEW accounts \in SUBSET Accounts, ApproveConnect(r, accounts)
        PROVE  GrantsTyped
    <3>1. WalletSeed \in Seeds \cup {NoSeed}
      BY DEF WalletSeed, WalletTypeOK
    <3>2. QED
      BY <2>2, <3>1 DEF ApproveConnect, Grants
  <2>3. ASSUME NEW p \in Surfaces, NEW os \in SUBSET Origins, Revoking(p, os), grant' = grant
        PROVE  GrantsTyped
    <3>1. [o \in Origins |-> IF o \in os THEN grant[o].accounts ELSE {}]
              \in [Origins -> SUBSET Accounts]
      OBVIOUS
    <3>2. QED
      BY <2>3, <3>1 DEF Revoking
  <2>4. ASSUME NEW p \in Surfaces, SettingsSaved(p)
        PROVE  GrantsTyped
    <3>1. taking' \in [Surfaces -> [Origins -> SUBSET Accounts]]
      BY <2>1, <2>4 DEF SettingsSaved
    <3>2. \A o \in Origins : [grant[o] EXCEPT !.accounts = @ \ taking[p][o]]
                                \in [accounts : SUBSET Accounts, seed : Seeds \cup {NoSeed}]
      OBVIOUS
    <3>3. \/ grant' = grant
          \/ grant' = [o \in Origins |-> [grant[o] EXCEPT !.accounts = @ \ taking[p][o]]]
      BY <2>4 DEF SettingsSaved
    <3>4. grant' \in [Origins -> [accounts : SUBSET Accounts, seed : Seeds \cup {NoSeed}]]
      BY <3>2, <3>3
    <3>5. QED
      BY <3>1, <3>4
  <2>5. CASE Restart
    BY <2>1, <2>5 DEF Restart
  <2>6. CASE UNCHANGED <<grant, taking>>
    BY <2>6
  <2>7. QED
    BY <2>2, <2>3, <2>4, <2>5, <2>6, ListFrame
       DEF ApproveSwitch, KeepWallet, RevokeConnection, RevokeConnections, LoadList, historyVars,
           grantHistory, AnswersRequest, KeepsList
<1>3. due' \in [Reqs -> SUBSET Accounts]
  <2>1. ASSUME NEW r \in Reqs, NEW call \in PageCalls, Submit(r, call)
        PROVE  due' \in [Reqs -> SUBSET Accounts]
    <3>1. call.origin \in Origins
      BY PageCallsAssumption DEF Calls
    <3>2. QED
      BY <2>1, <3>1 DEF Submit
  <2>2. ASSUME NEW r \in Reqs, NEW accounts \in SUBSET Accounts, ApproveConnect(r, accounts)
        PROVE  due' \in [Reqs -> SUBSET Accounts]
    BY <2>2 DEF ApproveConnect, Grants
  <2>3. QED
    BY <2>1, <2>2, GrantFrame
<1>4. withdrawn' \in SUBSET Reqs
  BY RequestFrame DEF CancelRequests, Withdraw, WaitingIsPending
<1>5. cause' \in {"request", "alarm", "overtaken"} /\ overtaken' \in SUBSET Surfaces
  BY LockFrame
<1>6. QED
  BY <1>1, <1>2, <1>3, <1>4, <1>5

\* Every reachable state of the worker is well-typed, and the pending map is
\* exact: every handler that waits for the user is in it, and no other.
LEMMA TypedAndPending == Spec => [](TypeOK /\ WaitingIsPending)
<1>1. Init => TypeOK /\ WaitingIsPending
  <2> SUFFICES ASSUME Init PROVE TypeOK /\ WaitingIsPending
    OBVIOUS
  <2>1. WalletTypeOK
    BY DEF Init, WalletTypeOK, IdleOp, Operation
  <2>2. RequestTypeOK /\ WaitingIsPending /\ Flow!FlowTypeOK
    BY DEF Init, Flow!FlowInit, Flow!FlowTypeOK, RequestTypeOK, WaitingIsPending, NewReq, Request,
           Stages, At
  <2>3. List!ConnTypeOK
    BY DEF Init, List!ConnInit, List!ConnTypeOK, List!EmptyMap, List!Map
  <2>4. HistoryTypeOK
    BY DEF Init, HistoryTypeOK, TakesNothing
  <2>5. QED
    BY <2>1, <2>2, <2>3, <2>4 DEF TypeOK
<1>2. TypeOK /\ WaitingIsPending /\ [Next]_vars => TypeOK' /\ WaitingIsPending'
  <2> SUFFICES ASSUME TypeOK, WaitingIsPending, [Next]_vars
               PROVE  TypeOK' /\ WaitingIsPending'
    OBVIOUS
  <2>1. /\ WalletTypeOK' /\ RequestTypeOK' /\ List!ConnTypeOK' /\ HistoryTypeOK'
        /\ WaitingIsPending'
    BY WalletStep, RequestsStep, ListStep, HistoryStep DEF TypeOK
  <2>2. Flow!FlowTypeOK'
    BY <2>1 DEF Flow!FlowTypeOK, WaitingIsPending
  <2>3. QED
    BY <2>1, <2>2 DEF TypeOK
<1>3. QED
  BY <1>1, <1>2, PTL DEF Spec

\* Every variable keeps to its type, and whatever is in front of the user to
\* be signed has a signer.
THEOREM TypeCorrect == Spec => []TypeOK
BY TypedAndPending, PTL

\* A handler is suspended on an approval exactly as long as its request is in
\* the pending map: no promise is left behind, none is settled twice
\* (approval-flow.ts open, respond, cancelAll).
THEOREM PendingIsExact == Spec => []WaitingIsPending
BY TypedAndPending, PTL

-----------------------------------------------------------------------------
(* Locking                                                                  *)

\* A request that waited when LOCK or VAULT_CLEAR was served, whatever had locked
\* the engine before and whatever the user or the pages do later, is answered
\* and never has its effect (ARCHITECTURE.md:61). Of the idle alarm nothing is
\* claimed: checkIdle() does not cancel (lifecycle.ts:68).
THEOREM LockWithdrawsApprovals == Spec => []WithdrawnNeverActs
<1>1. Init => WithdrawnNeverActs
  BY DEF Init, WithdrawnNeverActs
<1>2. TypeOK /\ WaitingIsPending /\ WithdrawnNeverActs /\ [Next]_vars => WithdrawnNeverActs'
  <2> SUFFICES ASSUME TypeOK, WaitingIsPending, WithdrawnNeverActs, [Next]_vars
               PROVE  WithdrawnNeverActs'
    OBVIOUS
  <2> USE DEF WithdrawnNeverActs, TypeOK, RequestTypeOK, HistoryTypeOK
  <2>1. \A r \in Reqs : Closed(req[r]).stage = "closed" /\ Closed(req[r]).acted = req[r].acted
    BY DEF Closed, Request
  <2>2. ASSUME NEW r \in Reqs, Moves(r), withdrawn' = withdrawn
        PROVE  WithdrawnNeverActs'
    BY <2>2 DEF Moves, MovesTo, At
  <2>3. CASE CancelRequests
    BY <2>1, <2>3 DEF CancelRequests, Withdraw, WaitingIsPending, At
  <2>4. CASE RestartsRequests /\ withdrawn' = withdrawn
    BY <2>1, <2>4 DEF RestartsRequests, At
  <2>5. CASE UNCHANGED <<req, pending, withdrawn>>
    BY <2>5 DEF At
  <2>6. QED
    BY <2>2, <2>3, <2>4, <2>5, RequestFrame
<1>3. QED
  BY <1>1, <1>2, TypedAndPending, PTL DEF Spec

\* VAULT_CLEAR has disposed of the manager before it waits for IndexedDB, and
\* only a load that ends meanwhile makes another one.
ClearHoldsNoSeed ==
    \A p \in Surfaces : op[p].do = "clear" /\ p \notin overtaken => seed = NoSeed

\* Whatever loads and clears of whichever surfaces are under way, LOCK, VAULT_CLEAR
\* and the death of the worker leave no seed behind a locked engine (engine.ts:13),
\* but for the idle alarm (lifecycle.ts:68) and for a VAULT_CLEAR that the unlock
\* of another surface overtook (handlers.ts:92).
THEOREM LockDisposesOfSeed == Spec => []LocksDisposeOfSeed
<1> DEFINE Inv == LocksDisposeOfSeed /\ ClearHoldsNoSeed
<1>1. Init => Inv
  BY DEF Init, LocksDisposeOfSeed, ClearHoldsNoSeed
<1>2. TypeOK /\ Inv /\ [Next]_vars => Inv'
  <2> SUFFICES ASSUME TypeOK, Inv, [Next]_vars PROVE Inv'
    OBVIOUS
  <2> USE DEF LocksDisposeOfSeed, ClearHoldsNoSeed, TypeOK, WalletTypeOK, HistoryTypeOK
  <2>1. CASE UNCHANGED <<lockState, seed, op, cause, overtaken>>
    BY <2>1
  <2>2. ASSUME NEW p \in Surfaces, SurfaceStep(p)
        PROVE  Inv'
    <3>1. CASE VaultOp(p)
      <4>1. CASE LoadEnd(p)
        BY <3>1, <4>1 DEF VaultOp, LoadEnd, Finish, IdleOp
      <4>2. CASE ClearBegin(p) /\ UNCHANGED overtaken
        BY <3>1, <4>2 DEF VaultOp, ClearBegin, Start
      <4>3. CASE (\E s \in Seeds : StoreBegin(p, s)) /\ UNCHANGED overtaken
        BY <3>1, <4>3 DEF VaultOp, StoreBegin, Start
      <4>4. CASE (\E s \in Seeds : ImportBackup(p, s)) /\ UNCHANGED overtaken
        BY <3>1, <4>4 DEF VaultOp, ImportBackup
      <4>5. CASE (StoreEnd(p) \/ LoadBegin(p)) /\ UNCHANGED overtaken
        BY <3>1, <4>5 DEF VaultOp, StoreEnd, LoadBegin, Start, Finish, IdleOp
      <4>6. QED
        BY <3>1, <4>1, <4>2, <4>3, <4>4, <4>5 DEF VaultOp
    <3>2. CASE ClearVault(p)
      BY <3>2 DEF ClearVault, LockEngine, Start
    <3>3. CASE ClearRejected(p)
      BY <3>3 DEF ClearRejected, Finish, IdleOp
    <3>4. CASE RevokeConnections(p) \/ RevokeRejected(p) \/ SettingsSaved(p)
                 \/ \E o \in Origins : RevokeConnection(p, o)
      <4>1. UNCHANGED <<lockState, seed, cause, overtaken>>
        BY <3>4 DEF RevokeConnections, RevokeRejected, RevokeConnection, SettingsSaved,
                    historyVars, lockHistory
      <4>2. Start(p, "saving", NoSeed) \/ Finish(p) \/ UNCHANGED op
        BY <3>4 DEF RevokeConnections, RevokeRejected, RevokeConnection, SettingsSaved, Revoking
      <4>3. \A q \in Surfaces : op'[q].do = "clear" => op[q].do = "clear"
        BY <4>2 DEF Start, Finish, IdleOp
      <4>4. QED
        BY <4>1, <4>3
    <3>5. QED
      BY <2>2, <3>1, <3>2, <3>3, <3>4 DEF SurfaceStep
  <2>3. CASE Lock
    BY <2>3 DEF Lock
  <2>4. CASE AutoLock
    BY <2>4 DEF AutoLock, LockEngine
  <2>5. CASE Restart
    BY <2>5 DEF Restart, IdleOp
  <2>6. ASSUME NEW r \in Reqs,
               (\E call \in PageCalls : Submit(r, call)) \/ RequestStep(r) \/ Respond(r)
        PROVE  UNCHANGED <<lockState, seed, op, cause, overtaken>>
    BY <2>6 DEF RequestStep, Submit, LoadRejected, Handle, Derived, Signs, Signed, Saved,
                SaveRejected, Answered, Respond, Reject, ApproveConnect, ApproveSignature,
                ApproveSwitch, ApproveAddChain, KeepWallet, vaultVars, historyVars, lockHistory
  <2>7. CASE LoadList \/ UNCHANGED vars
    BY <2>1, <2>7 DEF LoadList, vars, vaultVars, historyVars, lockHistory
  <2>8. QED
    BY <2>1, <2>2, <2>3, <2>4, <2>5, <2>6, <2>7 DEF Next
<1>3. QED
  BY <1>1, <1>2, TypeCorrect, PTL DEF Spec

\* A request that was submitted stays submitted, and stays the request it is.
LEMMA CallsAreKept ==
    ASSUME TypeOK, WaitingIsPending, [Next]_vars, NEW r \in Reqs, ~At(r, "new")
    PROVE  req'[r].call = req[r].call /\ ~At(r, "new")'
<1>1. RequestTypeOK /\ WalletTypeOK /\ List!ConnTypeOK /\ req[r] \in Request
  BY DEF TypeOK, RequestTypeOK
<1>2. Closed(req[r]).call = req[r].call /\ Closed(req[r]).stage = "closed"
  BY <1>1 DEF Closed, Request
<1>3. ASSUME NEW q \in Reqs, Moves(q)
      PROVE  req'[r].call = req[r].call /\ ~At(r, "new")'
  <2>1. PICK rec \in Request : MovesTo(q, rec)
    BY <1>3 DEF Moves
  <2>2. req'[r] = IF r = q THEN rec ELSE req[r]
    BY <1>1, <2>1 DEF MovesTo, RequestTypeOK
  <2> QED
    BY <2>1, <2>2 DEF MovesTo, At
<1>4. CASE CancelRequests
  BY <1>2, <1>4 DEF CancelRequests, At
<1>5. CASE RestartsRequests
  BY <1>2, <1>5 DEF RestartsRequests, At
<1>6. CASE UNCHANGED <<req, pending, withdrawn>>
  BY <1>6 DEF At
<1> QED
  BY <1>1, <1>3, <1>4, <1>5, <1>6, RequestFrame

-----------------------------------------------------------------------------
(* The allow-list and the user's grants                                     *)

\* A map of the list holds only what was granted; it holds nothing of what the
\* surface is taking back.
Granted(map) == \A o \in Origins : map[o] # NoEntry => map[o].accounts \subseteq grant[o].accounts
Spares(map, p) == \A o \in Origins : map[o] # NoEntry => map[o].accounts \cap taking[p][o] = {}

\* Memory, storage and all that is on its way there hold only granted accounts.
ListGranted ==
    /\ Granted(conns) /\ Granted(stored)
    /\ \A k \in 1 .. Len(writes) : Granted(writes[k].image)

\* What was saved since a revocation holds nothing that it takes back, so that its
\* answer confirms it.
RevocationsHold ==
    \A i \in 1 .. Len(writes) : writes[i].by \in Surfaces =>
        /\ Spares(conns, writes[i].by)
        /\ \A k \in i .. Len(writes) : Spares(writes[k].image, writes[i].by)

\* A surface awaits at most one save, and none unless it says so.
OneSaveEach ==
    \A i \in 1 .. Len(writes) : writes[i].by \in Surfaces =>
        /\ op[writes[i].by].do = "saving"
        /\ \A k \in 1 .. Len(writes) : writes[k].by = writes[i].by => k = i

ListInv == ListGranted /\ RevocationsHold /\ OneSaveEach

\* A save is queued behind those that are under way.
LEMMA AppendGranted ==
    ASSUME List!ConnTypeOK, NEW map, NEW c, List!Save(map, c)
    PROVE  /\ writes \in Seq(List!Write) /\ Len(writes) \in Nat
           /\ Len(writes') = Len(writes) + 1
           /\ writes'[Len(writes) + 1] = [image |-> map, by |-> c]
           /\ \A k \in 1 .. Len(writes) : writes'[k] = writes[k]
<1>1. writes \in Seq(List!Write) /\ writes' = Append(writes, [image |-> map, by |-> c])
  BY DEF List!ConnTypeOK, List!Save
<1>2. QED
  BY <1>1

\* The oldest save leaves the queue.
LEMMA TailShifts ==
    ASSUME List!ConnTypeOK, writes # <<>>, writes' = Tail(writes)
    PROVE  /\ Len(writes) \in Nat /\ 1 \in 1 .. Len(writes) /\ Head(writes) = writes[1]
           /\ Len(writes') = Len(writes) - 1
           /\ \A k \in 1 .. Len(writes') : writes'[k] = writes[k + 1]
BY DEF List!ConnTypeOK

\* A request saves a map that is granted and takes nothing back.
LEMMA RequestSaves ==
    ASSUME TypeOK, ListInv, NEW r \in Reqs, List!Save(conns', r), stored' = stored, op' = op,
           \A o \in Origins : grant[o].accounts \subseteq grant'[o].accounts,
           \A p \in Surfaces, o \in Origins : taking'[p][o] \subseteq taking[p][o],
           Granted(conns)',
           \A p \in Surfaces : Spares(conns, p) => Spares(conns, p)'
    PROVE  ListInv'
<1>1. List!ConnTypeOK /\ r \notin Surfaces
  BY CallersAssumption DEF TypeOK
<1>2. /\ Len(writes) \in Nat /\ Len(writes') = Len(writes) + 1
      /\ writes'[Len(writes) + 1] = [image |-> conns', by |-> r]
      /\ \A k \in 1 .. Len(writes) : writes'[k] = writes[k]
  <2>1. PICK map : map = conns'
    OBVIOUS
  <2>2. QED
    BY <1>1, <2>1, AppendGranted
<1>3. ListGranted'
  <2>1. Granted(conns)' /\ Granted(stored)'
    BY DEF ListInv, ListGranted, Granted
  <2>2. ASSUME NEW k \in 1 .. Len(writes') PROVE Granted(writes[k].image)'
    <3>1. CASE k = Len(writes) + 1
      BY <1>2, <2>1, <3>1 DEF Granted
    <3>2. CASE k # Len(writes) + 1
      <4>1. k \in 1 .. Len(writes) /\ writes'[k] = writes[k] /\ Granted(writes[k].image)
        BY <1>2, <2>2, <3>2 DEF ListInv, ListGranted
      <4>2. QED
        BY <4>1 DEF Granted
    <3>3. QED
      BY <3>1, <3>2
  <2>3. QED
    BY <2>1, <2>2 DEF ListGranted
<1>4. RevocationsHold'
  <2> SUFFICES ASSUME NEW i \in 1 .. Len(writes'), writes'[i].by \in Surfaces
               PROVE  /\ Spares(conns, writes[i].by)'
                      /\ \A k \in i .. Len(writes') : Spares(writes[k].image, writes[i].by)'
    BY DEF RevocationsHold
  <2>1. i \in 1 .. Len(writes) /\ writes'[i] = writes[i]
    BY <1>1, <1>2
  <2>2. PICK p \in Surfaces : p = writes[i].by
    BY <2>1
  <2>3. Spares(conns, p)' /\ \A k \in i .. Len(writes) : Spares(writes[k].image, p)
    BY <2>1, <2>2 DEF ListInv, RevocationsHold
  <2>4. ASSUME NEW k \in i .. Len(writes') PROVE Spares(writes[k].image, p)'
    <3>1. CASE k = Len(writes) + 1
      BY <1>2, <2>3, <3>1 DEF Spares
    <3>2. CASE k # Len(writes) + 1
      <4>1. k \in i .. Len(writes) /\ writes'[k] = writes[k]
        BY <1>2, <2>1, <2>4, <3>2
      <4>2. QED
        BY <2>3, <4>1 DEF Spares
    <3>3. QED
      BY <3>1, <3>2
  <2>5. QED
    BY <2>1, <2>2, <2>3, <2>4
<1>5. OneSaveEach'
  <2> SUFFICES ASSUME NEW i \in 1 .. Len(writes'), writes'[i].by \in Surfaces
               PROVE  /\ op'[writes'[i].by].do = "saving"
                      /\ \A k \in 1 .. Len(writes') : writes'[k].by = writes'[i].by => k = i
    BY DEF OneSaveEach
  <2>1. i \in 1 .. Len(writes) /\ writes'[i] = writes[i]
    BY <1>1, <1>2
  <2>2. QED
    BY <1>1, <1>2, <2>1 DEF ListInv, OneSaveEach
<1>6. QED
  BY <1>3, <1>4, <1>5 DEF ListInv

\* A surface begins to take back what it has deleted from the map.
LEMMA RevocationBegins ==
    ASSUME TypeOK, ListInv, NEW p \in Surfaces, NEW os \in SUBSET Origins, Revoking(p, os),
           op[p].do # "saving", List!Save(conns', p), stored' = stored, grant' = grant,
           \A o \in Origins : conns'[o] = IF o \in os THEN NoEntry ELSE conns[o]
    PROVE  ListInv'
<1>1. List!ConnTypeOK /\ op \in [Surfaces -> Operation]
      /\ taking \in [Surfaces -> [Origins -> SUBSET Accounts]]
  BY DEF TypeOK, WalletTypeOK, HistoryTypeOK
<1>2. /\ Len(writes) \in Nat /\ Len(writes') = Len(writes) + 1
      /\ writes'[Len(writes) + 1] = [image |-> conns', by |-> p]
      /\ \A k \in 1 .. Len(writes) : writes'[k] = writes[k]
  <2>1. PICK map : map = conns'
    OBVIOUS
  <2>2. QED
    BY <1>1, <2>1, AppendGranted
<1>3. /\ op'[p].do = "saving" /\ \A q \in Surfaces \ {p} : op'[q] = op[q] /\ taking'[q] = taking[q]
      /\ \A o \in Origins : taking'[p][o] = IF o \in os THEN grant[o].accounts ELSE {}
  BY <1>1 DEF Revoking, Start
<1>4. \A i \in 1 .. Len(writes) : writes[i].by # p
  BY DEF ListInv, OneSaveEach
<1>5. ListGranted'
  <2>1. Granted(conns)' /\ Granted(stored)'
    BY DEF ListInv, ListGranted, Granted
  <2>2. ASSUME NEW k \in 1 .. Len(writes') PROVE Granted(writes[k].image)'
    <3>1. CASE k = Len(writes) + 1
      BY <1>2, <2>1, <3>1 DEF Granted
    <3>2. CASE k # Len(writes) + 1
      <4>1. k \in 1 .. Len(writes) /\ writes'[k] = writes[k] /\ Granted(writes[k].image)
        BY <1>2, <2>2, <3>2 DEF ListInv, ListGranted
      <4>2. QED
        BY <4>1 DEF Granted
    <3>3. QED
      BY <3>1, <3>2
  <2>3. QED
    BY <2>1, <2>2 DEF ListGranted
<1>6. RevocationsHold'
  <2> SUFFICES ASSUME NEW i \in 1 .. Len(writes'), writes'[i].by \in Surfaces
               PROVE  /\ Spares(conns, writes[i].by)'
                      /\ \A k \in i .. Len(writes') : Spares(writes[k].image, writes[i].by)'
    BY DEF RevocationsHold
  <2>1. Spares(conns, p)'
    BY <1>3 DEF Spares
  <2>2. CASE i = Len(writes) + 1
    <3>1. ASSUME NEW k \in i .. Len(writes') PROVE Spares(writes[k].image, p)'
      <4>1. k = Len(writes) + 1
        BY <1>2, <2>2, <3>1
      <4>2. QED
        BY <1>2, <2>1, <4>1 DEF Spares
    <3>2. QED
      BY <1>2, <2>1, <2>2, <3>1
  <2>3. CASE i # Len(writes) + 1
    <3>1. i \in 1 .. Len(writes) /\ writes'[i] = writes[i]
      BY <1>2, <2>3
    <3>2. PICK q \in Surfaces \ {p} : q = writes[i].by
      BY <1>4, <3>1
    <3>3. Spares(conns, q) /\ \A k \in i .. Len(writes) : Spares(writes[k].image, q)
      BY <3>1, <3>2 DEF ListInv, RevocationsHold
    <3>4. Spares(conns, q)'
      BY <1>3, <3>3 DEF Spares
    <3>5. ASSUME NEW k \in i .. Len(writes') PROVE Spares(writes[k].image, q)'
      <4>1. CASE k = Len(writes) + 1
        BY <1>2, <3>4, <4>1 DEF Spares
      <4>2. CASE k # Len(writes) + 1
        <5>1. k \in i .. Len(writes) /\ writes'[k] = writes[k]
          BY <1>2, <3>1, <3>5, <4>2
        <5>2. QED
          BY <1>3, <3>3, <5>1 DEF Spares
      <4>3. QED
        BY <4>1, <4>2
    <3>6. QED
      BY <3>1, <3>2, <3>4, <3>5
  <2>4. QED
    BY <2>2, <2>3
<1>7. OneSaveEach'
  <2> SUFFICES ASSUME NEW i \in 1 .. Len(writes'), writes'[i].by \in Surfaces
               PROVE  /\ op'[writes'[i].by].do = "saving"
                      /\ \A k \in 1 .. Len(writes') : writes'[k].by = writes'[i].by => k = i
    BY DEF OneSaveEach
  <2>1. CASE i = Len(writes) + 1
    BY <1>2, <1>3, <1>4, <2>1
  <2>2. CASE i # Len(writes) + 1
    <3>1. i \in 1 .. Len(writes) /\ writes'[i] = writes[i]
      BY <1>2, <2>2
    <3>2. QED
      BY <1>2, <1>3, <1>4, <3>1 DEF ListInv, OneSaveEach
  <2>3. QED
    BY <2>1, <2>2
<1>8. QED
  BY <1>5, <1>6, <1>7 DEF ListInv

\* Storage answers the oldest save. What the surface that awaits it took back is no
\* longer granted, and nobody holds it.
LEMMA SaveAnswered ==
    ASSUME TypeOK, ListInv, List!WriteDone \/ List!WriteFail,
           AnswersRequest \/ \E p \in Surfaces : SettingsSaved(p)
    PROVE  ListInv'
<1>1. List!ConnTypeOK /\ op \in [Surfaces -> Operation]
      /\ taking \in [Surfaces -> [Origins -> SUBSET Accounts]]
      /\ grant \in [Origins -> [accounts : SUBSET Accounts, seed : Seeds \cup {NoSeed}]]
      /\ stored \in List!Map /\ conns \in List!Map
  BY DEF TypeOK, WalletTypeOK, HistoryTypeOK, List!ConnTypeOK
<1>2. /\ writes # <<>> /\ writes' = Tail(writes) /\ conns' = conns
      /\ \/ stored' = stored
         \/ List!WriteDone /\ stored' = Head(writes).image
  BY DEF List!WriteDone, List!WriteFail
<1>3. /\ Len(writes) \in Nat /\ 1 \in 1 .. Len(writes) /\ Head(writes) = writes[1]
      /\ Len(writes') = Len(writes) - 1
      /\ \A k \in 1 .. Len(writes') : writes'[k] = writes[k + 1] /\ k + 1 \in 1 .. Len(writes)
  BY <1>1, <1>2, TailShifts
<1>4. CASE UNCHANGED <<grant, taking, op>>
  <2>1. ListGranted'
    BY <1>2, <1>3, <1>4 DEF ListInv, ListGranted, Granted
  <2>2. RevocationsHold'
    <3> SUFFICES ASSUME NEW i \in 1 .. Len(writes'), writes'[i].by \in Surfaces
                 PROVE  /\ Spares(conns, writes[i].by)'
                        /\ \A k \in i .. Len(writes') : Spares(writes[k].image, writes[i].by)'
      BY DEF RevocationsHold
    <3>1. \A k \in i .. Len(writes') : k + 1 \in i + 1 .. Len(writes) /\ writes'[k] = writes[k + 1]
      BY <1>3
    <3>2. /\ Spares(conns, writes[i + 1].by)
          /\ \A k \in i + 1 .. Len(writes) : Spares(writes[k].image, writes[i + 1].by)
      BY <1>3 DEF ListInv, RevocationsHold
    <3>3. QED
      BY <1>2, <1>3, <1>4, <3>1, <3>2 DEF Spares
  <2>3. OneSaveEach'
    <3> SUFFICES ASSUME NEW i \in 1 .. Len(writes'), writes'[i].by \in Surfaces
                 PROVE  /\ op'[writes'[i].by].do = "saving"
                        /\ \A k \in 1 .. Len(writes') : writes'[k].by = writes'[i].by => k = i
      BY DEF OneSaveEach
    <3>1. /\ op[writes[i + 1].by].do = "saving"
          /\ \A k \in 1 .. Len(writes) : writes[k].by = writes[i + 1].by => k = i + 1
      BY <1>3 DEF ListInv, OneSaveEach
    <3>2. writes'[i] = writes[i + 1] /\ op' = op
      BY <1>3, <1>4
    <3>3. ASSUME NEW k \in 1 .. Len(writes'), writes'[k].by = writes'[i].by PROVE k = i
      <4>1. k + 1 \in 1 .. Len(writes) /\ writes[k + 1].by = writes[i + 1].by
        BY <1>3, <3>2, <3>3
      <4>2. k + 1 = i + 1
        BY <3>1, <4>1
      <4>3. k \in Int /\ i \in Int
        BY <1>3
      <4>4. QED
        BY <4>2, <4>3
    <3>4. QED
      BY <3>1, <3>2, <3>3
  <2>4. QED
    BY <2>1, <2>2, <2>3 DEF ListInv
<1>5. ASSUME NEW p \in Surfaces, SettingsSaved(p)
      PROVE  ListInv'
  <2>1. /\ writes[1].by = p
        /\ \/ grant' = grant /\ stored' = stored
           \/ /\ stored' = Head(writes).image
              /\ grant' = [o \in Origins |-> [grant[o] EXCEPT !.accounts = @ \ taking[p][o]]]
        /\ taking' = [taking EXCEPT ![p] = TakesNothing] /\ op' = [op EXCEPT ![p] = IdleOp]
    BY <1>3, <1>5 DEF SettingsSaved, Finish, List!WriteDone, List!WriteFail
  <2>2. Spares(conns, p) /\ \A k \in 1 .. Len(writes) : Spares(writes[k].image, p)
    BY <1>3, <2>1 DEF ListInv, RevocationsHold
  <2>3. \A o \in Origins : grant[o].accounts \ taking[p][o] \subseteq grant'[o].accounts
    BY <1>1, <2>1
  <2>4. \A i \in 1 .. Len(writes') : writes'[i].by # p
    BY <1>3, <2>1 DEF ListInv, OneSaveEach
  <2>5. /\ \A q \in Surfaces \ {p} : op'[q] = op[q] /\ taking'[q] = taking[q]
    BY <1>1, <2>1
  <2>6. ASSUME NEW map, Granted(map), Spares(map, p)
        PROVE  \A o \in Origins : map[o] # NoEntry => map[o].accounts \subseteq grant'[o].accounts
    BY <2>3, <2>6 DEF Granted, Spares
  <2>7. ListGranted'
    <3>1. Granted(conns)'
      BY <1>2, <2>2, <2>6 DEF ListInv, ListGranted, Granted
    <3>2. Granted(stored)'
      <4>1. CASE stored' = stored /\ grant' = grant
        BY <4>1 DEF ListInv, ListGranted, Granted
      <4>2. CASE stored' = writes[1].image
        <5>1. Granted(writes[1].image) /\ Spares(writes[1].image, p)
          BY <1>3, <2>2 DEF ListInv, ListGranted
        <5>2. QED
          BY <2>6, <4>2, <5>1 DEF Granted
      <4>3. QED
        BY <1>3, <2>1, <4>1, <4>2
    <3>3. ASSUME NEW k \in 1 .. Len(writes') PROVE Granted(writes[k].image)'
      <4>1. writes'[k] = writes[k + 1] /\ k + 1 \in 1 .. Len(writes)
        BY <1>3
      <4>2. Granted(writes[k + 1].image) /\ Spares(writes[k + 1].image, p)
        BY <2>2, <4>1 DEF ListInv, ListGranted
      <4>3. QED
        BY <2>6, <4>1, <4>2 DEF Granted
    <3>4. QED
      BY <3>1, <3>2, <3>3 DEF ListGranted
  <2>8. RevocationsHold'
    <3> SUFFICES ASSUME NEW i \in 1 .. Len(writes'), writes'[i].by \in Surfaces
                 PROVE  /\ Spares(conns, writes[i].by)'
                        /\ \A k \in i .. Len(writes') : Spares(writes[k].image, writes[i].by)'
      BY DEF RevocationsHold
    <3>1. \A k \in i .. Len(writes') : k + 1 \in i + 1 .. Len(writes) /\ writes'[k] = writes[k + 1]
      BY <1>3
    <3>2. /\ Spares(conns, writes[i + 1].by)
          /\ \A k \in i + 1 .. Len(writes) : Spares(writes[k].image, writes[i + 1].by)
      BY <1>3 DEF ListInv, RevocationsHold
    <3>3. taking'[writes[i + 1].by] = taking[writes[i + 1].by] /\ writes'[i] = writes[i + 1]
      BY <1>3, <2>4, <2>5
    <3>4. QED
      BY <1>2, <3>1, <3>2, <3>3 DEF Spares
  <2>9. OneSaveEach'
    <3> SUFFICES ASSUME NEW i \in 1 .. Len(writes'), writes'[i].by \in Surfaces
                 PROVE  /\ op'[writes'[i].by].do = "saving"
                        /\ \A k \in 1 .. Len(writes') : writes'[k].by = writes'[i].by => k = i
      BY DEF OneSaveEach
    <3>1. /\ op[writes[i + 1].by].do = "saving"
          /\ \A k \in 1 .. Len(writes) : writes[k].by = writes[i + 1].by => k = i + 1
      BY <1>3 DEF ListInv, OneSaveEach
    <3>2. writes'[i] = writes[i + 1] /\ op'[writes'[i].by] = op[writes[i + 1].by]
      BY <1>3, <2>4, <2>5
    <3>3. ASSUME NEW k \in 1 .. Len(writes'), writes'[k].by = writes'[i].by PROVE k = i
      <4>1. k + 1 \in 1 .. Len(writes) /\ writes[k + 1].by = writes[i + 1].by
        BY <1>3, <3>2, <3>3
      <4>2. k + 1 = i + 1
        BY <3>1, <4>1
      <4>3. k \in Int /\ i \in Int
        BY <1>3
      <4>4. QED
        BY <4>2, <4>3
    <3>4. QED
      BY <3>1, <3>2, <3>3
  <2>10. QED
    BY <2>7, <2>8, <2>9 DEF ListInv
<1>6. QED
  BY <1>4, <1>5 DEF AnswersRequest

LEMMA ListInvStep ==
    ASSUME TypeOK, WaitingIsPending, ListInv, [Next]_vars
    PROVE  ListInv'
<1>1. /\ List!ConnTypeOK /\ conns \in List!Map /\ stored \in List!Map
      /\ grant \in [Origins -> [accounts : SUBSET Accounts, seed : Seeds \cup {NoSeed}]]
      /\ taking \in [Surfaces -> [Origins -> SUBSET Accounts]]
      /\ RequestTypeOK /\ WalletTypeOK
  BY DEF TypeOK, List!ConnTypeOK, HistoryTypeOK
<1>2. ASSUME NEW r \in Reqs, NEW accounts \in SUBSET Accounts, ApproveConnect(r, accounts)
      PROVE  ListInv'
  <2>1. Origin(r) \in Origins
    BY <1>1, <1>2, CallsAreWellFormed DEF ApproveConnect, Flow!Settle, WaitingIsPending, At
  <2>2. /\ conns' = [conns EXCEPT ![Origin(r)] = [chain |-> DefaultChain, accounts |-> accounts]]
        /\ List!Save(conns', r) /\ stored' = stored /\ op' = op
    BY <1>2 DEF ApproveConnect, List!Approve, vaultVars
  <2>3. /\ grant'[Origin(r)].accounts = grant[Origin(r)].accounts \cup accounts
        /\ \A o \in Origins : grant[o].accounts \subseteq grant'[o].accounts
        /\ \A p \in Surfaces : /\ taking'[p][Origin(r)] = taking[p][Origin(r)] \ accounts
                               /\ \A o \in Origins : taking'[p][o] \subseteq taking[p][o]
    BY <1>1, <1>2, <2>1 DEF ApproveConnect, Grants
  <2>4. /\ conns'[Origin(r)].accounts = accounts
        /\ \A o \in Origins \ {Origin(r)} : conns'[o] = conns[o]
    BY <1>1, <2>1, <2>2 DEF List!Map
  <2>5. Granted(conns)'
    BY <2>3, <2>4 DEF ListInv, ListGranted, Granted
  <2>6. ASSUME NEW p \in Surfaces, Spares(conns, p) PROVE Spares(conns, p)'
    <3>1. \A o \in Origins \ {Origin(r)} : conns'[o] # NoEntry => conns'[o].accounts \cap taking'[p][o] = {}
      BY <2>3, <2>4, <2>6 DEF Spares
    <3>2. conns'[Origin(r)].accounts \cap taking'[p][Origin(r)] = {}
      BY <2>3, <2>4
    <3>3. QED
      BY <3>1, <3>2 DEF Spares
  <2>7. QED
    BY <2>2, <2>3, <2>5, <2>6, RequestSaves
<1>3. ASSUME NEW r \in Reqs, ApproveSwitch(r)
      PROVE  ListInv'
  <2> DEFINE e == [chain |-> req[r].call.chain, accounts |-> ApprovedAccounts(Origin(r))]
  <2>1. Origin(r) \in Origins
    BY <1>1, <1>3, CallsAreWellFormed DEF ApproveSwitch, Flow!Settle, WaitingIsPending, At
  <2>2. /\ conns' = [conns EXCEPT ![Origin(r)] = e]
        /\ List!Save(conns', r) /\ UNCHANGED <<stored, op, grant, taking>>
    BY <1>3 DEF ApproveSwitch, List!Approve, KeepWallet, vaultVars, historyVars, grantHistory
  <2>3. /\ conns'[Origin(r)].accounts = ApprovedAccounts(Origin(r))
        /\ \A o \in Origins \ {Origin(r)} : conns'[o] = conns[o]
    BY <1>1, <2>1, <2>2 DEF List!Map
  <2>4. Granted(conns)'
    BY <2>2, <2>3 DEF ListInv, ListGranted, Granted, ApprovedAccounts, Connected
  <2>5. ASSUME NEW p \in Surfaces, Spares(conns, p) PROVE Spares(conns, p)'
    BY <2>2, <2>3, <2>5 DEF Spares, ApprovedAccounts, Connected
  <2>6. QED
    BY <2>2, <2>4, <2>5, RequestSaves
<1>4. ASSUME NEW p \in Surfaces, NEW o \in Origins, RevokeConnection(p, o), Connected(o)
      PROVE  ListInv'
  <2>1. /\ Revoking(p, {o}) /\ op[p].do # "saving" /\ List!Save(conns', p)
        /\ stored' = stored /\ grant' = grant /\ conns' = [conns EXCEPT ![o] = NoEntry]
    BY <1>4 DEF RevokeConnection, List!Revoke, Connected, Idle
  <2>2. \A u \in Origins : conns'[u] = IF u \in {o} THEN NoEntry ELSE conns[u]
    BY <1>1, <2>1 DEF List!Map
  <2>3. QED
    BY <2>1, <2>2, RevocationBegins
<1>5. ASSUME NEW p \in Surfaces, RevokeConnections(p)
      PROVE  ListInv'
  <2>1. /\ Revoking(p, Origins) /\ op[p].do # "saving" /\ List!Save(conns', p)
        /\ stored' = stored /\ grant' = grant
        /\ \A o \in Origins : conns'[o] = IF o \in Origins THEN NoEntry ELSE conns[o]
    BY <1>5 DEF RevokeConnections, List!RevokeAll, List!EmptyMap
  <2>2. QED
    BY <2>1, RevocationBegins
<1>6. CASE AnswersRequest \/ \E p \in Surfaces : SettingsSaved(p)
  BY <1>6, SaveAnswered DEF AnswersRequest, SettingsSaved
<1>7. CASE LoadList
  <2>1. UNCHANGED <<stored, writes, op, grant, taking>>
    BY <1>7 DEF LoadList, List!LoadBegin, List!LoadDone, List!LoadFail, vaultVars, historyVars,
                grantHistory
  <2>2. \/ conns' = conns
        \/ writes = <<>> /\ conns' = [o \in Origins |-> IF stored[o] = NoEntry THEN conns[o]
                                                         ELSE stored[o]]
    BY <1>1, <1>7 DEF LoadList, List!LoadBegin, List!LoadDone, List!LoadFail, List!ConnTypeOK
  <2>3. Granted(conns)'
    BY <2>1, <2>2 DEF ListInv, ListGranted, Granted
  <2>4. QED
    BY <2>1, <2>2, <2>3 DEF ListInv, ListGranted, RevocationsHold, OneSaveEach, Granted, Spares
<1>8. CASE Restart
  <2>1. /\ conns' = List!EmptyMap /\ writes' = <<>> /\ grant' = grant
        /\ stored' \in {stored} \cup {writes[k].image : k \in DOMAIN writes}
    BY <1>8 DEF Restart, List!ConnRestart
  <2>2. DOMAIN writes = 1 .. Len(writes)
    BY <1>1 DEF List!ConnTypeOK
  <2>3. QED
    BY <2>1, <2>2 DEF ListInv, ListGranted, RevocationsHold, OneSaveEach, Granted, List!EmptyMap
<1>9. CASE KeepsList
  <2>1. UNCHANGED <<conns, stored, writes, grant, taking>>
    BY <1>9 DEF KeepsList
  <2>2. ListGranted' /\ RevocationsHold'
    BY <2>1 DEF ListInv, ListGranted, RevocationsHold, Granted, Spares
  <2>3. OneSaveEach'
    BY <1>9, <2>1 DEF ListInv, OneSaveEach, KeepsList
  <2>4. QED
    BY <2>2, <2>3 DEF ListInv
<1>10. QED
  BY <1>1, <1>2, <1>3, <1>4, <1>5, <1>6, <1>7, <1>8, <1>9, ListFrame

\* What a request may use was granted since it arrived; before that it uses nothing.
RequestsDue ==
    \A r \in Reqs :
        /\ ~At(r, "new") => grant[Origin(r)].accounts \subseteq due[r]
        /\ At(r, "new") => req[r].account = NoAccount
        /\ req[r].account # NoAccount => req[r].account \in due[r]

\* A request that is submitted in a step is so by a page, and takes its account,
\* if any, from the list.
LEMMA AccountFrame ==
    ASSUME TypeOK, WaitingIsPending, [Next]_vars, NEW r \in Reqs
    PROVE  /\ At(r, "new") /\ ~At(r, "new")' => \E call \in PageCalls : Submit(r, call)
           /\ \/ req'[r].account \in {req[r].account, NoAccount}
              \/ ~At(r, "new") /\ req'[r].account \in ApprovedAccounts(Origin(r))
<1> USE DEF TypeOK, RequestTypeOK
<1>1. \A q \in Reqs : Closed(req[q]).account = req[q].account
  BY DEF Closed, Request
<1>2. ASSUME NEW q \in Reqs, Moves(q), At(q, "new") => \E call \in PageCalls : Submit(q, call)
      PROVE  /\ At(r, "new") /\ ~At(r, "new")' => \E call \in PageCalls : Submit(r, call)
             /\ MayUse(r, req'[r].account)
  <2>1. PICK rec \in Request : MovesTo(q, rec)
    BY <1>2 DEF Moves
  <2>2. req'[r] = IF r = q THEN rec ELSE req[r]
    BY <2>1 DEF MovesTo
  <2>3. QED
    BY <1>2, <2>1, <2>2 DEF MovesTo, MayUse, At
<1>3. CASE CancelRequests
  <2>1. req'[r] = IF r \in pending THEN Closed(req[r]) ELSE req[r]
    BY <1>3 DEF CancelRequests
  <2>2. r \in pending => ~At(r, "new")
    BY DEF WaitingIsPending, At
  <2>3. QED
    BY <1>1, <2>1, <2>2 DEF At
<1>4. CASE RestartsRequests
  <2>1. req'[r] = IF At(r, "new") THEN req[r] ELSE Closed(req[r])
    BY <1>4 DEF RestartsRequests
  <2>2. QED
    BY <1>1, <2>1 DEF At
<1>5. CASE UNCHANGED <<req, pending, withdrawn>>
  BY <1>5 DEF At
<1>6. QED
  BY <1>2, <1>3, <1>4, <1>5, RequestFrame DEF MayUse

LEMMA RequestsDueStep ==
    ASSUME TypeOK, WaitingIsPending, ListInv, RequestsDue, [Next]_vars
    PROVE  RequestsDue'
<1> SUFFICES ASSUME NEW q \in Reqs
             PROVE  /\ ~At(q, "new")' => grant'[Origin(q)'].accounts \subseteq due'[q]
                    /\ At(q, "new")' => req'[q].account = NoAccount
                    /\ req'[q].account # NoAccount => req'[q].account \in due'[q]
  BY DEF RequestsDue
<1>1. /\ RequestTypeOK /\ WalletTypeOK /\ HistoryTypeOK /\ List!ConnTypeOK
      /\ due \in [Reqs -> SUBSET Accounts]
      /\ grant \in [Origins -> [accounts : SUBSET Accounts, seed : Seeds \cup {NoSeed}]]
  BY DEF TypeOK, HistoryTypeOK
<1>2. CASE \E call \in PageCalls : Submit(q, call)
  <2>1. PICK call \in PageCalls : Submit(q, call)
    BY <1>2
  <2>2. /\ req'[q].call = call /\ req'[q].stage = "loading" /\ req'[q].account = NoAccount
        /\ due'[q] = grant[call.origin].accounts /\ grant' = grant
    BY <1>1, <2>1 DEF Submit, RequestTypeOK, Request, RequestsDue, At
  <2>3. QED
    BY <2>2 DEF Origin, At
<1>3. CASE ~\E call \in PageCalls : Submit(q, call)
  <2>1. At(q, "new") => At(q, "new")' /\ req'[q].account = NoAccount
    BY <1>3, AccountFrame DEF RequestsDue
  <2>2. CASE At(q, "new")
    BY <2>1, <2>2
  <2>3. CASE ~At(q, "new")
    <3>1. ~At(q, "new")' /\ req'[q].call = req[q].call /\ Origin(q)' = Origin(q)
      BY <2>3, CallsAreKept DEF Origin
    <3>2. Origin(q) \in Origins
      BY <1>1, <2>3, CallsAreWellFormed
    <3>3. due[q] \subseteq due'[q] /\ grant'[Origin(q)].accounts \subseteq due'[q]
      <4>1. grant[Origin(q)].accounts \subseteq due[q]
        BY <2>3 DEF RequestsDue
      <4>2. ASSUME NEW r \in Reqs, NEW call \in PageCalls, Submit(r, call)
            PROVE  due'[q] = due[q] /\ grant' = grant
        BY <1>1, <1>3, <4>2 DEF Submit
      <4>3. ASSUME NEW r \in Reqs, NEW accounts \in SUBSET Accounts, ApproveConnect(r, accounts)
            PROVE  due[q] \subseteq due'[q] /\ grant'[Origin(q)].accounts \subseteq due'[q]
        BY <1>1, <2>3, <3>2, <4>1, <4>3 DEF ApproveConnect, Grants
      <4>4. QED
        BY <1>1, <3>2, <4>1, <4>2, <4>3, GrantFrame
    <3>4. ApprovedAccounts(Origin(q)) \subseteq due[q]
      BY <2>3, <3>2 DEF RequestsDue, ListInv, ListGranted, Granted, ApprovedAccounts, Connected
    <3>5. req'[q].account # NoAccount => req'[q].account \in due[q]
      BY <3>4, AccountFrame DEF RequestsDue
    <3>6. QED
      BY <3>1, <3>3, <3>5
  <2>4. QED
    BY <2>2, <2>3
<1>4. QED
  BY <1>2, <1>3

\* Whatever is approved, revoked, refused, reloaded or lost, in whatever order the
\* saves are answered: the allow-list holds no account that the user did not
\* grant, and none whose revocation was confirmed since (dapp-handlers.ts:371,
\* connection-state.ts save, load); and no request is signed with an account that
\* its origin was not granted at some time since the request arrived.
THEOREM OnlyGrantedAccounts == Spec => []AccountsWereGranted
<1>1. Init => ListInv /\ RequestsDue
  <2> SUFFICES ASSUME Init PROVE ListInv /\ RequestsDue
    OBVIOUS
  <2>1. writes = <<>> /\ conns = List!EmptyMap /\ stored = List!EmptyMap
    BY DEF Init, List!ConnInit
  <2>2. ListInv
    BY <2>1 DEF List!EmptyMap, ListInv, ListGranted, Granted, RevocationsHold, OneSaveEach
  <2>3. RequestsDue
    BY DEF Init, NewReq, RequestsDue, At
  <2>4. QED
    BY <2>2, <2>3
<1>2. TypeOK /\ WaitingIsPending /\ ListInv /\ RequestsDue /\ [Next]_vars => ListInv' /\ RequestsDue'
  BY ListInvStep, RequestsDueStep
<1>3. ListInv /\ RequestsDue => AccountsWereGranted
  BY DEF ListInv, ListGranted, Granted, RequestsDue, AccountsWereGranted, ApprovedAccounts, Connected
<1>4. QED
  BY <1>1, <1>2, <1>3, TypedAndPending, PTL DEF Spec

-----------------------------------------------------------------------------
(* The chain a page is told of                                              *)

\* The snapshot a chain switch waits for carries the switched chain.
CarriesSwitch(write) ==
    write.by \in Reqs =>
        /\ ~At(write.by, "new")
        /\ Method(write.by) = "switch" =>
               /\ write.image[Origin(write.by)] # NoEntry
               /\ write.image[Origin(write.by)].chain = req[write.by].call.chain

SwitchesAreCarried == \A k \in 1..Len(writes) : CarriesSwitch(writes[k])

LEMMA CarriedOn ==
    ASSUME TypeOK, WaitingIsPending, [Next]_vars, NEW w, CarriesSwitch(w)
    PROVE  CarriesSwitch(w)'
BY CallsAreKept DEF CarriesSwitch, Method, Origin

LEMMA SavedCarries ==
    ASSUME TypeOK, WaitingIsPending, SwitchesAreCarried, [Next]_vars,
           NEW map, NEW c, List!Save(map, c),
           CarriesSwitch([image |-> map, by |-> c])'
    PROVE  SwitchesAreCarried'
<1> DEFINE w == [image |-> map, by |-> c]
<1>1. writes \in Seq(List!Write) /\ writes' = Append(writes, w) /\ Len(writes) \in Nat
  BY DEF TypeOK, List!ConnTypeOK, List!Save
<1>2. /\ Len(writes') = Len(writes) + 1 /\ writes'[Len(writes) + 1] = w
      /\ \A k \in 1..Len(writes) : writes'[k] = writes[k]
  BY <1>1
<1> SUFFICES ASSUME NEW k \in 1..Len(writes') PROVE CarriesSwitch(writes[k])'
  BY DEF SwitchesAreCarried
<1>3. CASE k \in 1..Len(writes)
  <2>1. PICK v : v = writes[k]
    OBVIOUS
  <2>2. CarriesSwitch(v)'
    BY <1>3, <2>1, CarriedOn DEF SwitchesAreCarried
  <2> QED
    BY <1>2, <1>3, <2>1, <2>2
<1>4. CASE k = Len(writes) + 1
  BY <1>2, <1>4
<1> QED
  BY <1>1, <1>2, <1>3, <1>4

LEMMA SwitchesStep ==
    ASSUME TypeOK, WaitingIsPending, SwitchesAreCarried, [Next]_vars
    PROVE  SwitchesAreCarried'
<1>1. /\ RequestTypeOK /\ List!ConnTypeOK /\ writes \in Seq(List!Write)
      /\ conns \in List!Map
  BY DEF TypeOK, List!ConnTypeOK
<1>2. ASSUME NEW r \in Reqs, NEW accounts, ApproveConnect(r, accounts)
      PROVE  SwitchesAreCarried'
  <2>1. List!Save(conns', r) /\ Method(r) = "connect" /\ ~At(r, "new")
    BY <1>2 DEF ApproveConnect, List!Approve, Flow!Settle, WaitingIsPending, At
  <2>2. PICK map : map = conns'
    OBVIOUS
  <2>3. CarriesSwitch([image |-> map, by |-> r])'
    BY <2>1, CallsAreKept DEF CarriesSwitch, Method
  <2> QED
    BY <2>1, <2>2, <2>3, SavedCarries
<1>3. ASSUME NEW r \in Reqs, ApproveSwitch(r)
      PROVE  SwitchesAreCarried'
  <2> DEFINE e == [chain |-> req[r].call.chain, accounts |-> ApprovedAccounts(Origin(r))]
  <2>1. /\ List!Save(conns', r) /\ Method(r) = "switch" /\ ~At(r, "new")
        /\ conns' = [conns EXCEPT ![Origin(r)] = e]
    BY <1>3 DEF ApproveSwitch, List!Approve, Flow!Settle, WaitingIsPending, At
  <2>2. Origin(r) \in Origins /\ req[r].call.chain \in Chains
    BY <1>1, <2>1, CallsAreWellFormed
  <2>3. e \in Entries /\ e # NoEntry
    BY <1>1, <2>2, ApprovedAreAccounts, NoEntryAssumption DEF Entries
  <2>4. conns'[Origin(r)] = e
    BY <1>1, <2>1, <2>2 DEF List!Map
  <2>5. PICK map : map = conns'
    OBVIOUS
  <2>6. map[Origin(r)] # NoEntry /\ map[Origin(r)].chain = req[r].call.chain
    BY <2>3, <2>4, <2>5
  <2>7. CarriesSwitch([image |-> map, by |-> r])'
    BY <2>1, <2>6, CallsAreKept DEF CarriesSwitch, Method, Origin
  <2> QED
    BY <2>1, <2>5, <2>7, SavedCarries
<1>4. ASSUME NEW p \in Surfaces,
             RevokeConnections(p) \/ \E o \in Origins : RevokeConnection(p, o) /\ Connected(o)
      PROVE  SwitchesAreCarried'
  <2>1. List!Save(conns', p) /\ p \notin Reqs
    BY <1>4, CallersAssumption DEF RevokeConnections, RevokeConnection, List!RevokeAll, List!Revoke,
                                   Connected
  <2>2. PICK map : map = conns'
    OBVIOUS
  <2>3. CarriesSwitch([image |-> map, by |-> p])'
    BY <2>1 DEF CarriesSwitch
  <2> QED
    BY <2>1, <2>2, <2>3, SavedCarries
<1>5. ASSUME writes' = writes
      PROVE  SwitchesAreCarried'
  <2> SUFFICES ASSUME NEW k \in 1..Len(writes) PROVE CarriesSwitch(writes[k])'
    BY <1>5 DEF SwitchesAreCarried
  <2>1. PICK v : v = writes[k]
    OBVIOUS
  <2>2. CarriesSwitch(v)'
    BY <2>1, CarriedOn DEF SwitchesAreCarried
  <2> QED
    BY <1>5, <2>1, <2>2
<1>6. CASE List!WriteDone \/ List!WriteFail
  <2>1. writes # <<>> /\ writes' = Tail(writes)
    BY <1>6 DEF List!WriteDone, List!WriteFail
  <2>2. /\ Len(writes') = Len(writes) - 1 /\ Len(writes) \in Nat
        /\ \A k \in 1..Len(writes') : writes'[k] = writes[k + 1]
    BY <1>1, <2>1
  <2> SUFFICES ASSUME NEW k \in 1..Len(writes') PROVE CarriesSwitch(writes[k])'
    BY DEF SwitchesAreCarried
  <2>3. PICK v : v = writes[k + 1]
    OBVIOUS
  <2>4. k + 1 \in 1..Len(writes)
    BY <2>2
  <2>5. CarriesSwitch(v)'
    BY <2>3, <2>4, CarriedOn DEF SwitchesAreCarried
  <2> QED
    BY <2>2, <2>3, <2>5
<1>7. CASE Restart
  BY <1>7 DEF Restart, List!ConnRestart, SwitchesAreCarried
<1>8. CASE LoadList
  BY <1>5, <1>8 DEF LoadList, List!LoadBegin, List!LoadDone, List!LoadFail
<1> QED
  BY <1>1, <1>2, <1>3, <1>4, <1>5, <1>6, <1>7, <1>8, ListFrame DEF TypeOK, AnswersRequest, SettingsSaved, KeepsList

\* A page is told of a chain only when storage holds it: whatever other saves are
\* on their way, the one that ends the switch is the one that carries it
\* (dapp-handlers.ts: approve, save, broadcast).
THEOREM EventsAreOfStoredChains == Spec => EventsFollowStorage
<1>1. Init => SwitchesAreCarried
  BY DEF Init, List!ConnInit, SwitchesAreCarried
<1>2. TypeOK /\ WaitingIsPending /\ SwitchesAreCarried /\ [Next]_vars =>
          [\A o \in Origins : told'[o] # told[o] =>
              stored'[o] # NoEntry /\ stored'[o].chain = told'[o]]_vars
  <2> SUFFICES ASSUME TypeOK, WaitingIsPending, SwitchesAreCarried, Next,
                      NEW o \in Origins, told'[o] # told[o]
               PROVE  stored'[o] # NoEntry /\ stored'[o].chain = told'[o]
    OBVIOUS
  <2>1. PICK r \in Reqs : Saved(r)
    <3>1. ASSUME NEW r \in Reqs, ~Saved(r),
                 (\E call \in PageCalls : Submit(r, call)) \/ RequestStep(r) \/ Respond(r)
          PROVE  told' = told
      BY <3>1 DEF RequestStep, Submit, LoadRejected, Handle, Derived, Signs, Signed, SaveRejected,
                  Answered, Respond, Reject, ApproveConnect, ApproveSignature, ApproveSwitch,
                  ApproveAddChain, KeepWallet
    <3>2. ASSUME NEW p \in Surfaces, SurfaceStep(p)
          PROVE  told' = told
      BY <3>2 DEF SurfaceStep, VaultOp, ClearVault, ClearRejected, RevokeConnections,
                  RevokeRejected, RevokeConnection, SettingsSaved
    <3>3. CASE Lock \/ AutoLock \/ LoadList \/ Restart
      BY <3>3 DEF Lock, AutoLock, LoadList, Restart
    <3> QED
      BY <3>1, <3>2, <3>3 DEF Next
  <2>2. /\ Method(r) = "switch" /\ told' = [told EXCEPT ![Origin(r)] = req[r].call.chain]
        /\ writes # <<>> /\ Head(writes).by = r /\ stored' = Head(writes).image
    BY <2>1 DEF Saved, List!WriteDone
  <2>3. told'[o] = req[r].call.chain /\ o = Origin(r)
    BY <2>2 DEF TypeOK, HistoryTypeOK
  <2>4. 1 \in 1..Len(writes) /\ Head(writes) = writes[1]
    BY <2>2 DEF TypeOK, List!ConnTypeOK
  <2>5. CarriesSwitch(Head(writes))
    BY <2>4 DEF SwitchesAreCarried
  <2> QED
    BY <2>2, <2>3, <2>5 DEF CarriesSwitch
<1>3. Spec => []SwitchesAreCarried
  <2>1. TypeOK /\ WaitingIsPending /\ SwitchesAreCarried /\ [Next]_vars => SwitchesAreCarried'
    BY SwitchesStep
  <2> QED
    BY <1>1, <2>1, TypedAndPending, PTL DEF Spec
<1>4. QED
  BY <1>2, <1>3, TypedAndPending, PTL DEF Spec, EventsFollowStorage

-----------------------------------------------------------------------------
(* The contract of RequestContract                                          *)

\* Each step of the worker is a step of the contract or leaves it alone.
LEMMA ContractStep ==
    ASSUME TypeOK, WaitingIsPending, [Next]_vars
    PROVE  Contract!Next \/ UNCHANGED Contract!contractVars
<1> DEFINE phase == [r \in Reqs |-> PhaseOf(req[r].stage)]
           acted == {r \in Reqs : req[r].acted}
<1> USE DEF TypeOK, RequestTypeOK
<1>1. ASSUME NEW r \in Reqs, Moves(r)
      PROVE  Contract!Next \/ UNCHANGED Contract!contractVars
  <2>1. PICK rec \in Request : MovesTo(r, rec)
    BY <1>1 DEF Moves
  <2>2. /\ phase' = [phase EXCEPT ![r] = PhaseOf(rec.stage)]
        /\ acted' = IF rec.acted THEN acted \cup {r} ELSE acted \ {r}
    BY <2>1 DEF MovesTo
  <2>3. phase[r] = PhaseOf(req[r].stage) /\ (r \in acted <=> req[r].acted)
    OBVIOUS
  <2>4. req[r] \in Request /\ ~At(r, "closed") /\ Lawful(req[r], rec)
    BY <2>1 DEF MovesTo
  <2>5. rec \in Request /\ rec.acted \in BOOLEAN /\ req[r].acted \in BOOLEAN
    BY <2>4 DEF Request
  <2>6. CASE rec.acted = req[r].acted
    <3>1. acted' = acted
      BY <2>2, <2>3, <2>5, <2>6
    <3>2. CASE req[r].stage # "new" /\ rec.stage = "closed"
      <4>1. PhaseOf(rec.stage) = "closed"
        BY <3>2 DEF PhaseOf
      <4>2. phase[r] \in {"received", "asking", "granted"}
        BY <2>4, <3>2 DEF PhaseOf, Request, Stages, At
      <4>3. Contract!Close({r})
        BY <2>2, <3>1, <4>1, <4>2 DEF Contract!Close
      <4>4. QED
        BY <4>3 DEF Contract!Next
    <3>3. CASE phase[r] = PhaseOf(rec.stage)
      BY <2>2, <3>1, <3>3 DEF Contract!contractVars
    <3>4. CASE phase[r] = "new" /\ PhaseOf(rec.stage) = "received"
      BY <2>2, <3>1, <3>4 DEF Contract!Next, Contract!Receive
    <3>5. CASE phase[r] = "received" /\ PhaseOf(rec.stage) = "asking"
      BY <2>2, <3>1, <3>5 DEF Contract!Next, Contract!Ask
    <3>6. CASE phase[r] = "asking" /\ PhaseOf(rec.stage) = "granted"
      BY <2>2, <3>1, <3>6 DEF Contract!Next, Contract!Grant
    <3>7. CASE req[r].stage = "asking" /\ rec.stage = "saving"
      <4>1. phase[r] = "asking" /\ PhaseOf(rec.stage) = "granted"
        BY <2>3, <3>7 DEF PhaseOf
      <4>2. QED
        BY <3>6, <4>1
    <3>8. QED
      <4> HIDE DEF phase
      <4>1. QED
        BY <2>3, <2>4, <2>6, <3>2, <3>3, <3>4, <3>5, <3>6, <3>7 DEF Lawful
  <2>7. CASE req[r].stage = "signing" /\ ~req[r].acted /\ rec.stage = "signing" /\ rec.acted
    <3>1. phase[r] = "granted" /\ PhaseOf(rec.stage) = "granted" /\ r \notin acted
      BY <2>3, <2>7 DEF PhaseOf
    <3>2. Contract!Act(r)
      BY <2>2, <2>7, <3>1 DEF Contract!Act
    <3>3. QED
      BY <3>2 DEF Contract!Next
  <2>8. CASE req[r].stage = "asking" /\ rec.stage = "saving" /\ rec.acted
    <3>1. phase[r] = "asking" /\ PhaseOf(rec.stage) = "granted"
      BY <2>3, <2>8 DEF PhaseOf
    <3>2. Contract!Grant(r)
      BY <2>2, <2>8, <3>1 DEF Contract!Grant
    <3>3. QED
      BY <3>2 DEF Contract!Next
  <2>9. QED
    BY <2>4, <2>6, <2>7, <2>8 DEF Lawful
<1>2. CASE CancelRequests
  <2>1. \A r \in Reqs : Closed(req[r]).stage = "closed" /\ Closed(req[r]).acted = req[r].acted
    BY DEF Closed, Request
  <2>2. /\ phase' = [r \in Reqs |-> IF r \in pending THEN "closed" ELSE phase[r]]
        /\ acted' = acted
    BY <1>2, <2>1 DEF CancelRequests, PhaseOf
  <2>3. pending \subseteq Reqs /\ \A r \in pending : phase[r] = "asking"
    BY DEF WaitingIsPending, At, PhaseOf
  <2>4. Contract!Close(pending)
    BY <2>2, <2>3 DEF Contract!Close
  <2>5. QED
    BY <2>3, <2>4 DEF Contract!Next
<1>3. CASE RestartsRequests
  <2> DEFINE lost == {r \in Reqs : ~At(r, "new") /\ ~At(r, "closed")}
  <2>1. \A r \in Reqs : Closed(req[r]).stage = "closed" /\ Closed(req[r]).acted = req[r].acted
    BY DEF Closed, Request
  <2>2. /\ phase' = [r \in Reqs |-> IF r \in lost THEN "closed" ELSE phase[r]]
        /\ acted' = acted
    BY <1>3, <2>1 DEF RestartsRequests, PhaseOf, At
  <2>3. \A r \in lost : phase[r] \in {"received", "asking", "granted"}
    BY DEF At, PhaseOf, Request, Stages
  <2>4. Contract!Close(lost)
    BY <2>2, <2>3 DEF Contract!Close
  <2>5. QED
    BY <2>4 DEF Contract!Next
<1>4. CASE UNCHANGED <<req, pending, withdrawn>>
  BY <1>4 DEF Contract!contractVars
<1>5. QED
  BY <1>1, <1>2, <1>3, <1>4, RequestFrame

\* The worker implements the contract: for each request of a page at most one
\* effect, only between the user's yes and the answer, and none after a
\* refusal, a lock, a reset or a restart.
THEOREM WorkerKeepsContract == Spec => KeepsContract
<1>1. Init => Contract!Init
  BY DEF Init, NewReq, Contract!Init, PhaseOf
<1>2. TypeOK /\ WaitingIsPending /\ [Next]_vars => [Contract!Next]_(Contract!contractVars)
  BY ContractStep
<1>3. QED
  BY <1>1, <1>2, TypedAndPending, PTL DEF Spec, KeepsContract, Contract!Spec

=============================================================================
