--------------------------- MODULE WorkerLifecycle ---------------------------
(***************************************************************************)
(* What the service worker leaves with the browser, over many lives of the *)
(* worker (background/index.ts): the idle alarm of AutoLock and the badge  *)
(* of ApprovalBadge. Both outlive the worker, the timer and the pending    *)
(* requests do not. The user's answers are messages too, so they put off   *)
(* the alarm's lock; the alarm leaves what waits, and its badge, alone.    *)
(***************************************************************************)
EXTENDS AutoLock

CONSTANT Ids    \* request ids

VARIABLES pending, opening, badge, unseen   \* see ApprovalBadge

Badge == INSTANCE ApprovalBadge

flowVars == <<pending, opening, badge, unseen>>

workerVars == <<vars, flowVars>>

WorkerInit == Init /\ Badge!BadgeInit

\* The timer, and messages that concern no waiting request.
TimerStep == Step /\ UNCHANGED flowVars

\* A handler reaches open(), after its own awaits; Chrome opens the popup, or
\* does not.
Ask(id) ==
    /\ Badge!Open(id) \/ Badge!PopupOpens(id) \/ Badge!PopupFails(id)
    /\ UNCHANGED vars

\* APPROVAL_RESPOND answers within the message.
Respond(id) == Message /\ Badge!Settle(id)

\* LOCK and VAULT_CLEAR lock the engine and reject what waits in one go.
LockAndCancel == Lock /\ Badge!CancelAll

WorkerRestart == Restart /\ Badge!BadgeRestart

WorkerNext ==
    \/ TimerStep
    \/ \E id \in Ids : Ask(id) \/ Respond(id)
    \/ LockAndCancel
    \/ WorkerRestart

WorkerSpec == WorkerInit /\ [][WorkerNext]_workerVars

-----------------------------------------------------------------------------
(* Properties                                                              *)

\* Both halves of the worker's state are well typed.
WorkerTypeOK == TypeOK /\ Badge!BadgeTypeOK

\* As long as a request waits that the user was not shown, the badge is on:
\* neither settling another one, nor its popup opening, nor a lock or the
\* death of the worker in between takes it away (approval-flow.ts respond,
\* cancel, cancelAll).
UnseenIsBadged == Badge!UnseenIsBadged

=============================================================================
