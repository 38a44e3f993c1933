---------------------------- MODULE ApprovalFlow ----------------------------
(***************************************************************************)
(* The approval flow of the service worker                                 *)
(* (apps/extension/src/background/approval-flow.ts): the requests that     *)
(* wait for the user, each with a promise that is settled exactly when the *)
(* request leaves the map. The promise itself is the caller's: a module    *)
(* that uses these actions says, in the same step, how the caller goes on. *)
(***************************************************************************)
CONSTANT Ids    \* request ids

VARIABLE pending    \* the keys of ApprovalFlow.pending

FlowTypeOK == pending \in SUBSET Ids

FlowInit == pending = {}

\* open() throws when the id is already pending.
Open(id) ==
    /\ id \notin pending
    /\ pending' = pending \cup {id}

\* Defect: a settled request stays in the map.
SettleKeeps(id) == id \in pending /\ UNCHANGED pending

\* respond() and cancel() answer false, and do nothing, for an unknown id.
Settle(id) ==
    /\ id \in pending
    /\ pending' = pending \ {id}

CancelAll == pending' = {}

=============================================================================
