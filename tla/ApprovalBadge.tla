---------------------------- MODULE ApprovalBadge ----------------------------
(***************************************************************************)
(* How the user learns that a request waits (approval-flow.ts): open()     *)
(* asks Chrome to open the popup and goes on; if Chrome cannot, now or     *)
(* later, the toolbar icon gets a badge, which is cleared when nothing     *)
(* waits any more. The badge belongs to the browser and outlives the       *)
(* service worker. Request ids are fresh (randomUUID), so an id is used    *)
(* again here only after its openPopup() is over.                          *)
(***************************************************************************)
CONSTANT Ids        \* request ids

VARIABLES
    pending,    \* ApprovalFlow.pending
    opening,    \* requests whose openPopup() promise is not settled
    badge,      \* text on the toolbar icon: "" or "!"
    unseen      \* history: requests that wait and whose popup did not open

Flow == INSTANCE ApprovalFlow

BadgeTypeOK ==
    /\ Flow!FlowTypeOK
    /\ opening \in SUBSET Ids
    /\ badge \in {"", "!"}
    /\ unseen \in SUBSET pending

BadgeInit ==
    /\ Flow!FlowInit
    /\ opening = {}
    /\ badge = ""
    /\ unseen = {}

-----------------------------------------------------------------------------

\* open(): chrome.action.openPopup is called, or is missing or throws.
Open(id) ==
    /\ id \notin opening
    /\ Flow!Open(id)
    /\ \/ opening' = opening \cup {id} /\ UNCHANGED <<badge, unseen>>
       \/ badge' = "!" /\ unseen' = unseen \cup {id} /\ UNCHANGED opening

PopupOpens(id) ==
    /\ id \in opening
    /\ opening' = opening \ {id}
    /\ UNCHANGED <<pending, badge, unseen>>

\* openPopup() rejects: its catch sets the badge whether or not the request
\* still waits.
PopupFails(id) ==
    /\ id \in opening
    /\ opening' = opening \ {id}
    /\ badge' = "!"
    /\ unseen' = unseen \cup ({id} \cap pending)
    /\ UNCHANGED pending

\* Defect: every answer clears the badge.
ClearAlways == badge' = ""

\* `if (this.pending.size === 0) tryBadge('')`
ClearIfDone == badge' = IF pending' = {} THEN "" ELSE badge

\* respond() and cancel() of a request that waits.
Settle(id) ==
    /\ Flow!Settle(id)
    /\ ClearIfDone
    /\ unseen' = unseen \ {id}
    /\ UNCHANGED opening

\* cancelAll() clears the badge even when nothing waited.
CancelAll ==
    /\ Flow!CancelAll
    /\ badge' = ""
    /\ unseen' = {}
    /\ UNCHANGED opening

\* The worker is killed: what waited is lost, the icon stays as it is.
BadgeRestart ==
    /\ pending' = {}
    /\ opening' = {}
    /\ unseen' = {}
    /\ UNCHANGED badge

-----------------------------------------------------------------------------
(* Properties                                                              *)

\* As long as a request waits that the user was not shown, the badge is on:
\* settling another one, or its popup opening, does not take it away.
UnseenIsBadged == unseen # {} => badge = "!"

=============================================================================
