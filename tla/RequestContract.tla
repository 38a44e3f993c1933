--------------------------- MODULE RequestContract ---------------------------
(***************************************************************************)
(* What the wallet promises about each request of a web page, whatever     *)
(* happens inside the service worker: it acts for a request at most once,  *)
(* only between the user's yes to that very request and its answer, and a  *)
(* request that was refused, cancelled or lost never acts afterwards.      *)
(***************************************************************************)
CONSTANT Reqs       \* requests

VARIABLES
    phase,      \* "new", "received", "asking", "granted", "closed"
    acted       \* the requests that had their effect: a signature, a
                \* broadcast transaction, a change of the allow-list

contractVars == <<phase, acted>>

ContractTypeOK ==
    /\ phase \in [Reqs -> {"new", "received", "asking", "granted", "closed"}]
    /\ acted \in SUBSET Reqs

Init ==
    /\ phase = [r \in Reqs |-> "new"]
    /\ acted = {}

Receive(r) ==
    /\ phase[r] = "new"
    /\ phase' = [phase EXCEPT ![r] = "received"]
    /\ UNCHANGED acted

Ask(r) ==
    /\ phase[r] = "received"
    /\ phase' = [phase EXCEPT ![r] = "asking"]
    /\ UNCHANGED acted

\* The user says yes: from here on the request may act, once.
Grant(r) ==
    /\ phase[r] = "asking"
    /\ phase' = [phase EXCEPT ![r] = "granted"]
    /\ acted' \in {acted, acted \cup {r}}

Act(r) ==
    /\ phase[r] = "granted"
    /\ r \notin acted
    /\ acted' = acted \cup {r}
    /\ UNCHANGED phase

\* Answered, refused, failed, cancelled or lost: no effect then, or later.
Close(S) ==
    /\ \A r \in S : phase[r] \in {"received", "asking", "granted"}
    /\ phase' = [r \in Reqs |-> IF r \in S THEN "closed" ELSE phase[r]]
    /\ UNCHANGED acted

Next ==
    \/ \E r \in Reqs : Receive(r) \/ Ask(r) \/ Grant(r) \/ Act(r)
    \/ \E S \in SUBSET Reqs : Close(S)

Spec == Init /\ [][Next]_contractVars

=============================================================================
