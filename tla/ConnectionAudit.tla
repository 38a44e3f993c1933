--------------------------- MODULE ConnectionAudit ---------------------------
(***************************************************************************)
(* ConnectionState on its own, with two history variables that remember    *)
(* what the user did, so that the allow-list can be compared with it.      *)
(* Any caller may approve or revoke at any time after load(), writes may   *)
(* fail and the service worker may be killed between any two steps.        *)
(***************************************************************************)
EXTENDS ConnectionState

VARIABLES
    asked,      \* origins the user ever asked to revoke
    gone        \* origins of which a save that held their revocation was answered
                \* and that were not approved again since

auditVars == <<connVars, asked, gone>>

AuditTypeOK ==
    /\ ConnTypeOK
    /\ asked \in SUBSET Origins
    /\ gone \in SUBSET Origins

AuditInit ==
    /\ ConnInit
    /\ asked = {}
    /\ gone = {}

UserApproves(o, e, c) ==
    /\ Approve(o, e, c)
    /\ gone' = gone \ {o}
    /\ UNCHANGED asked

\* Also of an origin that is not in the map: the answer `false` confirms nothing,
\* since no save stands behind it.
UserRevokes(o, c) ==
    /\ Revoke(o, c)
    /\ asked' = asked \cup {o}
    /\ UNCHANGED gone

WalletReset(c) ==
    /\ RevokeAll(c)
    /\ asked' = Origins
    /\ UNCHANGED gone

\* The write that is answered tells its caller that these origins are gone:
\* the user had asked, and no snapshot behind it approves them again.
Confirmed ==
    {o \in asked : \A k \in DOMAIN writes : writes[k].image[o] = NoEntry}

WriteAnswered ==
    \/ WriteDone /\ gone' = gone \cup Confirmed /\ UNCHANGED asked
    \/ WriteFail /\ UNCHANGED <<asked, gone>>

Loading == (LoadBegin \/ LoadDone \/ LoadFail) /\ UNCHANGED <<asked, gone>>

AuditRestart == ConnRestart /\ UNCHANGED <<asked, gone>>

Alive ==
    \/ Loading
    \/ \E o \in Origins, c \in Callers :
          \/ \E e \in Entries : UserApproves(o, e, c)
          \/ UserRevokes(o, c)
    \/ \E c \in Callers : WalletReset(c)
    \/ WriteAnswered

AuditNext == Alive \/ AuditRestart

\* Storage answers whatever it was asked, and load() is called at start-up
\* and by every handler (index.ts:143, handlers.ts, dapp-handlers.ts).
AuditFairness == WF_auditVars(Loading) /\ WF_auditVars(WriteAnswered)

AuditSpec == AuditInit /\ [][AuditNext]_auditVars /\ AuditFairness

\* The same worker when it is not killed.
AuditLiveSpec == AuditInit /\ [][Alive]_auditVars /\ AuditFairness

-----------------------------------------------------------------------------
(* Properties                                                              *)

\* A revocation whose save was answered is final until the origin is approved
\* again: no reload, no late write of an older snapshot, no failed write and
\* no restart brings the entry back (revoke, revokeAll, save, load). A revocation
\* that was refused is out of the map but not of storage; asking for it again
\* resolves without a save, and is no confirmation.
RevokedStaysRevoked ==
    \A o \in gone :
        /\ conns[o] = NoEntry
        /\ stored[o] = NoEntry
        /\ \A k \in DOMAIN writes : writes[k].image[o] = NoEntry

\* A stored connection disappears from storage only if the user once asked to
\* revoke that origin: a save() for another origin, made before the list was
\* read or from a map that lags behind, may not wipe it (assertLoaded, save).
NothingLostUnasked ==
    [][\A o \in Origins \ asked : stored[o] # NoEntry => stored'[o] # NoEntry]_auditVars

=============================================================================
