------------------------------- MODULE AutoLock -------------------------------
(***************************************************************************)
(* The idle timer (apps/extension/src/background/lifecycle.ts and its      *)
(* wiring in index.ts): a recurring alarm compares the time since the last *)
(* message with a threshold that follows the preference in storage.        *)
(*                                                                         *)
(* Time passes in ticks. The preference is written by the popup straight   *)
(* to storage; the worker hears of it by storage.onChanged, and reads it   *)
(* once when it starts. The alarm belongs to the browser: creating it      *)
(* again restarts its period, and it outlives the worker.                  *)
(***************************************************************************)
EXTENDS Naturals

CONSTANTS
    Thresholds,     \* values of prefs:autoLockMinutes, in ticks; 0 is "Never"
    Default,        \* createAutoLock(engine, { idleMinutes: 5 }), in ticks
    Period,         \* the alarm's period, in ticks
    MaxIdle,        \* idle ticks are counted up to here
    MayRestart      \* Chrome may kill the service worker

ASSUME ThresholdsAssumption == Thresholds \subseteq Nat /\ Default \in Thresholds \ {0}
ASSUME PeriodAssumption == Period \in Nat \ {0}
\* Every threshold can be exceeded, so capping `idle` hides no lock.
ASSUME MaxIdleAssumption == MaxIdle \in Nat /\ \A t \in Thresholds : t < MaxIdle
ASSUME MayRestartAssumption == MayRestart \in BOOLEAN

VARIABLES
    lockState,  \* engine
    threshold,  \* idleThresholdMs
    idle,       \* Date.now() - lastActivity
    hydrated,   \* the read of the preference at start-up is over
    pref,       \* prefs:autoLockMinutes in storage
    news,       \* storage.onChanged is still to be delivered
    toAlarm,    \* ticks until the alarm fires
    late        \* history: ticks spent unlocked beyond the threshold

vars == <<lockState, threshold, idle, hydrated, pref, news, toAlarm, late>>

\* checkIdle's condition on an unlocked wallet: it ought to be locked.
Overdue(lock, minutes, i) == lock = "unlocked" /\ minutes # 0 /\ i > minutes

TypeOK ==
    /\ lockState \in {"locked", "unlocked"}
    /\ threshold \in Thresholds
    /\ idle \in 0 .. MaxIdle
    /\ hydrated \in BOOLEAN
    /\ pref \in Thresholds
    /\ news \in BOOLEAN
    /\ toAlarm \in 0 .. Period
    /\ late \in Nat
    /\ late > 0 => Overdue(lockState, threshold, idle)

Init ==
    /\ lockState = "locked"
    /\ threshold = Default
    /\ idle = 0
    /\ hydrated = FALSE
    /\ pref = Default
    /\ news = FALSE
    /\ toAlarm = Period
    /\ late = 0

-----------------------------------------------------------------------------

\* Any message of the popup or of a web page. Its handler runs afterwards.
Message ==
    /\ idle' = 0
    /\ late' = 0
    /\ UNCHANGED <<lockState, threshold, hydrated, pref, news, toAlarm>>

\* VAULT_LOAD has derived and checked its key, which may take a while.
Unlock ==
    /\ lockState' = "unlocked"
    /\ UNCHANGED <<threshold, idle, hydrated, pref, news, toAlarm, late>>

\* LOCK, and VAULT_CLEAR after it deleted the vault.
Lock ==
    /\ lockState' = "locked"
    /\ late' = 0
    /\ UNCHANGED <<threshold, idle, hydrated, pref, news, toAlarm>>

\* Defect: the minutes are not converted to the unit of the clock.
SetIdleUnconverted(t) ==
    /\ threshold' = t * 60
    /\ late' = IF Overdue(lockState, threshold', idle) THEN late ELSE 0

\* setIdleMinutes: the wallet may be overdue at once, or no longer.
SetIdle(t) ==
    /\ threshold' = t
    /\ late' = IF Overdue(lockState, t, idle) THEN late ELSE 0

\* The read at start-up answers; index.ts ignores 0.
Hydrate ==
    /\ ~hydrated
    /\ hydrated' = TRUE
    /\ SetIdle(IF pref > 0 THEN pref ELSE threshold)
    /\ UNCHANGED <<lockState, idle, pref, news, toAlarm>>

HydrateFails ==
    /\ ~hydrated
    /\ hydrated' = TRUE
    /\ UNCHANGED <<lockState, threshold, idle, pref, news, toAlarm, late>>

\* The user picks an idle time in the settings.
ChoosePref(t) ==
    /\ pref' = t
    /\ news' = TRUE
    /\ UNCHANGED <<lockState, threshold, idle, hydrated, toAlarm, late>>

\* Defect: a changed preference registers the alarm again.
PrefChangedRearms ==
    /\ news
    /\ news' = FALSE
    /\ SetIdle(pref)
    /\ toAlarm' = Period
    /\ UNCHANGED <<lockState, idle, hydrated, pref>>

PrefChanged ==
    /\ news
    /\ news' = FALSE
    /\ SetIdle(pref)
    /\ UNCHANGED <<lockState, idle, hydrated, pref, toAlarm>>

\* onAlarm -> checkIdle()
Alarm ==
    /\ toAlarm = 0
    /\ toAlarm' = Period
    /\ IF Overdue(lockState, threshold, idle)
       THEN lockState' = "locked" /\ late' = 0
       ELSE UNCHANGED <<lockState, late>>
    /\ UNCHANGED <<threshold, idle, hydrated, pref, news>>

\* Time passes, but not beyond an alarm that is due.
Tick ==
    /\ toAlarm > 0
    /\ toAlarm' = toAlarm - 1
    /\ idle' = IF idle < MaxIdle THEN idle + 1 ELSE idle
    /\ late' = IF Overdue(lockState, threshold, idle') THEN late + 1 ELSE 0
    /\ UNCHANGED <<lockState, threshold, hydrated, pref, news>>

\* A new worker: a locked engine, the default threshold, a fresh
\* lastActivity, and the alarm created anew. It sees the preference only by
\* its own read.
Restart ==
    /\ MayRestart
    /\ lockState' = "locked"
    /\ threshold' = Default
    /\ idle' = 0
    /\ hydrated' = FALSE
    /\ news' = FALSE
    /\ toAlarm' = Period
    /\ late' = 0
    /\ UNCHANGED pref

\* What concerns the timer alone.
Step ==
    \/ Message
    \/ Unlock
    \/ Hydrate
    \/ HydrateFails
    \/ \E t \in Thresholds : ChoosePref(t)
    \/ PrefChanged
    \/ Alarm
    \/ Tick

Next == Step \/ Lock \/ Restart

Spec == Init /\ [][Next]_vars

-----------------------------------------------------------------------------
(* Properties                                                              *)

\* An unlocked wallet outlives its idle threshold by one alarm period at most,
\* also when the threshold is lowered meanwhile or the worker is restarted
\* (lifecycle.ts checkIdle, registerAutoLockAlarm).
LateIsBounded == late <= Period

\* README.md:58, lifecycle.ts:46: with the preference on "Never" and heard of,
\* the alarm does not lock the wallet.
NeverIsHonored ==
    [][pref = 0 /\ hydrated /\ ~news /\ lockState = "unlocked" /\ Alarm
         => lockState' = "unlocked"]_vars

=============================================================================
