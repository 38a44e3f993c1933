-------------------------------- MODULE Popup --------------------------------
(***************************************************************************)
(* The shell of the popup and of the side panel (popup/app.tsx): what each   *)
(* surface learns of the vault (use-vault-state.ts) and the screens it       *)
(* routes to: onboarding (create or import a wallet), unlock, and the        *)
(* unlocked router with lock, backup and restore. Both surfaces talk to one  *)
(* service worker, which serves or loses each request; ServiceWorker and     *)
(* WalletWorker model that side in detail.                                   *)
(*                                                                         *)
(* A screen that is left is unmounted. What it asked goes on: a later step   *)
(* of its chain is still sent, and the surface is still refreshed, but what  *)
(* the screen itself would show is dropped.                                  *)
(***************************************************************************)
EXTENDS Naturals, Sequences, SequencesExt, FiniteSets

CONSTANTS
    Surfaces,   \* the popup, the side panel
    Minted,     \* phrases the worker can generate
    Typed,      \* phrases a user types in, some of them wrong
    Kept,       \* what the twelve boxes of the grid hold of each of them
    Valid,      \* those that pass the BIP-39 validation
    Passwords,  \* what a user types as a password
    Strong,     \* those that may protect a vault
    Damaged,    \* what a backup that lost a byte decrypts to
    Firsts,     \* what may be stored at the start: a vault or None
    Uses,       \* bound on what the user does in each surface
    MaxJobs,    \* bound on the requests of each surface that are not answered
    MaxPolls,   \* bound on its polls of the vault state under way
    None

Seeds == Minted \cup Typed
Vault == [seed : Seeds \cup {Damaged}, pw : Strong]

ASSUME PhrasesAssumption ==
    /\ Minted \cap Typed = {} /\ Valid \subseteq Typed /\ Kept \in [Typed -> Typed]
    /\ {None, Damaged} \cap Seeds = {} /\ None # Damaged
ASSUME FirstsAssumption ==
    Strong \subseteq Passwords /\ Firsts \subseteq [seed : Seeds, pw : Strong] \cup {None}
ASSUME LimitsAssumption ==
    /\ Uses \in [Surfaces -> SUBSET {"create", "import", "lock", "backup", "settings", "close"}]
    /\ MaxJobs \in [Surfaces -> Nat] /\ MaxPolls \in [Surfaces -> Nat \ {0}]

VARIABLES
    disk,     \* the vault in IndexedDB
    open,     \* the phrase of the unlocked wallet
    owned,    \* history: phrases the user verified, typed in or had in a vault
    ui,       \* what each surface shows
    jobs,     \* what it asked of the service worker
    polls,    \* its polls of the vault state, the last one the current one
    since     \* history: what was true since it asked, until it is told

worker == <<disk, open>>
vars == <<disk, open, owned, ui, jobs, polls, since>>

Onboarding == {"choice", "generating", "generror", "display", "verify", "newpw", "creating",
               "input", "validating", "imppw", "storing"}
Screens == Onboarding \cup {"blank", "unlock", "unlocking", "main", "locking", "wallet", "backup"}

UI == [shown : {"closed", "loading", "no-vault", "locked", "unlocked", "error"},
       settings : BOOLEAN, screen : Screens, seed : Seeds \cup {None}]
Asked == [seed : Seeds \cup {Damaged, None}, pw : Passwords \cup {None}]
Job == [what : {"generate", "validate", "store", "load", "lock", "export", "import"},
        from : Screens, live : {"mounted", "unmounted", "closed"}, vault : Asked, checksum : Asked]
Poll == [has : BOOLEAN \cup {None}, open : BOOLEAN \cup {None}, live : BOOLEAN]

TypeOK ==
    /\ disk \in Vault \cup {None} /\ open \in Seeds \cup {None}
    /\ owned \subseteq Seeds
    /\ ui \in [Surfaces -> UI]
    /\ jobs \in [Surfaces -> Seq(Job)] /\ polls \in [Surfaces -> Seq(Poll)]
    /\ \A s \in Surfaces : Len(jobs[s]) <= MaxJobs[s] /\ Len(polls[s]) <= MaxPolls[s]
    /\ since \in [Surfaces -> [has : SUBSET BOOLEAN, open : SUBSET BOOLEAN]]

\* Where a surface starts when it learns what the vault is.
Entry(shown) ==
    CASE shown = "no-vault" -> "choice"
      [] shown = "locked" -> "unlock"
      [] shown = "unlocked" -> "main"
      [] OTHER -> "blank"

Asking(shown) == [shown |-> shown, settings |-> FALSE, screen |-> Entry(shown), seed |-> None]
NewPoll == [has |-> None, open |-> None, live |-> TRUE]
Truth == [has |-> {disk # None}, open |-> {open # None}]
Unasked == [has |-> {}, open |-> {}]

Init ==
    /\ disk \in Firsts /\ open = None
    /\ owned = IF disk = None THEN {} ELSE {disk.seed}
    /\ ui = [s \in Surfaces |-> Asking("closed")]
    /\ jobs = [s \in Surfaces |-> <<>>]
    /\ polls = [s \in Surfaces |-> <<>>]
    /\ since = [s \in Surfaces |-> Unasked]

\* What every surface that waits could have read by now.
Witness ==
    [s \in Surfaces |-> IF since[s] = Unasked THEN Unasked
                        ELSE [has |-> since[s].has \cup {disk' # None},
                              open |-> since[s].open \cup {open' # None}]]
Witnessed == since' = Witness

-----------------------------------------------------------------------------
(* Learning what the vault is.                                               *)

Unmounted(js) == [i \in DOMAIN js |-> [js[i] EXCEPT !.live = IF @ = "closed" THEN @ ELSE "unmounted"]]

\* refresh(): the polls under way are cancelled and the screen is unmounted.
Refreshed(s, js) ==
    /\ Len(polls[s]) < MaxPolls[s]
    /\ polls' = [polls EXCEPT ![s] =
           Append([i \in DOMAIN @ |-> [@[i] EXCEPT !.live = FALSE]], NewPoll)]
    /\ ui' = [ui EXCEPT ![s] = [Asking("loading") EXCEPT !.settings = ui[s].settings]]
    /\ jobs' = [jobs EXCEPT ![s] = Unmounted(js)]
    /\ since' = [Witness EXCEPT ![s] = [has |-> {disk' # None}, open |-> {open' # None}]]

\* VAULT_HAS_STORED and GET_LOCK_STATE are asked together and answered apart.
ReadHas(s, i) ==
    /\ polls[s][i].has = None
    /\ polls' = [polls EXCEPT ![s][i].has = (disk # None)]
    /\ UNCHANGED <<worker, owned, ui, jobs, since>>

ReadLock(s, i) ==
    /\ polls[s][i].open = None
    /\ polls' = [polls EXCEPT ![s][i].open = (open # None)]
    /\ UNCHANGED <<worker, owned, ui, jobs, since>>

Answered(p) ==
    CASE ~p.has -> "no-vault"
      [] p.has /\ ~p.open -> "locked"
      [] OTHER -> "unlocked"

\* Defect: an overtaken poll is not cancelled.
LearnAnyway(s, i, shown) ==
    /\ ui' = [ui EXCEPT ![s] = [Asking(shown) EXCEPT !.settings = ui[s].settings]]
    /\ since' = [since EXCEPT ![s] = Unasked]
    /\ polls' = [polls EXCEPT ![s] = RemoveAt(@, i)]
    /\ UNCHANGED <<worker, owned, jobs>>

Learn(s, i, shown) ==
    /\ ui' = IF polls[s][i].live
             THEN [ui EXCEPT ![s] = [Asking(shown) EXCEPT !.settings = ui[s].settings]]
             ELSE ui
    /\ since' = IF polls[s][i].live THEN [since EXCEPT ![s] = Unasked] ELSE since
    /\ polls' = [polls EXCEPT ![s] = RemoveAt(@, i)]
    /\ UNCHANGED <<worker, owned, jobs>>

Settle(s, i) ==
    /\ polls[s][i].has # None /\ polls[s][i].open # None
    /\ Learn(s, i, Answered(polls[s][i]))

\* Defect: nobody catches the failure.
PollFailsUncaught(s, i) ==
    /\ polls' = [polls EXCEPT ![s] = RemoveAt(@, i)]
    /\ UNCHANGED <<worker, owned, jobs, ui, since>>

PollFails(s, i) == Learn(s, i, "error")

-----------------------------------------------------------------------------
(* What the user does in a surface.                                          *)

On(s, screens) == ui[s].screen \in screens /\ ~ui[s].settings

Turn(s, screen, seed) ==
    /\ ui' = [ui EXCEPT ![s].screen = screen, ![s].seed = seed]
    /\ UNCHANGED <<worker, polls, since>>

Move(s, from, to) ==
    /\ On(s, {from})
    /\ Turn(s, to, ui[s].seed)
    /\ UNCHANGED <<owned, jobs>>

\* Back to a screen of another component: the one that is left is unmounted.
Leave(s, from, to) ==
    /\ On(s, from)
    /\ Turn(s, to, None)
    /\ jobs' = [jobs EXCEPT ![s] = Unmounted(@)]
    /\ UNCHANGED owned

Ask(s, what, from, to, vault, seed) ==
    /\ On(s, {from}) /\ Len(jobs[s]) < MaxJobs[s]
    /\ jobs' = [jobs EXCEPT ![s] = Append(@, [what |-> what, from |-> from, live |-> "mounted",
                                              vault |-> vault.vault, checksum |-> vault.checksum])]
    /\ Turn(s, to, seed)

Nothing == [seed |-> None, pw |-> None]

\* A backup carries the checksum of the stored blob. A hash that no two blobs
\* share is the blob itself.
encodeBackup(vault) == [vault |-> vault, checksum |-> vault]
Altered(backup) == [backup EXCEPT !.vault.seed = Damaged]

Blank == encodeBackup(Nothing)
Holding(seed, pw) == [Blank EXCEPT !.vault.seed = seed, !.vault.pw = pw]

\* Creating a wallet: the phrase is generated, shown and acknowledged, and
\* three of its words are asked for.
Create(s) == Ask(s, "generate", "choice", "generating", Blank, None) /\ UNCHANGED owned
Retry(s) == Ask(s, "generate", "generror", "generating", Blank, None) /\ UNCHANGED owned
Continue(s) == Move(s, "display", "verify")
Verify(s) ==
    /\ On(s, {"verify"})
    /\ Turn(s, "newpw", ui[s].seed)
    /\ owned' = owned \cup {ui[s].seed}
    /\ UNCHANGED jobs
BackFromPhrase(s) == Leave(s, {"display"}, "choice")

\* Importing one: the phrase is typed or pasted into the boxes, and what they
\* hold of it is validated.
Import(s) == Move(s, "choice", "input")
Entered(t) == Kept[t]
Validate(s, t) ==
    /\ Ask(s, "validate", "input", "validating", Holding(Entered(t), None), Entered(t))
    /\ owned' = owned \cup (Valid \cap {Entered(t)})
BackFromInput(s) == Leave(s, {"input", "validating"}, "choice")

\* Both end in a password that is strong enough and typed twice alike.
evaluatePasswordStrength(pw) == pw \in Strong
Fits(pw, confirm) == evaluatePasswordStrength(pw) /\ pw = confirm

SubmitNew(s, pw, confirm) ==
    /\ Fits(pw, confirm)
    /\ Ask(s, "store", "newpw", "creating", Holding(ui[s].seed, pw), ui[s].seed)
    /\ UNCHANGED owned
SubmitImport(s, pw, confirm) ==
    /\ Fits(pw, confirm)
    /\ Ask(s, "store", "imppw", "storing", Holding(ui[s].seed, pw), ui[s].seed)
    /\ UNCHANGED owned

Unlock(s, pw) ==
    Ask(s, "load", "unlock", "unlocking", Holding(None, pw), None) /\ UNCHANGED owned

Lock(s) == Ask(s, "lock", "main", "locking", Blank, None) /\ UNCHANGED owned

\* The wallet settings replace the main view; it is mounted afresh on the way
\* back and forgets that it asked for the lock.
OpenWallet(s) == Leave(s, {"main", "locking"}, "wallet")
BackToMain(s) == Leave(s, {"wallet", "backup"}, "main")

Export(s) == Ask(s, "export", "wallet", "backup", Blank, None) /\ UNCHANGED owned

\* What is pasted is a backup of some wallet of the user, made here or
\* elsewhere, or one that was damaged on its way.
Restore(s, v) ==
    /\ v.seed \in owned
    /\ \E pasted \in {encodeBackup(v), Altered(encodeBackup(v))} :
           Ask(s, "import", "wallet", "backup", pasted, None)
    /\ UNCHANGED owned

\* The gear of the shell shows the settings in place of any screen.
OpenSettings(s) ==
    /\ ui[s].shown # "closed" /\ ~ui[s].settings
    /\ ui' = [ui EXCEPT ![s] = [Asking(@.shown) EXCEPT !.settings = TRUE]]
    /\ jobs' = [jobs EXCEPT ![s] = Unmounted(@)]
    /\ UNCHANGED <<worker, owned, polls, since>>

CloseSettings(s) ==
    /\ ui[s].settings
    /\ ui' = [ui EXCEPT ![s].settings = FALSE]
    /\ UNCHANGED <<worker, owned, jobs, polls, since>>

\* Closing a surface ends its document. What it sent is still served.
Close(s) ==
    /\ ui[s].shown # "closed"
    /\ ui' = [ui EXCEPT ![s] = Asking("closed")]
    /\ jobs' = [jobs EXCEPT ![s] = [i \in DOMAIN @ |-> [@[i] EXCEPT !.live = "closed"]]]
    /\ polls' = [polls EXCEPT ![s] = <<>>]
    /\ since' = [since EXCEPT ![s] = Unasked]
    /\ UNCHANGED <<worker, owned>>

Open(s) ==
    /\ ui[s].shown = "closed"
    /\ ui' = [ui EXCEPT ![s] = Asking("loading")]
    /\ polls' = [polls EXCEPT ![s] = <<NewPoll>>]
    /\ since' = [since EXCEPT ![s] = Truth]
    /\ UNCHANGED <<worker, owned, jobs>>

-----------------------------------------------------------------------------
(* What the service worker does, and what the surface makes of it.           *)

Opens(pw) == disk # None /\ disk.seed # Damaged /\ disk.pw = pw

Fresh == Minted \ (owned \cup {ui[s].seed : s \in Surfaces})

decodeBackup(job) == job.vault = job.checksum


\* Defect: the checksum of a backup is not compared.
AcceptedUnchecked(job) ==
    CASE job.what = "load" -> disk # None /\ disk.pw = job.vault.pw
      [] job.what = "export" -> disk # None
      [] job.what = "generate" -> Fresh # {}
      [] OTHER -> TRUE

Accepted(job) ==
    CASE job.what = "load" -> Opens(job.vault.pw)
      [] job.what = "export" -> disk # None
      [] job.what = "import" -> decodeBackup(job)
      [] job.what = "generate" -> Fresh # {}
      [] OTHER -> TRUE

\* The answer is the phrase that was generated, or the request's own.
Effect(job, seed) ==
    /\ disk' = IF job.what \in {"store", "import"} THEN job.vault ELSE disk
    /\ open' = CASE job.what = "load" -> disk.seed
                 [] job.what = "lock" -> None
                 [] OTHER -> open
    /\ seed \in IF job.what = "generate" THEN Fresh ELSE {job.vault.seed}

NoEffect == UNCHANGED worker

Shows(s, screen, seed) == [ui EXCEPT ![s].screen = screen, ![s].seed = seed]

\* A mounted screen takes the answer; the chain has no further step.
Takes(s, i, screen, seed) ==
    /\ ui' = IF jobs[s][i].live = "mounted" THEN Shows(s, screen, seed) ELSE ui
    /\ jobs' = [jobs EXCEPT ![s] = RemoveAt(@, i)]
    /\ Witnessed
    /\ UNCHANGED <<owned, polls>>

Generated(s, i, seed) == jobs[s][i].what = "generate" /\ Takes(s, i, "display", seed)

Validated(s, i, seed) ==
    /\ jobs[s][i].what = "validate"
    /\ Takes(s, i, IF seed \in Valid THEN "imppw" ELSE "input",
             IF seed \in Valid THEN seed ELSE None)

\* VAULT_STORE done: VAULT_LOAD is sent, whether or not the view is mounted.
Stored(s, i) ==
    /\ jobs[s][i].what = "store" /\ jobs[s][i].live # "closed"
    /\ jobs' = [jobs EXCEPT ![s][i].what = "load"]
    /\ Witnessed
    /\ UNCHANGED <<owned, ui, polls>>

\* VAULT_LOAD or LOCK done: the surface asks again what the vault is.
Turned(s, i) ==
    /\ jobs[s][i].what \in {"load", "lock"} /\ jobs[s][i].live # "closed"
    /\ Refreshed(s, RemoveAt(jobs[s], i))
    /\ UNCHANGED owned

BackedUp(s, i) == jobs[s][i].what \in {"export", "import"} /\ Takes(s, i, "wallet", None)

\* The document is gone: nobody hears of the answer.
Unheard(s, i) ==
    /\ jobs[s][i].live = "closed"
    /\ jobs' = [jobs EXCEPT ![s] = RemoveAt(@, i)]
    /\ Witnessed
    /\ UNCHANGED <<owned, ui, polls>>

Answer(s, i) ==
    /\ Accepted(jobs[s][i])
    /\ \E seed \in Seeds \cup {Damaged, None} :
           /\ Effect(jobs[s][i], seed)
           /\ \/ jobs[s][i].live # "closed" /\ (Generated(s, i, seed) \/ Validated(s, i, seed))
              \/ Stored(s, i) \/ Turned(s, i)
              \/ jobs[s][i].live # "closed" /\ BackedUp(s, i)
              \/ Unheard(s, i)

\* Where a screen stands after a request of it failed.
After(job) ==
    CASE job.what = "generate" -> "generror"
      [] job.what = "validate" -> "input"
      [] OTHER -> job.from

\* A request is refused, or the worker dies before or after it served it.
Fails(s, i) ==
    /\ \/ NoEffect
       \/ /\ Accepted(jobs[s][i])
          /\ \E seed \in Seeds \cup {Damaged, None} : Effect(jobs[s][i], seed)
    /\ Takes(s, i, After(jobs[s][i]), IF jobs[s][i].what = "validate" THEN None ELSE ui[s].seed)

\* The idle timer, the other end of a dead worker: the wallet is locked.
AutoLock ==
    /\ open # None /\ open' = None
    /\ UNCHANGED <<disk, owned, ui, jobs, polls>>
    /\ Witnessed

-----------------------------------------------------------------------------
Acts(s) ==
    \/ \E pw, confirm \in Passwords : SubmitNew(s, pw, confirm) \/ SubmitImport(s, pw, confirm)
    \/ \E pw \in Passwords : Unlock(s, pw)
    \/ BackFromPhrase(s) \/ BackFromInput(s) \/ BackToMain(s) \/ Open(s)
    \/ "create" \in Uses[s] /\ (Create(s) \/ Retry(s) \/ Continue(s) \/ Verify(s))
    \/ "import" \in Uses[s] /\ (Import(s) \/ \E t \in Typed : Validate(s, t))
    \/ "lock" \in Uses[s] /\ Lock(s)
    \/ "backup" \in Uses[s] /\ (OpenWallet(s) \/ Export(s) \/ \E v \in Vault : Restore(s, v))
    \/ "settings" \in Uses[s] /\ (OpenSettings(s) \/ CloseSettings(s))
    \/ "close" \in Uses[s] /\ Close(s)

Served(s) == \E i \in DOMAIN jobs[s] : Answer(s, i) \/ Fails(s, i)

Told(s) ==
    \E i \in DOMAIN polls[s] : ReadHas(s, i) \/ ReadLock(s, i) \/ Settle(s, i) \/ PollFails(s, i)

Next == AutoLock \/ \E s \in Surfaces : Acts(s) \/ Served(s) \/ Told(s)

\* The service worker answers what it is asked of the vault, or the channel
\* reports that it is gone. The user owes nothing.
Fairness == \A s \in Surfaces : WF_vars(Told(s))

Spec == Init /\ [][Next]_vars /\ Fairness

-----------------------------------------------------------------------------
(* Properties.                                                               *)

\* What a surface comes to say of the vault was true at some time since it
\* last asked (use-vault-state.ts: a poll that was overtaken is cancelled): a
\* late answer never brings back the state from before a lock or an unlock.
ShownSinceRefresh ==
    [][\A s \in Surfaces : ui'[s].shown # ui[s].shown =>
          CASE ui'[s].shown = "no-vault" -> FALSE \in since[s].has
            [] ui'[s].shown = "locked" -> TRUE \in since[s].has /\ FALSE \in since[s].open
            [] ui'[s].shown = "unlocked" -> TRUE \in since[s].has /\ TRUE \in since[s].open
            [] OTHER -> TRUE]_vars

\* Whatever is stored or unlocked, the user can bring back: its phrase was
\* typed in, or its words were asked for, or it was in an intact backup
\* (create-vault-view.tsx, import-vault-view.tsx, background/backup.ts).
WalletIsUsersOwn ==
    /\ disk # None => disk.seed \in owned
    /\ open # None => open \in owned

\* A surface does not stay at "Loading...": it ends at a screen or an error
\* (use-vault-state.ts, both reads and their failures).
LoadingEnds ==
    \A s \in Surfaces : ui[s].shown = "loading" ~> ui[s].shown # "loading"

=============================================================================
