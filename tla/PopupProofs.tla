---------------------------- MODULE PopupProofs ----------------------------
(***************************************************************************)
(* For any surfaces, phrases, passwords and bounds on what is under way:     *)
(* whatever is stored or unlocked is the user's own, and what a surface      *)
(* comes to say of the vault was true since it last asked.                   *)
(***************************************************************************)
EXTENDS Popup, SequenceTheorems, TLAPS

\* Where the elements of a sequence without its i-th one come from.
Source(i, k) == IF k < i THEN k ELSE k + 1

LEMMA Removed ==
    ASSUME NEW S, NEW q \in Seq(S), NEW i \in DOMAIN q
    PROVE  /\ RemoveAt(q, i) \in Seq(S)
           /\ Len(RemoveAt(q, i)) = Len(q) - 1
           /\ DOMAIN RemoveAt(q, i) \subseteq Nat
           /\ \A k \in DOMAIN RemoveAt(q, i) :
                  /\ Source(i, k) \in DOMAIN q \ {i}
                  /\ RemoveAt(q, i)[k] = q[Source(i, k)]
<1>0. DOMAIN q = 1..Len(q) /\ Len(q) \in Nat
  OBVIOUS
<1>1. i \in Nat \ {0} /\ i <= Len(q)
  BY <1>0
<1> DEFINE a == SubSeq(q, 1, i - 1)  b == SubSeq(q, i + 1, Len(q))
<1>2. a \in Seq(S) /\ Len(a) = i - 1 /\ \A k \in 1..Len(a) : a[k] = q[k]
  BY <1>0, <1>1
<1>3. b \in Seq(S) /\ Len(b) = Len(q) - i /\ \A k \in 1..Len(b) : b[k] = q[k + i]
  BY <1>0, <1>1
<1>4. RemoveAt(q, i) = a \o b
  BY DEF RemoveAt
<1> HIDE DEF a, b
<1> DEFINE c == a \o b
<1>5. /\ c \in Seq(S) /\ Len(c) = Len(a) + Len(b)
      /\ \A k \in 1..(Len(a) + Len(b)) : c[k] = IF k <= Len(a) THEN a[k] ELSE b[k - Len(a)]
  BY <1>2, <1>3, ConcatProperties
<1> HIDE DEF c
<1>6. Len(c) = Len(q) - 1 /\ DOMAIN c = 1..(Len(a) + Len(b))
  BY <1>0, <1>1, <1>2, <1>3, <1>5
<1>7. ASSUME NEW k \in 1..(Len(a) + Len(b))
      PROVE  Source(i, k) \in (1..Len(q)) \ {i} /\ c[k] = q[Source(i, k)]
  <2>0. k \in Nat /\ k >= 1 /\ k <= Len(a) + Len(b)
    BY <1>0, <1>1, <1>2, <1>3
  <2>1. CASE k <= Len(a)
    <3>1. k \in 1..Len(a) /\ k \in (1..Len(q)) \ {i} /\ Source(i, k) = k
      BY <2>0, <2>1, <1>0, <1>1, <1>2 DEF Source
    <3>2. c[k] = a[k]
      BY <2>1, <1>5
    <3>3. a[k] = q[k]
      BY <3>1, <1>2
    <3> QED
      BY <3>1, <3>2, <3>3
  <2>2. CASE k > Len(a)
    <3>1. k - Len(a) \in 1..Len(b) /\ (k - Len(a)) + i = k + 1 /\ ~(k <= Len(a)) /\ ~(k < i)
      BY <2>0, <2>2, <1>0, <1>1, <1>2, <1>3
    <3>2. c[k] = b[k - Len(a)]
      BY <3>1, <1>5
    <3>3. b[k - Len(a)] = q[k + 1]
      BY <3>1, <1>3
    <3>4. Source(i, k) = k + 1
      BY <3>1 DEF Source
    <3>5. k + 1 \in (1..Len(q)) \ {i}
      BY <2>0, <3>1, <1>0, <1>1, <1>2, <1>3
    <3> QED
      BY <3>2, <3>3, <3>4, <3>5
  <2> QED
    BY <2>0, <2>1, <2>2, <1>1, <1>2
<1>8. DOMAIN c \subseteq Nat
  BY <1>2, <1>3, <1>5, <1>6
<1> QED
  BY <1>0, <1>4, <1>5, <1>6, <1>7, <1>8 DEF c

\* Two elements of what is left are two elements of what was there.
LEMMA SourceApart ==
    ASSUME NEW i \in Nat, NEW k \in Nat, NEW l \in Nat, Source(i, k) = Source(i, l)
    PROVE  k = l
BY DEF Source

-----------------------------------------------------------------------------
(* The inductive invariant                                                   *)

\* Only the last poll of a surface is heard, while it says it is loading, and it
\* has read what was true since the surface asked.
Heard(s) ==
    \A i \in DOMAIN polls[s] : polls[s][i].live =>
        /\ ui[s].shown = "loading" /\ since[s] # Unasked
        /\ polls[s][i].has # None => polls[s][i].has \in since[s].has
        /\ polls[s][i].open # None => polls[s][i].open \in since[s].open
        /\ \A j \in DOMAIN polls[s] : polls[s][j].live => j = i

Current(s) ==
    since[s] # Unasked => (disk # None) \in since[s].has /\ (open # None) \in since[s].open

Polling == \A s \in Surfaces : Heard(s) /\ Current(s)

\* The screen that waits for what was asked from another one.
Waits == [choice |-> "generating", generror |-> "generating", input |-> "validating",
          newpw |-> "creating", imppw |-> "storing", unlock |-> "unlocking",
          main |-> "locking", wallet |-> "backup"]

\* A mounted screen waits for one request, its own; nothing is asked while the
\* surface is closed or does not know what the vault is.
Mounted(s) ==
    /\ ui[s].shown \in {"closed", "loading", "error"} => ui[s].screen = "blank"
    /\ \A i \in DOMAIN jobs[s] : jobs[s][i].live = "mounted" =>
           /\ jobs[s][i].from \in DOMAIN Waits /\ ui[s].screen = Waits[jobs[s][i].from]
           /\ \A j \in DOMAIN jobs[s] : jobs[s][j].live = "mounted" => j = i

Mounting == \A s \in Surfaces : Mounted(s)

\* A screen that leads to a store holds a phrase of the user's, and a request that
\* may replace the vault carries one.
Holds(s) ==
    /\ ui[s].screen \in {"display", "verify"} => ui[s].seed \in Seeds
    /\ ui[s].screen \in {"newpw", "creating", "imppw", "storing"} => ui[s].seed \in owned

Brings(job, o) ==
    /\ job.what = "store" \/ (job.what = "import" /\ decodeBackup(job)) =>
           job.vault \in Vault /\ job.vault.seed \in o
    /\ job.what = "validate" /\ job.vault.seed \in Valid => job.vault.seed \in o

Owning == \A s \in Surfaces : Holds(s) /\ \A i \in DOMAIN jobs[s] : Brings(jobs[s][i], owned)

IInv == TypeOK /\ WalletIsUsersOwn /\ Polling /\ Mounting /\ Owning

-----------------------------------------------------------------------------
(* What the surfaces are told of the vault                                   *)

Known == [has : SUBSET BOOLEAN, open : SUBSET BOOLEAN]

\* The parts of the type invariant.
WorkerOK == disk \in Vault \cup {None} /\ open \in Seeds \cup {None} /\ owned \subseteq Seeds
FormsOK ==
    /\ ui \in [Surfaces -> UI] /\ jobs \in [Surfaces -> Seq(Job)]
    /\ \A s \in Surfaces : Len(jobs[s]) <= MaxJobs[s]
PollsOK ==
    /\ polls \in [Surfaces -> Seq(Poll)] /\ since \in [Surfaces -> Known]
    /\ \A s \in Surfaces : Len(polls[s]) <= MaxPolls[s]

LEMMA Parts ==
    /\ TypeOK <=> WorkerOK /\ FormsOK /\ PollsOK
    /\ TypeOK' <=> WorkerOK' /\ FormsOK' /\ PollsOK'
BY DEF TypeOK, WorkerOK, FormsOK, PollsOK, Known

\* What was true when a surface asked stays known while it waits, and what is true
\* now is added.
Wider(t) ==
    /\ since'[t] \in Known /\ Current(t)'
    /\ since[t] # Unasked =>
           /\ since'[t] # Unasked
           /\ since[t].has \subseteq since'[t].has /\ since[t].open \subseteq since'[t].open

LEMMA SinceKept ==
    ASSUME IInv, NEW t \in Surfaces, since'[t] = since[t], UNCHANGED worker
    PROVE  Wider(t)
BY Parts DEF IInv, PollsOK, Polling, Current, Wider, worker

LEMMA SinceWitness ==
    ASSUME IInv, NEW t \in Surfaces, since'[t] = Witness[t]
    PROVE  Wider(t)
<1> DEFINE h == disk' # None  o == open' # None
<1>0. h \in BOOLEAN /\ o \in BOOLEAN
  OBVIOUS
<1>1. Witness[t] = IF since[t] = Unasked THEN Unasked
                   ELSE [has |-> since[t].has \cup {h}, open |-> since[t].open \cup {o}]
  BY DEF Witness
<1>2. since[t] \in Known
  BY Parts DEF IInv, PollsOK
<1>3. Current(t)' <=> (since'[t] # Unasked => h \in since'[t].has /\ o \in since'[t].open)
  BY DEF Current, Unasked
<1> HIDE DEF h, o
<1>4. CASE since[t] = Unasked
  BY <1>1, <1>2, <1>3, <1>4 DEF Wider
<1>5. CASE since[t] # Unasked
  <2>1. since'[t] = [has |-> since[t].has \cup {h}, open |-> since[t].open \cup {o}]
    BY <1>1, <1>5
  <2>2. since'[t].has = since[t].has \cup {h} /\ since'[t].open = since[t].open \cup {o}
    BY <2>1
  <2>3. since'[t] # Unasked
    BY <2>2 DEF Unasked
  <2>4. since'[t] \in Known
    BY <2>1, <1>0, <1>2 DEF Known
  <2> QED
    BY <2>2, <2>3, <2>4, <1>3 DEF Wider
<1> QED
  BY <1>4, <1>5

\* A surface whose polls are kept hears what was true since it asked.
LEMMA HeardStill ==
    ASSUME IInv, NEW t \in Surfaces, Wider(t), polls'[t] = polls[t], ui'[t].shown = ui[t].shown
    PROVE  Heard(t)'
<1>1. Heard(t)
  BY DEF IInv, Polling
<1>2. SUFFICES ASSUME NEW i \in DOMAIN polls[t], polls[t][i].live
               PROVE  /\ ui[t].shown = "loading" /\ since'[t] # Unasked
                      /\ polls[t][i].has # None => polls[t][i].has \in since'[t].has
                      /\ polls[t][i].open # None => polls[t][i].open \in since'[t].open
                      /\ \A j \in DOMAIN polls[t] : polls[t][j].live => j = i
  BY DEF Heard, Unasked
<1>3. /\ ui[t].shown = "loading" /\ since[t] # Unasked
      /\ polls[t][i].has # None => polls[t][i].has \in since[t].has
      /\ polls[t][i].open # None => polls[t][i].open \in since[t].open
      /\ \A j \in DOMAIN polls[t] : polls[t][j].live => j = i
  BY <1>1, <1>2 DEF Heard
<1> QED
  BY <1>3 DEF Wider

\* A step that leaves the polls and what the surfaces say of the vault.
LEMMA PollsKept ==
    ASSUME IInv, UNCHANGED polls, since' \in [Surfaces -> Known],
           \A t \in Surfaces : ui'[t].shown = ui[t].shown /\ Wider(t)
    PROVE  PollsOK' /\ Polling'
<1>1. PollsOK'
  BY Parts DEF IInv, PollsOK
<1>2. ASSUME NEW t \in Surfaces
      PROVE  Heard(t)' /\ Current(t)'
  BY HeardStill DEF Wider
<1> QED
  BY <1>1, <1>2 DEF Polling

\* A step that gives one surface other polls.
LEMMA PollsAt ==
    ASSUME IInv, NEW s \in Surfaces, NEW ps \in Seq(Poll), Len(ps) <= MaxPolls[s],
           polls' = [polls EXCEPT ![s] = ps], since' \in [Surfaces -> Known],
           \A t \in Surfaces \ {s} : ui'[t].shown = ui[t].shown /\ Wider(t),
           Heard(s)', Current(s)'
    PROVE  PollsOK' /\ Polling'
<1>1. polls \in [Surfaces -> Seq(Poll)] /\ \A t \in Surfaces : Len(polls[t]) <= MaxPolls[t]
  BY Parts DEF IInv, PollsOK
<1>2. polls' \in [Surfaces -> Seq(Poll)]
  BY <1>1
<1>3. \A t \in Surfaces : polls'[t] = IF t = s THEN ps ELSE polls[t]
  BY <1>1
<1>4. PollsOK'
  BY <1>1, <1>2, <1>3 DEF PollsOK
<1>5. ASSUME NEW t \in Surfaces \ {s}
      PROVE  Heard(t)' /\ Current(t)'
  BY <1>3, HeardStill DEF Wider
<1> QED
  BY <1>4, <1>5 DEF Polling

\* What a surface has learnt of one poll more: one of the two answers is known.
LEMMA ReadPolls ==
    ASSUME IInv, NEW s \in Surfaces, NEW i \in DOMAIN polls[s], ReadHas(s, i) \/ ReadLock(s, i)
    PROVE  PollsOK' /\ Polling'
<1> DEFINE p == IF polls'[s][i].has = polls[s][i].has
                THEN [polls[s][i] EXCEPT !.open = (open # None)]
                ELSE [polls[s][i] EXCEPT !.has = (disk # None)]
<1>0. /\ polls \in [Surfaces -> Seq(Poll)] /\ since \in [Surfaces -> Known]
      /\ \A t \in Surfaces : Len(polls[t]) <= MaxPolls[t]
  BY Parts DEF IInv, PollsOK
<1>1. polls[s] \in Seq(Poll)
  BY <1>0
<1>2. polls[s][i] \in Poll
  BY <1>1
<1>3. UNCHANGED <<worker, ui, since>>
  BY DEF ReadHas, ReadLock
<1>4. Heard(s) /\ Current(s)
  BY DEF IInv, Polling
<1>5. \A t \in Surfaces : ui'[t].shown = ui[t].shown /\ Wider(t)
  BY <1>3, SinceKept
<1>6. ASSUME NEW q \in Poll, polls' = [polls EXCEPT ![s] = [polls[s] EXCEPT ![i] = q]],
             q.live = polls[s][i].live,
             q.has = polls[s][i].has \/ q.has = (disk # None),
             q.open = polls[s][i].open \/ q.open = (open # None)
      PROVE  PollsOK' /\ Polling'
  <2> DEFINE ps == [polls[s] EXCEPT ![i] = q]
  <2>1. ps \in Seq(Poll) /\ Len(ps) = Len(polls[s]) /\ DOMAIN ps = DOMAIN polls[s]
        /\ \A j \in DOMAIN ps : ps[j] = IF j = i THEN q ELSE polls[s][j]
    BY <1>1, ExceptSeq
  <2>2. polls'[s] = ps
    BY <1>0, <1>6
  <2> HIDE DEF ps
  <2>3. Heard(s)'
    <3>1. SUFFICES ASSUME NEW j \in DOMAIN ps, ps[j].live
                   PROVE  /\ ui[s].shown = "loading" /\ since[s] # Unasked
                          /\ ps[j].has # None => ps[j].has \in since[s].has
                          /\ ps[j].open # None => ps[j].open \in since[s].open
                          /\ \A k \in DOMAIN ps : ps[k].live => k = j
      BY <2>2, <1>3 DEF Heard, Unasked
    <3>2. j \in DOMAIN polls[s] /\ polls[s][j].live
      BY <2>1, <3>1, <1>6
    <3>3. /\ ui[s].shown = "loading" /\ since[s] # Unasked
          /\ polls[s][j].has # None => polls[s][j].has \in since[s].has
          /\ polls[s][j].open # None => polls[s][j].open \in since[s].open
          /\ \A k \in DOMAIN polls[s] : polls[s][k].live => k = j
      BY <3>2, <1>4 DEF Heard
    <3>4. (disk # None) \in since[s].has /\ (open # None) \in since[s].open
      BY <3>3, <1>4 DEF Current
    <3>5. \A k \in DOMAIN ps : ps[k].live => k = j
      BY <3>3, <2>1, <1>6
    <3>6. CASE j = i
      <4>1. ps[j] = q
        BY <3>6, <2>1, <3>1
      <4>2. q.has # None => q.has \in since[s].has
        BY <3>3, <3>4, <3>6, <1>6
      <4>3. q.open # None => q.open \in since[s].open
        BY <3>3, <3>4, <3>6, <1>6
      <4> QED
        BY <4>1, <4>2, <4>3, <3>3, <3>5
    <3>7. CASE j # i
      BY <3>7, <3>3, <3>5, <2>1
    <3> QED
      BY <3>6, <3>7
  <2>4. Current(s)'
    BY <1>5 DEF Wider
  <2>5. polls' = [polls EXCEPT ![s] = ps] /\ Len(ps) <= MaxPolls[s]
    BY <1>6, <2>1, <1>0 DEF ps
  <2>6. since' \in [Surfaces -> Known]
    BY <1>0, <1>3
  <2> QED
    BY <2>1, <2>3, <2>4, <2>5, <2>6, <1>5, PollsAt
<1>7. CASE ReadHas(s, i)
  <2> DEFINE q == [polls[s][i] EXCEPT !.has = (disk # None)]
  <2>1. q \in Poll /\ q.live = polls[s][i].live /\ q.has = (disk # None) /\ q.open = polls[s][i].open
    BY <1>2 DEF Poll
  <2>2. polls' = [polls EXCEPT ![s] = [polls[s] EXCEPT ![i] = q]]
    BY <1>7, <1>0 DEF ReadHas
  <2> QED
    BY <2>1, <2>2, <1>6
<1>8. CASE ReadLock(s, i)
  <2> DEFINE q == [polls[s][i] EXCEPT !.open = (open # None)]
  <2>1. q \in Poll /\ q.live = polls[s][i].live /\ q.has = polls[s][i].has /\ q.open = (open # None)
    BY <1>2 DEF Poll
  <2>2. polls' = [polls EXCEPT ![s] = [polls[s] EXCEPT ![i] = q]]
    BY <1>8, <1>0 DEF ReadLock
  <2> QED
    BY <2>1, <2>2, <1>6
<1> QED
  BY <1>7, <1>8

\* A poll that ended is forgotten, and its surface hears of no other.
LEMMA LearnPolls ==
    ASSUME IInv, NEW s \in Surfaces, NEW i \in DOMAIN polls[s],
           NEW shown \in {"no-vault", "locked", "unlocked", "error"}, Learn(s, i, shown)
    PROVE  PollsOK' /\ Polling'
<1> DEFINE ps == RemoveAt(polls[s], i)
<1>0. /\ polls \in [Surfaces -> Seq(Poll)] /\ since \in [Surfaces -> Known]
      /\ \A t \in Surfaces : Len(polls[t]) <= MaxPolls[t]
      /\ ui \in [Surfaces -> UI]
  BY Parts DEF IInv, PollsOK, FormsOK
<1>1. polls[s] \in Seq(Poll) /\ Len(polls[s]) <= MaxPolls[s] /\ Len(polls[s]) \in Nat
  BY <1>0
<1>2. /\ ps \in Seq(Poll) /\ Len(ps) = Len(polls[s]) - 1
      /\ DOMAIN ps \subseteq Nat
      /\ \A k \in DOMAIN ps : Source(i, k) \in DOMAIN polls[s] \ {i} /\ ps[k] = polls[s][Source(i, k)]
  <2>1. polls[s] \in Seq(Poll) /\ i \in DOMAIN polls[s]
    BY <1>1
  <2> QED
    BY ONLY <2>1, Removed DEF ps
<1>2a. i \in Nat /\ MaxPolls[s] \in Nat
  BY <1>1, LimitsAssumption DEF LimitsAssumption
<1>3. polls' = [polls EXCEPT ![s] = ps] /\ UNCHANGED worker
  BY DEF Learn
<1> HIDE DEF ps
<1>3a. polls'[s] = ps
  BY <1>3, <1>0
<1>4. Heard(s) /\ Current(s)
  BY DEF IInv, Polling
<1>5. Len(ps) <= MaxPolls[s]
  BY <1>1, <1>2, <1>2a
<1>6. CASE polls[s][i].live
  <2>1. ui' = [ui EXCEPT ![s] = [Asking(shown) EXCEPT !.settings = ui[s].settings]]
        /\ since' = [since EXCEPT ![s] = Unasked]
    BY <1>6 DEF Learn
  <2>2. Unasked \in Known
    BY DEF Unasked, Known
  <2>3. since' \in [Surfaces -> Known] /\ since'[s] = Unasked
    BY <2>1, <2>2, <1>0
  <2>4. \A t \in Surfaces \ {s} : ui'[t].shown = ui[t].shown /\ Wider(t)
    BY <2>1, <1>0, <1>3, SinceKept
  <2>5. Current(s)'
    BY <2>3 DEF Current, Unasked
  <2>6. \A k \in DOMAIN ps : ~ps[k].live
    BY <1>2, <1>4, <1>6 DEF Heard
  <2>7. Heard(s)'
    BY <2>6, <1>3a DEF Heard
  <2> QED
    BY <1>2, <1>3, <1>5, <2>3, <2>4, <2>5, <2>7, PollsAt
<1>7. CASE ~polls[s][i].live
  <2>1. ui' = ui /\ since' = since
    BY <1>7 DEF Learn
  <2>2. \A t \in Surfaces : ui'[t].shown = ui[t].shown /\ Wider(t)
    BY <2>1, <1>3, SinceKept
  <2>3. Current(s)' /\ since' \in [Surfaces -> Known]
    BY <2>1, <2>2, <1>0 DEF Wider
  <2>4. Heard(s)'
    <3>1. SUFFICES ASSUME NEW j \in DOMAIN ps, ps[j].live
                   PROVE  /\ ui[s].shown = "loading" /\ since[s] # Unasked
                          /\ ps[j].has # None => ps[j].has \in since[s].has
                          /\ ps[j].open # None => ps[j].open \in since[s].open
                          /\ \A k \in DOMAIN ps : ps[k].live => k = j
      BY <1>3a, <2>1 DEF Heard, Unasked
    <3>2. Source(i, j) \in DOMAIN polls[s] /\ polls[s][Source(i, j)].live /\ ps[j] = polls[s][Source(i, j)]
      BY <1>2, <3>1
    <3>3. /\ ui[s].shown = "loading" /\ since[s] # Unasked
          /\ ps[j].has # None => ps[j].has \in since[s].has
          /\ ps[j].open # None => ps[j].open \in since[s].open
          /\ \A k \in DOMAIN polls[s] : polls[s][k].live => k = Source(i, j)
      BY <3>2, <1>4 DEF Heard
    <3>4. ASSUME NEW k \in DOMAIN ps, ps[k].live
          PROVE  k = j
      <4>1. Source(i, k) = Source(i, j)
        BY <3>3, <3>4, <1>2
      <4> QED
        BY <4>1, <1>2, <1>2a, SourceApart
    <3> QED
      BY <3>3, <3>4
  <2> QED
    BY <1>2, <1>3, <1>5, <2>2, <2>3, <2>4, PollsAt
<1> QED
  BY <1>6, <1>7

\* A poll that just began has read nothing.
LEMMA NewPollFacts ==
    NewPoll \in Poll /\ NewPoll.has = None /\ NewPoll.open = None /\ NewPoll.live = TRUE
BY DEF NewPoll, Poll

\* What is true now, put in for a surface that asks.
LEMMA JustAsked ==
    ASSUME NEW s \in Surfaces, since'[s] = [has |-> {disk' # None}, open |-> {open' # None}]
    PROVE  since'[s] \in Known /\ since'[s] # Unasked /\ Current(s)'
<1> DEFINE h == disk' # None  o == open' # None
<1>1. h \in BOOLEAN /\ o \in BOOLEAN
  OBVIOUS
<1>2. Current(s)' <=> (since'[s] # Unasked => h \in since'[s].has /\ o \in since'[s].open)
  BY DEF Current, Unasked
<1>3. since'[s] = [has |-> {h}, open |-> {o}]
  OBVIOUS
<1> HIDE DEF h, o
<1> QED
  BY <1>1, <1>2, <1>3 DEF Known, Unasked

LEMMA OpenPolls ==
    ASSUME IInv, NEW s \in Surfaces, Open(s)
    PROVE  PollsOK' /\ Polling'
<1>0. /\ polls \in [Surfaces -> Seq(Poll)] /\ since \in [Surfaces -> Known]
      /\ ui \in [Surfaces -> UI]
  BY Parts DEF IInv, PollsOK, FormsOK
<1>1. <<NewPoll>> \in Seq(Poll) /\ Len(<<NewPoll>>) = 1 /\ DOMAIN <<NewPoll>> = {1}
      /\ <<NewPoll>>[1] = NewPoll
  BY NewPollFacts
<1>2. MaxPolls[s] \in Nat \ {0}
  BY LimitsAssumption DEF LimitsAssumption
<1>3. /\ polls' = [polls EXCEPT ![s] = <<NewPoll>>] /\ UNCHANGED worker
      /\ since' = [since EXCEPT ![s] = Truth]
      /\ ui' = [ui EXCEPT ![s] = Asking("loading")]
  BY DEF Open
<1>4. since'[s] = [has |-> {disk' # None}, open |-> {open' # None}]
  BY <1>3, <1>0 DEF Truth, worker
<1>5. since'[s] \in Known /\ since'[s] # Unasked /\ Current(s)'
  BY <1>4, JustAsked
<1>6. since' \in [Surfaces -> Known]
  <2>1. Truth \in Known
    BY <1>5, <1>3, <1>0
  <2> QED
    BY <2>1, <1>3, <1>0
<1>7. \A t \in Surfaces \ {s} : ui'[t].shown = ui[t].shown /\ Wider(t)
  BY <1>3, <1>0, SinceKept
<1>8. polls'[s] = <<NewPoll>> /\ ui'[s].shown = "loading"
  BY <1>3, <1>0 DEF Asking
<1>9. Heard(s)'
  BY <1>1, <1>5, <1>8, NewPollFacts DEF Heard, Unasked
<1>10. Len(<<NewPoll>>) <= MaxPolls[s]
  BY <1>1, <1>2
<1> QED
  BY <1>1, <1>3, <1>5, <1>6, <1>7, <1>9, <1>10, PollsAt

LEMMA ClosePolls ==
    ASSUME IInv, NEW s \in Surfaces, Close(s)
    PROVE  PollsOK' /\ Polling'
<1>0. /\ polls \in [Surfaces -> Seq(Poll)] /\ since \in [Surfaces -> Known]
      /\ ui \in [Surfaces -> UI]
  BY Parts DEF IInv, PollsOK, FormsOK
<1>1. <<>> \in Seq(Poll) /\ Len(<<>>) = 0 /\ DOMAIN <<>> = {}
  OBVIOUS
<1>2. MaxPolls[s] \in Nat
  BY LimitsAssumption DEF LimitsAssumption
<1>3. /\ polls' = [polls EXCEPT ![s] = <<>>] /\ UNCHANGED worker
      /\ since' = [since EXCEPT ![s] = Unasked]
      /\ ui' = [ui EXCEPT ![s] = Asking("closed")]
  BY DEF Close
<1>4. Unasked \in Known
  BY DEF Unasked, Known
<1>5. since' \in [Surfaces -> Known] /\ since'[s] = Unasked /\ polls'[s] = <<>>
  BY <1>3, <1>4, <1>0
<1>6. \A t \in Surfaces \ {s} : ui'[t].shown = ui[t].shown /\ Wider(t)
  BY <1>3, <1>0, SinceKept
<1>7. Current(s)'
  BY <1>5 DEF Current, Unasked
<1>8. Heard(s)'
  BY <1>1, <1>5 DEF Heard
<1>9. Len(<<>>) <= MaxPolls[s]
  BY <1>1, <1>2
<1> QED
  BY <1>1, <1>3, <1>5, <1>6, <1>7, <1>8, <1>9, PollsAt

\* A refresh cancels the polls under way and begins another.
LEMMA RefreshedPolls ==
    ASSUME IInv, NEW s \in Surfaces, NEW js, Refreshed(s, js)
    PROVE  PollsOK' /\ Polling'
<1> DEFINE qs == [i \in DOMAIN polls[s] |-> [polls[s][i] EXCEPT !.live = FALSE]]
           ps == Append(qs, NewPoll)
<1>0. /\ polls \in [Surfaces -> Seq(Poll)] /\ since \in [Surfaces -> Known]
      /\ \A t \in Surfaces : Len(polls[t]) <= MaxPolls[t]
      /\ ui \in [Surfaces -> UI]
  BY Parts DEF IInv, PollsOK, FormsOK
<1>1. polls[s] \in Seq(Poll) /\ Len(polls[s]) \in Nat /\ DOMAIN polls[s] = 1..Len(polls[s])
  BY <1>0
<1>2. \A i \in 1..Len(polls[s]) : polls[s][i] \in Poll
  BY <1>1
<1>3. \A i \in 1..Len(polls[s]) : [polls[s][i] EXCEPT !.live = FALSE] \in Poll
                                  /\ [polls[s][i] EXCEPT !.live = FALSE].live = FALSE
  BY <1>2 DEF Poll
<1>4. qs = [i \in 1..Len(polls[s]) |-> [polls[s][i] EXCEPT !.live = FALSE]]
  BY <1>1
<1>5. qs \in Seq(Poll) /\ Len(qs) = Len(polls[s]) /\ \A i \in 1..Len(qs) : qs[i].live = FALSE
  <2>1. qs \in [1..Len(polls[s]) -> Poll]
    BY <1>3, <1>4
  <2>2. qs \in Seq(Poll)
    BY <2>1, <1>1
  <2>3. Len(qs) = Len(polls[s])
    BY <2>1, <2>2, <1>1
  <2> QED
    BY <2>2, <2>3, <1>3, <1>4
<1>6. /\ polls' = [polls EXCEPT ![s] = ps]
      /\ since' = [Witness EXCEPT ![s] = [has |-> {disk' # None}, open |-> {open' # None}]]
      /\ ui' = [ui EXCEPT ![s] = [Asking("loading") EXCEPT !.settings = ui[s].settings]]
      /\ Len(polls[s]) < MaxPolls[s]
  BY <1>0 DEF Refreshed
<1> HIDE DEF qs
<1>7. /\ ps \in Seq(Poll) /\ Len(ps) = Len(qs) + 1 /\ DOMAIN ps = 1..(Len(qs) + 1)
      /\ ps[Len(qs) + 1] = NewPoll /\ \A i \in 1..Len(qs) : ps[i] = qs[i]
  BY <1>5, NewPollFacts
<1> HIDE DEF ps
<1>8. MaxPolls[s] \in Nat
  BY LimitsAssumption DEF LimitsAssumption
<1>9. Len(ps) <= MaxPolls[s]
  BY <1>1, <1>5, <1>6, <1>7, <1>8
<1>10. DOMAIN Witness = Surfaces /\ \A t \in Surfaces \ {s} : since'[t] = Witness[t]
  BY <1>6 DEF Witness
<1>11. since'[s] = [has |-> {disk' # None}, open |-> {open' # None}]
  BY <1>6, <1>10
<1>12. since'[s] \in Known /\ since'[s] # Unasked /\ Current(s)'
  BY <1>11, JustAsked
<1>13. \A t \in Surfaces \ {s} : ui'[t].shown = ui[t].shown /\ Wider(t)
  BY <1>0, <1>6, <1>10, SinceWitness
<1>14. since' \in [Surfaces -> Known]
  <2>1. \A t \in Surfaces : since'[t] \in Known
    BY <1>12, <1>13 DEF Wider
  <2>2. since' = [t \in Surfaces |-> since'[t]]
    BY <1>6, <1>10
  <2> QED
    BY <2>1, <2>2
<1>15. polls'[s] = ps /\ ui'[s].shown = "loading"
  BY <1>6, <1>0 DEF Asking
<1>16. \A i \in DOMAIN ps : ps[i].live => ps[i] = NewPoll /\ i = Len(qs) + 1
  BY <1>5, <1>7
<1>17. Heard(s)'
  BY <1>12, <1>15, <1>16, NewPollFacts DEF Heard, Unasked
<1> QED
  BY <1>6, <1>7, <1>9, <1>12, <1>13, <1>14, <1>17, PollsAt

-----------------------------------------------------------------------------
(* What a surface shows and what it asked                                    *)

\* A surface comes to say this of the vault and to show this screen and phrase.
UiAt(s, shown, screen, seed) ==
    /\ ui' \in [Surfaces -> UI]
    /\ \A t \in Surfaces \ {s} : ui'[t] = ui[t]
    /\ ui'[s].shown = shown /\ ui'[s].screen = screen /\ ui'[s].seed = seed

JobsAt(s, js) ==
    /\ js \in Seq(Job) /\ Len(js) <= MaxJobs[s]
    /\ jobs' \in [Surfaces -> Seq(Job)] /\ jobs'[s] = js
    /\ \A t \in Surfaces \ {s} : jobs'[t] = jobs[t]

LEMMA Typing ==
    ASSUME IInv, NEW s \in Surfaces
    PROVE  /\ ui \in [Surfaces -> UI] /\ ui[s] \in UI
           /\ jobs \in [Surfaces -> Seq(Job)] /\ jobs[s] \in Seq(Job)
           /\ Len(jobs[s]) <= MaxJobs[s] /\ Len(jobs[s]) \in Nat /\ MaxJobs[s] \in Nat
           /\ \A i \in DOMAIN jobs[s] : jobs[s][i] \in Job
           /\ disk \in Vault \cup {None} /\ open \in Seeds \cup {None} /\ owned \subseteq Seeds
<1>1. /\ ui \in [Surfaces -> UI] /\ jobs \in [Surfaces -> Seq(Job)]
      /\ \A t \in Surfaces : Len(jobs[t]) <= MaxJobs[t]
      /\ disk \in Vault \cup {None} /\ open \in Seeds \cup {None} /\ owned \subseteq Seeds
  BY Parts DEF IInv, FormsOK, WorkerOK
<1>2. MaxJobs[s] \in Nat
  BY LimitsAssumption DEF LimitsAssumption
<1>3. jobs[s] \in Seq(Job)
  BY <1>1
<1>4. Len(jobs[s]) \in Nat /\ \A i \in DOMAIN jobs[s] : jobs[s][i] \in Job
  BY <1>3
<1> QED
  BY <1>1, <1>2, <1>3, <1>4

LEMMA JobsFrom ==
    ASSUME IInv, NEW s \in Surfaces, NEW js \in Seq(Job), Len(js) <= MaxJobs[s],
           jobs' = [jobs EXCEPT ![s] = js]
    PROVE  JobsAt(s, js)
BY Typing DEF JobsAt

LEMMA JobsKept ==
    ASSUME IInv, NEW s \in Surfaces, jobs' = jobs
    PROVE  JobsAt(s, jobs[s])
BY Typing DEF JobsAt

LEMMA UiKept ==
    ASSUME IInv, NEW s \in Surfaces, ui' = ui
    PROVE  UiAt(s, ui[s].shown, ui[s].screen, ui[s].seed)
BY Typing DEF UiAt

LEMMA UiShows ==
    ASSUME IInv, NEW s \in Surfaces, NEW screen \in Screens, NEW seed \in Seeds \cup {None},
           ui' = Shows(s, screen, seed)
    PROVE  UiAt(s, ui[s].shown, screen, seed)
<1>1. ui \in [Surfaces -> UI] /\ ui[s] \in UI
  BY Typing
<1> DEFINE u == [ui[s] EXCEPT !.screen = screen]  v == [u EXCEPT !.seed = seed]
<1>2. u \in UI /\ u.shown = ui[s].shown /\ u.screen = screen
  BY <1>1 DEF UI
<1>3. v \in UI /\ v.shown = u.shown /\ v.screen = u.screen /\ v.seed = seed
  BY <1>2 DEF UI
<1>4. ui' = [ui EXCEPT ![s] = v]
  BY <1>1 DEF Shows
<1> HIDE DEF u, v
<1>5. ui' \in [Surfaces -> UI] /\ ui'[s] = v /\ \A t \in Surfaces \ {s} : ui'[t] = ui[t]
  BY <1>1, <1>3, <1>4
<1> QED
  BY <1>2, <1>3, <1>5 DEF UiAt

Shown == {"closed", "loading", "no-vault", "locked", "unlocked", "error"}

LEMMA UiAsking ==
    ASSUME IInv, NEW s \in Surfaces, NEW shown \in Shown, NEW settings \in BOOLEAN,
           ui' = [ui EXCEPT ![s] = [Asking(shown) EXCEPT !.settings = settings]]
    PROVE  UiAt(s, shown, Entry(shown), None)
<1>1. ui \in [Surfaces -> UI]
  BY Typing
<1> DEFINE u == Asking(shown)  v == [u EXCEPT !.settings = settings]
<1>2. Entry(shown) \in Screens
  BY DEF Entry, Screens, Onboarding
<1>3. u \in UI /\ u.shown = shown /\ u.screen = Entry(shown) /\ u.seed = None
  BY <1>2 DEF Asking, UI, Shown
<1>4. ui' = [ui EXCEPT ![s] = v]
  OBVIOUS
<1> HIDE DEF u
<1>5. v \in UI /\ v.shown = u.shown /\ v.screen = u.screen /\ v.seed = u.seed
  BY <1>3 DEF UI
<1> HIDE DEF v
<1>6. ui' \in [Surfaces -> UI] /\ ui'[s] = v /\ \A t \in Surfaces \ {s} : ui'[t] = ui[t]
  BY <1>1, <1>4, <1>5
<1> QED
  BY <1>3, <1>5, <1>6 DEF UiAt

LEMMA BringsStill ==
    ASSUME NEW job, NEW o, NEW more, Brings(job, o), o \subseteq more
    PROVE  Brings(job, more)
BY DEF Brings

\* A step of one surface, from what becomes of that surface.
LEMMA FormsAt ==
    ASSUME IInv, NEW s \in Surfaces, NEW shown, NEW screen, NEW seed, NEW js,
           UiAt(s, shown, screen, seed), JobsAt(s, js), owned \subseteq owned',
           Mounted(s)', Holds(s)', \A i \in DOMAIN js : Brings(js[i], owned')
    PROVE  FormsOK' /\ Mounting' /\ Owning'
<1>1. FormsOK'
  <2>1. \A t \in Surfaces : Len(jobs[t]) <= MaxJobs[t]
    BY Parts DEF IInv, FormsOK
  <2> QED
    BY <2>1 DEF FormsOK, UiAt, JobsAt
<1>2. ASSUME NEW t \in Surfaces \ {s}
      PROVE  Mounted(t)' /\ Holds(t)' /\ \A i \in DOMAIN jobs'[t] : Brings(jobs'[t][i], owned')
  <2>1. ui'[t] = ui[t] /\ jobs'[t] = jobs[t]
    BY DEF UiAt, JobsAt
  <2>2. Mounted(t) /\ Holds(t) /\ \A i \in DOMAIN jobs[t] : Brings(jobs[t][i], owned)
    BY DEF IInv, Mounting, Owning
  <2>3. Mounted(t)'
    BY <2>1, <2>2 DEF Mounted, Waits
  <2>4. Holds(t)'
    BY <2>1, <2>2 DEF Holds, Seeds
  <2> QED
    BY <2>1, <2>2, <2>3, <2>4, BringsStill
<1>3. \A i \in DOMAIN jobs'[s] : Brings(jobs'[s][i], owned')
  BY DEF JobsAt
<1>4. Mounting'
  BY <1>2 DEF Mounting
<1>5. Owning'
  BY <1>2, <1>3 DEF Owning
<1> QED
  BY <1>1, <1>4, <1>5

Waiting == {"generating", "validating", "creating", "storing", "unlocking", "locking", "backup"}
Whats == {"generate", "validate", "store", "load", "lock", "export", "import"}

LEMMA WaitsFacts ==
    /\ DOMAIN Waits = {"choice", "generror", "input", "newpw", "imppw", "unlock", "main", "wallet"}
    /\ \A from \in DOMAIN Waits : Waits[from] \in Waiting /\ Waits[from] \in Screens
    /\ \A from \in DOMAIN Waits : Waits[from] \in {"creating", "storing"} => from \in {"newpw", "imppw"}
    /\ \A from \in DOMAIN Waits : from \in {"newpw", "imppw"} => Waits[from] \in {"creating", "storing"}
    /\ \A from \in DOMAIN Waits : from \in Screens /\ from \notin Waiting \cup {"blank", "display", "verify"}
BY DEF Waits, Waiting, Screens, Onboarding

\* A screen that waits for nothing has no request of a mounted screen beside it.
LEMMA NoneWait ==
    ASSUME IInv, NEW s \in Surfaces, ui[s].screen \notin Waiting
    PROVE  \A i \in DOMAIN jobs[s] : jobs[s][i].live # "mounted"
BY WaitsFacts DEF IInv, Mounting, Mounted

LEMMA UnmountedFacts ==
    ASSUME NEW js \in Seq(Job)
    PROVE  /\ Unmounted(js) \in Seq(Job) /\ Len(Unmounted(js)) = Len(js)
           /\ DOMAIN Unmounted(js) = DOMAIN js
           /\ \A i \in DOMAIN js :
                  /\ Unmounted(js)[i].live # "mounted" /\ Unmounted(js)[i].what = js[i].what
                  /\ Unmounted(js)[i].vault = js[i].vault /\ Unmounted(js)[i].checksum = js[i].checksum
<1> DEFINE ks == [i \in DOMAIN js |-> [js[i] EXCEPT !.live = IF @ = "closed" THEN @ ELSE "unmounted"]]
<1>1. Len(js) \in Nat /\ DOMAIN js = 1..Len(js) /\ \A i \in 1..Len(js) : js[i] \in Job
  OBVIOUS
<1>2. \A job \in Job : [job EXCEPT !.live = IF @ = "closed" THEN @ ELSE "unmounted"] \in Job
  BY DEF Job
<1>3. \A i \in 1..Len(js) : ks[i] \in Job
  BY <1>1, <1>2
<1>4. ks \in [1..Len(js) -> Job]
  BY <1>1, <1>3
<1>5. ks \in Seq(Job) /\ Len(ks) = Len(js) /\ DOMAIN ks = DOMAIN js
  BY <1>1, <1>4
<1>6. \A job \in Job :
          /\ [job EXCEPT !.live = IF @ = "closed" THEN @ ELSE "unmounted"].live # "mounted"
          /\ [job EXCEPT !.live = IF @ = "closed" THEN @ ELSE "unmounted"].what = job.what
          /\ [job EXCEPT !.live = IF @ = "closed" THEN @ ELSE "unmounted"].vault = job.vault
          /\ [job EXCEPT !.live = IF @ = "closed" THEN @ ELSE "unmounted"].checksum = job.checksum
  BY DEF Job
<1> QED
  BY <1>1, <1>5, <1>6 DEF Unmounted

\* What a request brings is in its question.
LEMMA BringsAlike ==
    ASSUME NEW o, NEW job, NEW other, Brings(job, o), other.what = job.what,
           other.vault = job.vault, other.checksum = job.checksum
    PROVE  Brings(other, o)
BY DEF Brings, decodeBackup

\* A mounted screen asks for something and waits for it.
LEMMA AskedForms ==
    ASSUME IInv, NEW s \in Surfaces, NEW what \in Whats, NEW from \in DOMAIN Waits,
           NEW question \in [vault : Asked, checksum : Asked], NEW seed \in Seeds \cup {None},
           Ask(s, what, from, Waits[from], question, seed), owned \subseteq owned',
           from \in {"newpw", "imppw"} => seed \in owned',
           Brings([what |-> what, from |-> from, live |-> "mounted",
                   vault |-> question.vault, checksum |-> question.checksum], owned')
    PROVE  FormsOK' /\ Mounting' /\ Owning'
<1> DEFINE job == [what |-> what, from |-> from, live |-> "mounted",
                   vault |-> question.vault, checksum |-> question.checksum]
           js == Append(jobs[s], job)
<1>1. /\ ui[s].screen = from /\ Len(jobs[s]) < MaxJobs[s]
      /\ jobs' = [jobs EXCEPT ![s] = js]
      /\ ui' = Shows(s, Waits[from], seed)
  BY Typing DEF Ask, On, Turn, Shows
<1>2. from \in Screens /\ Waits[from] \in Screens /\ from \notin Waiting /\ Waits[from] \in Waiting
  BY WaitsFacts
<1>3. UiAt(s, ui[s].shown, Waits[from], seed)
  BY <1>1, <1>2, UiShows
<1>4. job \in Job /\ job.from = from /\ job.live = "mounted"
  BY <1>2 DEF Job, Whats
<1>5. jobs[s] \in Seq(Job) /\ Len(jobs[s]) \in Nat /\ MaxJobs[s] \in Nat
  BY Typing
<1>6. Brings(job, owned')
  OBVIOUS
<1> HIDE DEF job
<1>7. /\ js \in Seq(Job) /\ Len(js) = Len(jobs[s]) + 1 /\ DOMAIN js = 1..(Len(jobs[s]) + 1)
      /\ DOMAIN jobs[s] = 1..Len(jobs[s])
      /\ js[Len(jobs[s]) + 1] = job /\ \A i \in 1..Len(jobs[s]) : js[i] = jobs[s][i]
  BY <1>4, <1>5
<1> HIDE DEF js
<1>8. Len(js) <= MaxJobs[s]
  BY <1>1, <1>5, <1>7
<1>9. JobsAt(s, js)
  BY <1>1, <1>7, <1>8, JobsFrom
<1>10. \A i \in 1..Len(jobs[s]) : jobs[s][i].live # "mounted"
  BY <1>1, <1>2, <1>7, NoneWait
<1>11. \A i \in DOMAIN js : js[i].live = "mounted" => i = Len(jobs[s]) + 1 /\ js[i] = job
  BY <1>5, <1>7, <1>10
<1>12. ui[s].shown \notin {"closed", "loading", "error"}
  BY <1>1, WaitsFacts DEF IInv, Mounting, Mounted
<1>13. jobs'[s] = js /\ ui'[s].shown = ui[s].shown /\ ui'[s].screen = Waits[from] /\ ui'[s].seed = seed
  BY <1>3, <1>9 DEF UiAt, JobsAt
<1>14. Mounted(s)'
  BY <1>4, <1>11, <1>12, <1>13 DEF Mounted, Waits
<1>15. Holds(s)'
  BY <1>13, <1>2, WaitsFacts DEF Holds, Waiting
<1>16. ASSUME NEW i \in DOMAIN js
       PROVE  Brings(js[i], owned')
  <2>1. CASE i = Len(jobs[s]) + 1
    BY <2>1, <1>6, <1>7
  <2>2. CASE i # Len(jobs[s]) + 1
    <3>1. i \in 1..Len(jobs[s]) /\ js[i] = jobs[s][i]
      BY <2>2, <1>5, <1>7
    <3>2. Brings(jobs[s][i], owned)
      BY <3>1, <1>7 DEF IInv, Owning
    <3> QED
      BY <3>1, <3>2, BringsStill
  <2> QED
    BY <2>1, <2>2
<1> QED
  BY <1>3, <1>9, <1>14, <1>15, <1>16, FormsAt

\* A screen gives way to one that waits for nothing.
LEMMA GivenWayForms ==
    ASSUME IInv, NEW s \in Surfaces, NEW shown, NEW screen, NEW seed,
           UiAt(s, shown, screen, seed), owned \subseteq owned',
           shown \in {"closed", "loading", "error"} => screen = "blank",
           screen \in {"display", "verify"} => seed \in Seeds,
           screen \in {"newpw", "creating", "imppw", "storing"} => seed \in owned',
           \/ jobs' = jobs /\ ui[s].screen \notin Waiting
           \/ jobs' = [jobs EXCEPT ![s] = Unmounted(jobs[s])]
    PROVE  FormsOK' /\ Mounting' /\ Owning'
<1> DEFINE js == IF jobs' = jobs THEN jobs[s] ELSE Unmounted(jobs[s])
<1>1. jobs[s] \in Seq(Job) /\ Len(jobs[s]) <= MaxJobs[s]
  BY Typing
<1>2. /\ Unmounted(jobs[s]) \in Seq(Job) /\ Len(Unmounted(jobs[s])) = Len(jobs[s])
      /\ DOMAIN Unmounted(jobs[s]) = DOMAIN jobs[s]
      /\ \A i \in DOMAIN jobs[s] :
             /\ Unmounted(jobs[s])[i].live # "mounted" /\ Unmounted(jobs[s])[i].what = jobs[s][i].what
             /\ Unmounted(jobs[s])[i].vault = jobs[s][i].vault
             /\ Unmounted(jobs[s])[i].checksum = jobs[s][i].checksum
  BY <1>1, UnmountedFacts
<1>3. JobsAt(s, js)
  <2>1. CASE jobs' = jobs
    BY <2>1, JobsKept
  <2>2. CASE jobs' # jobs
    BY <2>2, <1>1, <1>2, JobsFrom
  <2> QED
    BY <2>1, <2>2
<1>4. ASSUME NEW i \in DOMAIN js
      PROVE  js[i].live # "mounted" /\ Brings(js[i], owned')
  <2>1. CASE js = Unmounted(jobs[s])
    <3>1. i \in DOMAIN jobs[s] /\ Brings(jobs[s][i], owned)
      BY <2>1, <1>2, <1>4 DEF IInv, Owning
    <3>2. Brings(jobs[s][i], owned')
      BY <3>1, BringsStill
    <3>3. Brings(Unmounted(jobs[s])[i], owned')
      BY <3>1, <3>2, <1>2, BringsAlike
    <3> QED
      BY <2>1, <3>1, <3>3, <1>2
  <2>2. CASE js = jobs[s] /\ ui[s].screen \notin Waiting
    <3>1. Brings(jobs[s][i], owned)
      BY <2>2, <1>4 DEF IInv, Owning
    <3> QED
      BY <2>2, <3>1, <1>4, NoneWait, BringsStill
  <2>3. CASE js = jobs[s] /\ ui[s].screen \in Waiting
    <3>1. jobs' = [jobs EXCEPT ![s] = Unmounted(jobs[s])]
      BY <2>3
    <3>2. jobs'[s] = Unmounted(jobs[s])
      BY <3>1, Typing
    <3>3. js = Unmounted(jobs[s])
      BY <3>2, <1>3 DEF JobsAt
    <3> QED
      BY <3>3, <2>1
  <2> HIDE DEF js
  <2>4. js = jobs[s] \/ js = Unmounted(jobs[s])
    BY DEF js
  <2> QED
    BY <2>1, <2>2, <2>3, <2>4
<1> HIDE DEF js
<1>5. /\ jobs'[s] = js /\ ui'[s].shown = shown /\ ui'[s].screen = screen /\ ui'[s].seed = seed
  BY <1>3 DEF UiAt, JobsAt
<1>6. Mounted(s)'
  BY <1>4, <1>5 DEF Mounted
<1>7. Holds(s)'
  BY <1>5 DEF Holds, Seeds
<1> QED
  BY <1>3, <1>4, <1>6, <1>7, FormsAt

-----------------------------------------------------------------------------
(* What the user does in a surface                                           *)

FormsNext == FormsOK' /\ Mounting' /\ Owning'

LEMMA Questions ==
    /\ Blank \in [vault : Asked, checksum : Asked] /\ Blank.vault = Nothing /\ Blank.checksum = Nothing
    /\ \A seed \in Seeds \cup {None}, pw \in Passwords \cup {None} :
           /\ Holding(seed, pw) \in [vault : Asked, checksum : Asked]
           /\ Holding(seed, pw).vault = [seed |-> seed, pw |-> pw]
    /\ Strong \subseteq Passwords
<1>1. Nothing \in Asked
  BY DEF Nothing, Asked
<1>2. Blank \in [vault : Asked, checksum : Asked] /\ Blank.vault = Nothing /\ Blank.checksum = Nothing
  BY <1>1 DEF Blank, encodeBackup
<1>3. ASSUME NEW seed \in Seeds \cup {None}, NEW pw \in Passwords \cup {None}
      PROVE  /\ Holding(seed, pw) \in [vault : Asked, checksum : Asked]
             /\ Holding(seed, pw).vault = [seed |-> seed, pw |-> pw]
  <2>1. Holding(seed, pw) = [vault |-> [seed |-> seed, pw |-> pw], checksum |-> Nothing]
    <3> DEFINE b == [vault |-> [seed |-> None, pw |-> None], checksum |-> Nothing]
               c == [b EXCEPT !.vault.seed = seed]
    <3>1. Blank = b
      BY DEF Blank, encodeBackup, Nothing
    <3>2. c = [vault |-> [seed |-> seed, pw |-> None], checksum |-> Nothing]
      OBVIOUS
    <3>3. [c EXCEPT !.vault.pw = pw] = [vault |-> [seed |-> seed, pw |-> pw], checksum |-> Nothing]
      <4> HIDE DEF c
      <4> QED
        BY <3>2
    <3>4. [b EXCEPT !.vault.seed = seed, !.vault.pw = pw] = [c EXCEPT !.vault.pw = pw]
      OBVIOUS
    <3> QED
      BY <3>1, <3>3, <3>4 DEF Holding
  <2>2. [seed |-> seed, pw |-> pw] \in Asked
    BY DEF Asked
  <2> QED
    BY <2>1, <2>2, <1>1
<1> QED
  BY <1>2, <1>3, FirstsAssumption DEF FirstsAssumption

\* What is asked of no vault and stores none.
LEMMA BringsNothing ==
    ASSUME NEW o, NEW job, job.what \in {"generate", "load", "lock", "export"}
    PROVE  Brings(job, o)
BY DEF Brings

LEMMA PlainAsk ==
    ASSUME IInv, NEW s \in Surfaces, NEW what \in {"generate", "load", "lock", "export"},
           NEW from \in {"choice", "generror", "unlock", "main", "wallet"}, NEW to, to = Waits[from],
           NEW question \in [vault : Asked, checksum : Asked],
           Ask(s, what, from, to, question, None), UNCHANGED owned
    PROVE  FormsNext
<1>1. from \in DOMAIN Waits /\ what \in Whats /\ None \in Seeds \cup {None}
  BY WaitsFacts DEF Whats
<1> DEFINE job == [what |-> what, from |-> from, live |-> "mounted",
                   vault |-> question.vault, checksum |-> question.checksum]
<1>2. Brings(job, owned')
  <2>1. job.what = what
    OBVIOUS
  <2> HIDE DEF job
  <2> QED
    BY <2>1, BringsNothing
<1>3. Ask(s, what, from, Waits[from], question, None)
  OBVIOUS
<1> QED
  BY <1>1, <1>2, <1>3, AskedForms DEF FormsNext

LEMMA ValidateForms ==
    ASSUME IInv, NEW s \in Surfaces, NEW t \in Typed, Validate(s, t)
    PROVE  FormsNext /\ owned' \subseteq Seeds
<1> DEFINE seed == Kept[t]  question == Holding(seed, None)
           job == [what |-> "validate", from |-> "input", live |-> "mounted",
                   vault |-> question.vault, checksum |-> question.checksum]
<1>1. seed \in Seeds /\ None \in Passwords \cup {None}
  BY PhrasesAssumption DEF PhrasesAssumption, Seeds
<1> HIDE DEF seed
<1>2. question \in [vault : Asked, checksum : Asked] /\ question.vault = [seed |-> seed, pw |-> None]
  BY <1>1, Questions
<1> HIDE DEF question
<1>3. /\ Ask(s, "validate", "input", "validating", question, seed)
      /\ owned' = owned \cup (Valid \cap {seed})
  BY DEF Validate, Entered, seed, question
<1>4. job.what = "validate" /\ job.vault = question.vault
  OBVIOUS
<1> HIDE DEF job
<1>5. Brings(job, owned')
  <2>1. job.vault.seed = seed
    BY <1>2, <1>4
  <2>2. seed \in Valid => seed \in owned'
    BY <1>3
  <2> QED
    BY <2>1, <2>2, <1>4 DEF Brings
<1>6. "input" \in DOMAIN Waits /\ Waits["input"] = "validating" /\ "validate" \in Whats
  BY DEF Waits, Whats
<1>7. owned \subseteq owned' /\ owned' \subseteq Seeds
  BY <1>1, <1>3, Typing
<1>8. Ask(s, "validate", "input", Waits["input"], question, seed)
  BY <1>3, <1>6
<1>9. FormsNext
  BY <1>1, <1>2, <1>5, <1>6, <1>7, <1>8, AskedForms DEF FormsNext, job
<1> QED
  BY <1>7, <1>9

\* Both ways to a first vault ask for a phrase of the user's to be stored.
LEMMA StoreForms ==
    ASSUME IInv, NEW s \in Surfaces, NEW pw \in Strong,
           NEW from \in {"newpw", "imppw"}, NEW to, to = Waits[from],
           Ask(s, "store", from, to, Holding(ui[s].seed, pw), ui[s].seed), UNCHANGED owned
    PROVE  FormsNext
<1> DEFINE seed == ui[s].seed  question == Holding(seed, pw)
           job == [what |-> "store", from |-> from, live |-> "mounted",
                   vault |-> question.vault, checksum |-> question.checksum]
<1>1. seed \in owned /\ seed \in Seeds /\ pw \in Passwords
  <2>1. ui[s].screen = from
    BY DEF Ask, On
  <2> QED
    BY <2>1, Typing, Questions DEF IInv, Owning, Holds
<1>2. Ask(s, "store", from, Waits[from], question, seed)
  OBVIOUS
<1> HIDE DEF seed
<1>3. question \in [vault : Asked, checksum : Asked] /\ question.vault = [seed |-> seed, pw |-> pw]
  BY <1>1, Questions
<1> HIDE DEF question
<1>4. job.what = "store" /\ job.vault = question.vault
  OBVIOUS
<1> HIDE DEF job
<1>5. Brings(job, owned')
  <2>1. job.vault \in Vault /\ job.vault.seed = seed
    BY <1>1, <1>3, <1>4 DEF Vault
  <2> QED
    BY <2>1, <1>1, <1>4 DEF Brings
<1>6. from \in DOMAIN Waits /\ "store" \in Whats
  BY WaitsFacts DEF Whats
<1> QED
  BY <1>1, <1>2, <1>3, <1>5, <1>6, AskedForms DEF FormsNext, job

\* What is pasted is intact, or its checksum tells that it is not.
LEMMA RestoreForms ==
    ASSUME IInv, NEW s \in Surfaces, NEW v \in Vault, Restore(s, v)
    PROVE  FormsNext
<1>1. PICK pasted \in {encodeBackup(v), Altered(encodeBackup(v))} :
           Ask(s, "import", "wallet", "backup", pasted, None)
  BY DEF Restore
<1>2. UNCHANGED owned /\ v.seed \in owned /\ owned \subseteq Seeds /\ Damaged \notin Seeds
  BY Typing, PhrasesAssumption DEF Restore, PhrasesAssumption
<1> DEFINE w == [v EXCEPT !.seed = Damaged]
<1>3. v \in Asked /\ w \in Asked /\ w.seed = Damaged
  <2>1. Strong \subseteq Passwords
    BY Questions
  <2> QED
    BY <2>1 DEF Vault, Asked
<1>4. /\ encodeBackup(v) = [vault |-> v, checksum |-> v]
      /\ Altered(encodeBackup(v)) = [vault |-> w, checksum |-> v]
  BY DEF encodeBackup, Altered
<1> HIDE DEF w
<1>5. /\ pasted \in [vault : Asked, checksum : Asked] /\ pasted.checksum = v
      /\ pasted.vault = v \/ pasted.vault = w
  BY <1>1, <1>3, <1>4
<1> DEFINE job == [what |-> "import", from |-> "wallet", live |-> "mounted",
                   vault |-> pasted.vault, checksum |-> pasted.checksum]
<1>6. job.what = "import" /\ job.vault = pasted.vault /\ job.checksum = pasted.checksum
  OBVIOUS
<1> HIDE DEF job
<1>7. Brings(job, owned')
  <2>1. decodeBackup(job) => job.vault = v
    BY <1>5, <1>6 DEF decodeBackup
  <2> QED
    BY <2>1, <1>2, <1>6 DEF Brings
<1>8. "wallet" \in DOMAIN Waits /\ Waits["wallet"] = "backup" /\ "import" \in Whats
  BY DEF Waits, Whats
<1>9. Ask(s, "import", "wallet", Waits["wallet"], pasted, None)
  BY <1>1, <1>8
<1> QED
  BY <1>2, <1>5, <1>7, <1>8, <1>9, AskedForms DEF FormsNext, job

\* A screen is left for one of the same component, or of another.
LEMMA MoveForms ==
    ASSUME IInv, NEW s \in Surfaces, Continue(s) \/ Import(s)
    PROVE  FormsNext
<1>1. PICK from \in {"display", "choice"}, to \in {"verify", "input"} :
          Move(s, from, to) /\ (to = "verify" => from = "display")
  BY DEF Continue, Import
<1>2. /\ ui' = Shows(s, to, ui[s].seed) /\ ui[s].screen = from /\ jobs' = jobs /\ owned' = owned
  BY <1>1 DEF Move, Turn, On, Shows
<1>3. to \in Screens /\ ui[s].seed \in Seeds \cup {None} /\ from \notin Waiting
  BY Typing DEF Screens, Onboarding, UI, Waiting
<1>4. UiAt(s, ui[s].shown, to, ui[s].seed)
  BY <1>2, <1>3, UiShows
<1>5. ui[s].shown \notin {"closed", "loading", "error"}
  BY <1>2 DEF IInv, Mounting, Mounted
<1>6. to = "verify" => ui[s].seed \in Seeds
  BY <1>1, <1>2 DEF IInv, Owning, Holds
<1> QED
  BY <1>2, <1>3, <1>4, <1>5, <1>6, GivenWayForms DEF FormsNext

LEMMA VerifyForms ==
    ASSUME IInv, NEW s \in Surfaces, Verify(s)
    PROVE  FormsNext /\ owned' \subseteq Seeds
<1>1. /\ ui' = Shows(s, "newpw", ui[s].seed) /\ ui[s].screen = "verify"
      /\ jobs' = jobs /\ owned' = owned \cup {ui[s].seed}
  BY DEF Verify, Turn, On, Shows
<1>2. ui[s].seed \in Seeds
  BY <1>1 DEF IInv, Owning, Holds
<1>3. "newpw" \in Screens /\ "verify" \notin Waiting
  BY DEF Screens, Onboarding, Waiting
<1>4. UiAt(s, ui[s].shown, "newpw", ui[s].seed)
  BY <1>1, <1>2, <1>3, UiShows
<1>5. ui[s].shown \notin {"closed", "loading", "error"}
  BY <1>1 DEF IInv, Mounting, Mounted
<1>6. owned \subseteq owned' /\ owned' \subseteq Seeds /\ ui[s].seed \in owned'
  BY <1>1, <1>2, Typing
<1>7. FormsNext
  BY <1>1, <1>3, <1>4, <1>5, <1>6, GivenWayForms DEF FormsNext
<1> QED
  BY <1>6, <1>7

LEMMA LeaveForms ==
    ASSUME IInv, NEW s \in Surfaces, NEW from, NEW to \in {"choice", "main", "wallet"},
           "blank" \notin from, Leave(s, from, to)
    PROVE  FormsNext
<1>1. /\ ui' = Shows(s, to, None) /\ ui[s].screen \in from
      /\ jobs' = [jobs EXCEPT ![s] = Unmounted(jobs[s])] /\ owned' = owned
  BY Typing DEF Leave, Turn, On, Shows
<1>2. to \in Screens
  BY DEF Screens, Onboarding
<1>3. UiAt(s, ui[s].shown, to, None)
  BY <1>1, <1>2, UiShows
<1>4. ui[s].shown \notin {"closed", "loading", "error"}
  BY <1>1 DEF IInv, Mounting, Mounted
<1> QED
  BY <1>1, <1>3, <1>4, GivenWayForms DEF FormsNext

LEMMA EntryFacts ==
    ASSUME NEW shown \in Shown
    PROVE  /\ Entry(shown) \in {"choice", "unlock", "main", "blank"}
           /\ shown \in {"closed", "loading", "error"} => Entry(shown) = "blank"
BY DEF Entry, Shown

LEMMA OpenSettingsForms ==
    ASSUME IInv, NEW s \in Surfaces, OpenSettings(s)
    PROVE  FormsNext
<1>1. /\ ui' = [ui EXCEPT ![s] = [Asking(ui[s].shown) EXCEPT !.settings = TRUE]]
      /\ jobs' = [jobs EXCEPT ![s] = Unmounted(jobs[s])] /\ owned' = owned
  BY Typing DEF OpenSettings
<1>2. ui[s].shown \in Shown
  BY Typing DEF UI, Shown
<1>3. UiAt(s, ui[s].shown, Entry(ui[s].shown), None)
  BY <1>1, <1>2, UiAsking
<1> QED
  BY <1>1, <1>2, <1>3, EntryFacts, GivenWayForms DEF FormsNext

LEMMA CloseSettingsForms ==
    ASSUME IInv, NEW s \in Surfaces, CloseSettings(s)
    PROVE  FormsNext
<1>1. ui' = [ui EXCEPT ![s].settings = FALSE] /\ jobs' = jobs /\ owned' = owned
  BY DEF CloseSettings
<1>2. ui \in [Surfaces -> UI] /\ ui[s] \in UI
  BY Typing
<1> DEFINE u == [ui[s] EXCEPT !.settings = FALSE]
<1>3. u \in UI /\ u.shown = ui[s].shown /\ u.screen = ui[s].screen /\ u.seed = ui[s].seed
  BY <1>2 DEF UI
<1>4. ui' = [ui EXCEPT ![s] = u]
  BY <1>1, <1>2
<1> HIDE DEF u
<1>5. UiAt(s, ui[s].shown, ui[s].screen, ui[s].seed)
  BY <1>2, <1>3, <1>4 DEF UiAt
<1>6. JobsAt(s, jobs[s])
  BY <1>1, JobsKept
<1>7. Mounted(s) /\ Holds(s) /\ \A i \in DOMAIN jobs[s] : Brings(jobs[s][i], owned)
  BY DEF IInv, Mounting, Owning
<1>8. Mounted(s)'
  BY <1>1, <1>5, <1>7 DEF Mounted, UiAt, Waits
<1>9. Holds(s)'
  BY <1>1, <1>5, <1>7 DEF Holds, UiAt, Seeds
<1> QED
  BY <1>1, <1>5, <1>6, <1>7, <1>8, <1>9, FormsAt DEF FormsNext

\* Nothing of what is asked for is of a mounted screen any more.
LEMMA QuietForms ==
    ASSUME IInv, NEW s \in Surfaces, NEW shown, NEW screen, NEW seed, NEW js,
           UiAt(s, shown, screen, seed), JobsAt(s, js), UNCHANGED owned,
           shown \in {"closed", "loading", "error"} => screen = "blank",
           screen \in {"display", "verify"} => seed \in Seeds,
           screen \in {"newpw", "creating", "imppw", "storing"} => seed \in owned,
           \A i \in DOMAIN js : js[i].live # "mounted" /\ Brings(js[i], owned)
    PROVE  FormsNext
<1>1. /\ jobs'[s] = js /\ ui'[s].shown = shown /\ ui'[s].screen = screen /\ ui'[s].seed = seed
  BY DEF UiAt, JobsAt
<1>2. Mounted(s)'
  BY <1>1 DEF Mounted
<1>3. Holds(s)'
  BY <1>1 DEF Holds, Seeds
<1> QED
  BY <1>2, <1>3, FormsAt DEF FormsNext

LEMMA UiAskingPlain ==
    ASSUME IInv, NEW s \in Surfaces, NEW shown \in Shown, ui' = [ui EXCEPT ![s] = Asking(shown)]
    PROVE  UiAt(s, shown, Entry(shown), None)
<1> DEFINE u == Asking(shown)
<1>1. ui \in [Surfaces -> UI]
  BY Typing
<1>2. Entry(shown) \in Screens
  BY DEF Entry, Screens, Onboarding
<1>3. u \in UI /\ u.shown = shown /\ u.screen = Entry(shown) /\ u.seed = None
  BY <1>2 DEF Asking, UI, Shown
<1> HIDE DEF u
<1>4. ui' \in [Surfaces -> UI] /\ ui'[s] = u /\ \A t \in Surfaces \ {s} : ui'[t] = ui[t]
  <2>1. ui' = [ui EXCEPT ![s] = u]
    BY DEF u
  <2> QED
    BY <2>1, <1>1, <1>3
<1> QED
  BY <1>3, <1>4 DEF UiAt

LEMMA CloseForms ==
    ASSUME IInv, NEW s \in Surfaces, Close(s)
    PROVE  FormsNext
<1> DEFINE js == [i \in DOMAIN jobs[s] |-> [jobs[s][i] EXCEPT !.live = "closed"]]
<1>1. /\ ui' = [ui EXCEPT ![s] = Asking("closed")] /\ jobs' = [jobs EXCEPT ![s] = js]
      /\ UNCHANGED owned
  BY Typing DEF Close
<1>2. "closed" \in Shown /\ Entry("closed") = "blank"
  BY DEF Shown, Entry
<1>3. UiAt(s, "closed", "blank", None)
  BY <1>1, <1>2, UiAskingPlain
<1>4. /\ jobs[s] \in Seq(Job) /\ Len(jobs[s]) \in Nat /\ DOMAIN jobs[s] = 1..Len(jobs[s])
      /\ Len(jobs[s]) <= MaxJobs[s] /\ \A i \in 1..Len(jobs[s]) : jobs[s][i] \in Job
  <2>1. jobs[s] \in Seq(Job) /\ Len(jobs[s]) <= MaxJobs[s]
    BY Typing
  <2> QED
    BY <2>1
<1>5. \A job \in Job : /\ [job EXCEPT !.live = "closed"] \in Job
                       /\ [job EXCEPT !.live = "closed"].live = "closed"
                       /\ [job EXCEPT !.live = "closed"].what = job.what
                       /\ [job EXCEPT !.live = "closed"].vault = job.vault
                       /\ [job EXCEPT !.live = "closed"].checksum = job.checksum
  BY DEF Job
<1>6. \A i \in 1..Len(jobs[s]) :
          /\ js[i] \in Job /\ js[i].live # "mounted" /\ js[i].what = jobs[s][i].what
          /\ js[i].vault = jobs[s][i].vault /\ js[i].checksum = jobs[s][i].checksum
  BY <1>4, <1>5
<1>7. js \in [1..Len(jobs[s]) -> Job]
  BY <1>4, <1>6
<1> HIDE DEF js
<1>8. js \in Seq(Job) /\ Len(js) = Len(jobs[s]) /\ DOMAIN js = 1..Len(jobs[s])
  BY <1>4, <1>7
<1>9. JobsAt(s, js)
  BY <1>1, <1>4, <1>8, JobsFrom
<1>10. ASSUME NEW i \in DOMAIN js
       PROVE  js[i].live # "mounted" /\ Brings(js[i], owned)
  <2>1. i \in DOMAIN jobs[s] /\ Brings(jobs[s][i], owned)
    BY <1>4, <1>8, <1>10 DEF IInv, Owning
  <2>2. Brings(js[i], owned)
    BY <2>1, <1>4, <1>6, BringsAlike
  <2> QED
    BY <2>1, <2>2, <1>4, <1>6
<1> QED
  BY <1>1, <1>3, <1>9, <1>10, QuietForms

LEMMA OpenForms ==
    ASSUME IInv, NEW s \in Surfaces, Open(s)
    PROVE  FormsNext
<1>1. ui' = [ui EXCEPT ![s] = Asking("loading")] /\ jobs' = jobs /\ owned' = owned
      /\ ui[s].shown = "closed"
  BY DEF Open
<1>2. "loading" \in Shown /\ Entry("loading") = "blank"
  BY DEF Shown, Entry
<1>3. UiAt(s, "loading", "blank", None)
  BY <1>1, <1>2, UiAskingPlain
<1>4. ui[s].screen \notin Waiting
  BY <1>1 DEF IInv, Mounting, Mounted, Waiting
<1> QED
  BY <1>1, <1>3, <1>4, GivenWayForms DEF FormsNext

LEMMA KeptForms ==
    ASSUME IInv, UNCHANGED <<ui, jobs, owned>>
    PROVE  FormsNext
BY Parts DEF IInv, FormsNext, FormsOK, Mounting, Mounted, Owning, Holds, Seeds, Waits

LEMMA LearnForms ==
    ASSUME IInv, NEW s \in Surfaces, NEW i \in DOMAIN polls[s],
           NEW shown \in {"no-vault", "locked", "unlocked", "error"}, Learn(s, i, shown)
    PROVE  FormsNext
<1>1. jobs' = jobs /\ owned' = owned
  BY DEF Learn
<1>2. CASE polls[s][i].live
  <2>1. ui' = [ui EXCEPT ![s] = [Asking(shown) EXCEPT !.settings = ui[s].settings]]
    BY <1>2 DEF Learn
  <2>2. shown \in Shown /\ ui[s].settings \in BOOLEAN
    BY Typing DEF Shown, UI
  <2>3. UiAt(s, shown, Entry(shown), None)
    BY <2>1, <2>2, UiAsking
  <2>4. ui[s].shown = "loading"
    BY <1>2 DEF IInv, Polling, Heard
  <2>5. ui[s].screen \notin Waiting
    BY <2>4 DEF IInv, Mounting, Mounted, Waiting
  <2> QED
    BY <1>1, <2>2, <2>3, <2>5, EntryFacts, GivenWayForms DEF FormsNext
<1>3. CASE ~polls[s][i].live
  <2>1. ui' = ui
    BY <1>3 DEF Learn
  <2> QED
    BY <1>1, <2>1, KeptForms
<1> QED
  BY <1>2, <1>3

-----------------------------------------------------------------------------
(* What the service worker answers                                           *)

\* What it stores or opens is the user's.
LEMMA EffectOwns ==
    ASSUME IInv, NEW s \in Surfaces, NEW i \in DOMAIN jobs[s], NEW seed,
           Accepted(jobs[s][i]), Effect(jobs[s][i], seed), UNCHANGED owned
    PROVE  WorkerOK' /\ WalletIsUsersOwn'
<1> DEFINE job == jobs[s][i]
<1>1. Brings(job, owned)
  BY DEF IInv, Owning
<1>2. /\ job.what = "import" => decodeBackup(job)
      /\ job.what = "load" => disk # None /\ disk.seed # Damaged
      /\ disk' = IF job.what \in {"store", "import"} THEN job.vault ELSE disk
      /\ open' = CASE job.what = "load" -> disk.seed [] job.what = "lock" -> None [] OTHER -> open
  BY DEF Accepted, Effect, Opens
<1> HIDE DEF job
<1>3. /\ disk \in Vault \cup {None} /\ open \in Seeds \cup {None} /\ owned \subseteq Seeds
      /\ disk # None => disk.seed \in owned
      /\ open # None => open \in owned
  BY Typing DEF IInv, WalletIsUsersOwn
<1>4. disk' \in Vault \cup {None} /\ (disk' # None => disk'.seed \in owned)
  <2>1. CASE job.what \in {"store", "import"}
    <3>1. disk' = job.vault
      BY <2>1, <1>2
    <3>2. job.vault \in Vault /\ job.vault.seed \in owned
      BY <2>1, <1>1, <1>2 DEF Brings
    <3> QED
      BY <3>1, <3>2
  <2>2. CASE job.what \notin {"store", "import"}
    <3>1. disk' = disk
      BY <2>2, <1>2
    <3> QED
      BY <3>1, <1>3
  <2> QED
    BY <2>1, <2>2
<1>5. open' \in Seeds \cup {None} /\ (open' # None => open' \in owned)
  <2>1. CASE job.what = "load"
    BY <2>1, <1>2, <1>3
  <2>2. CASE job.what # "load"
    <3>1. open' = open \/ open' = None
      BY <2>2, <1>2
    <3> QED
      BY <3>1, <1>3
  <2> QED
    BY <2>1, <2>2
<1> QED
  BY <1>3, <1>4, <1>5 DEF WorkerOK, WalletIsUsersOwn, Vault, Seeds

\* The requests that are left when one is answered.
Left(s, i, js) ==
    /\ js \in Seq(Job) /\ Len(js) <= MaxJobs[s]
    /\ \A k \in DOMAIN js :
           /\ Brings(js[k], owned)
           /\ js[k].live = "mounted" =>
                  /\ jobs[s][i].live # "mounted"
                  /\ js[k].from \in DOMAIN Waits /\ ui[s].screen = Waits[js[k].from]
                  /\ \A l \in DOMAIN js : js[l].live = "mounted" => l = k

LEMMA Others ==
    ASSUME IInv, NEW s \in Surfaces, NEW i \in DOMAIN jobs[s], NEW js, js = RemoveAt(jobs[s], i)
    PROVE  Left(s, i, js)
<1>1. /\ jobs[s] \in Seq(Job) /\ Len(jobs[s]) <= MaxJobs[s]
      /\ Len(jobs[s]) \in Nat /\ MaxJobs[s] \in Nat
  BY Typing
<1>2. i \in Nat
  BY <1>1
<1>3. /\ js \in Seq(Job) /\ Len(js) = Len(jobs[s]) - 1 /\ DOMAIN js \subseteq Nat
      /\ \A k \in DOMAIN js : Source(i, k) \in DOMAIN jobs[s] \ {i} /\ js[k] = jobs[s][Source(i, k)]
  BY ONLY <1>1, Removed, i \in DOMAIN jobs[s], js = RemoveAt(jobs[s], i)
<1>4. Len(js) <= MaxJobs[s]
  BY <1>1, <1>3
<1>5. \A j \in DOMAIN jobs[s] :
          /\ Brings(jobs[s][j], owned)
          /\ jobs[s][j].live = "mounted" =>
                 /\ jobs[s][j].from \in DOMAIN Waits /\ ui[s].screen = Waits[jobs[s][j].from]
                 /\ \A k \in DOMAIN jobs[s] : jobs[s][k].live = "mounted" => k = j
  BY DEF IInv, Mounting, Mounted, Owning
<1>6. ASSUME NEW k \in DOMAIN js, js[k].live = "mounted"
      PROVE  /\ jobs[s][i].live # "mounted"
             /\ js[k].from \in DOMAIN Waits /\ ui[s].screen = Waits[js[k].from]
             /\ \A l \in DOMAIN js : js[l].live = "mounted" => l = k
  <2>1. Source(i, k) \in DOMAIN jobs[s] \ {i} /\ js[k] = jobs[s][Source(i, k)]
    BY <1>3
  <2>2. \A j \in DOMAIN jobs[s] : jobs[s][j].live = "mounted" => j = Source(i, k)
    BY <2>1, <1>5, <1>6
  <2>3. ASSUME NEW l \in DOMAIN js, js[l].live = "mounted"
        PROVE  l = k
    <3>1. Source(i, l) = Source(i, k)
      BY <2>2, <2>3, <1>3
    <3> QED
      BY <3>1, <1>2, <1>3, SourceApart
  <2> QED
    BY <2>1, <2>2, <2>3, <1>5, <1>6
<1> QED
  BY <1>3, <1>4, <1>5, <1>6 DEF Left

\* Nobody shows the answer of a screen that is gone.
LEMMA DroppedForms ==
    ASSUME IInv, NEW s \in Surfaces, NEW i \in DOMAIN jobs[s], UNCHANGED <<ui, owned>>,
           jobs' = [jobs EXCEPT ![s] = RemoveAt(jobs[s], i)]
    PROVE  FormsNext
<1> DEFINE js == RemoveAt(jobs[s], i)
<1>1. jobs' = [jobs EXCEPT ![s] = js] /\ js = RemoveAt(jobs[s], i)
  OBVIOUS
<1> HIDE DEF js
<1>2. /\ js \in Seq(Job) /\ Len(js) <= MaxJobs[s]
      /\ \A k \in DOMAIN js :
             /\ Brings(js[k], owned)
             /\ js[k].live = "mounted" =>
                    /\ js[k].from \in DOMAIN Waits /\ ui[s].screen = Waits[js[k].from]
                    /\ \A l \in DOMAIN js : js[l].live = "mounted" => l = k
  <2>1. Left(s, i, js)
    BY <1>1, Others
  <2> QED
    BY <2>1 DEF Left
<1>3. JobsAt(s, js)
  BY <1>1, <1>2, JobsFrom
<1>4. UiAt(s, ui[s].shown, ui[s].screen, ui[s].seed)
  BY UiKept
<1>5. Mounted(s) /\ Holds(s)
  BY DEF IInv, Mounting, Owning
<1>6. Mounted(s)'
  BY <1>2, <1>3, <1>5 DEF Mounted, JobsAt, Waits
<1>7. Holds(s)'
  BY <1>5 DEF Holds, Seeds
<1> QED
  BY <1>2, <1>3, <1>4, <1>6, <1>7, FormsAt DEF FormsNext

\* A mounted screen shows the answer, and nothing else is asked of it.
LEMMA TakesForms ==
    ASSUME IInv, NEW s \in Surfaces, NEW i \in DOMAIN jobs[s], NEW screen, NEW seed,
           Takes(s, i, screen, seed),
           jobs[s][i].live = "mounted" =>
               /\ screen \in Screens /\ seed \in Seeds \cup {None}
               /\ screen \in {"display", "verify"} => seed \in Seeds
               /\ screen \in {"newpw", "creating", "imppw", "storing"} => seed \in owned
    PROVE  FormsNext
<1> DEFINE js == RemoveAt(jobs[s], i)
<1>1. /\ jobs' = [jobs EXCEPT ![s] = js] /\ js = RemoveAt(jobs[s], i)
      /\ UNCHANGED owned
  BY Typing DEF Takes
<1>2. CASE jobs[s][i].live # "mounted"
  <2>1. ui' = ui
    BY <1>2 DEF Takes
  <2> QED
    BY <2>1, <1>1, DroppedForms
<1> HIDE DEF js
<1>3. CASE jobs[s][i].live = "mounted"
  <2>1. ui' = Shows(s, screen, seed)
    BY <1>3 DEF Takes
  <2>2. UiAt(s, ui[s].shown, screen, seed)
    BY <1>3, <2>1, UiShows
  <2>3. /\ js \in Seq(Job) /\ Len(js) <= MaxJobs[s]
        /\ \A k \in DOMAIN js : Brings(js[k], owned) /\ js[k].live # "mounted"
    <3>1. Left(s, i, js)
      BY <1>1, Others
    <3> QED
      BY <3>1, <1>3 DEF Left
  <2>4. JobsAt(s, js)
    BY <1>1, <2>3, JobsFrom
  <2>5. ui[s].shown \notin {"closed", "loading", "error"}
    <3>1. ui[s].screen \in Waiting
      BY <1>3, WaitsFacts DEF IInv, Mounting, Mounted
    <3> QED
      BY <3>1 DEF IInv, Mounting, Mounted, Waiting
  <2> QED
    BY <1>1, <1>3, <2>2, <2>3, <2>4, <2>5, QuietForms
<1> QED
  BY <1>2, <1>3

\* A store that was done is followed by a load of the same vault.
LEMMA StoredForms ==
    ASSUME IInv, NEW s \in Surfaces, NEW i \in DOMAIN jobs[s], Stored(s, i)
    PROVE  FormsNext
<1> DEFINE job == [jobs[s][i] EXCEPT !.what = "load"]  js == [jobs[s] EXCEPT ![i] = job]
<1>1. /\ jobs \in [Surfaces -> Seq(Job)] /\ jobs[s] \in Seq(Job) /\ Len(jobs[s]) <= MaxJobs[s]
      /\ jobs[s][i] \in Job
  BY Typing
<1>2. jobs' = [jobs EXCEPT ![s] = js] /\ UNCHANGED <<ui, owned>>
  BY <1>1 DEF Stored
<1>3. /\ job \in Job /\ job.what = "load" /\ job.live = jobs[s][i].live
      /\ job.from = jobs[s][i].from
  BY <1>1 DEF Job
<1> HIDE DEF job
<1>4. Brings(job, owned)
  BY <1>3, BringsNothing
<1>5. /\ js \in Seq(Job) /\ Len(js) = Len(jobs[s]) /\ DOMAIN js = DOMAIN jobs[s]
      /\ \A j \in DOMAIN js : js[j] = IF j = i THEN job ELSE jobs[s][j]
  BY <1>1, <1>3, ExceptSeq
<1> HIDE DEF js
<1>6. JobsAt(s, js)
  BY <1>1, <1>2, <1>5, JobsFrom
<1>7. UiAt(s, ui[s].shown, ui[s].screen, ui[s].seed)
  BY <1>2, UiKept
<1>8. Mounted(s) /\ Holds(s) /\ \A j \in DOMAIN jobs[s] : Brings(jobs[s][j], owned)
  BY DEF IInv, Mounting, Owning
<1>9. \A j \in DOMAIN js : js[j].live = jobs[s][j].live /\ js[j].from = jobs[s][j].from
  BY <1>3, <1>5
<1>10. Mounted(s)'
  <2>1. jobs'[s] = js
    BY <1>6 DEF JobsAt
  <2>2. SUFFICES ASSUME NEW j \in DOMAIN js, js[j].live = "mounted"
                 PROVE  /\ js[j].from \in DOMAIN Waits /\ ui[s].screen = Waits[js[j].from]
                        /\ \A k \in DOMAIN js : js[k].live = "mounted" => k = j
    BY <2>1, <1>2, <1>8 DEF Mounted, Waits
  <2> QED
    BY <2>2, <1>5, <1>8, <1>9 DEF Mounted
<1>11. Holds(s)'
  BY <1>2, <1>8 DEF Holds, Seeds
<1>12. \A j \in DOMAIN js : Brings(js[j], owned)
  BY <1>4, <1>5, <1>8
<1> QED
  BY <1>2, <1>6, <1>7, <1>10, <1>11, <1>12, FormsAt DEF FormsNext

\* After an unlock or a lock the surface begins anew.
LEMMA TurnedForms ==
    ASSUME IInv, NEW s \in Surfaces, NEW i \in DOMAIN jobs[s], Turned(s, i)
    PROVE  FormsNext
<1> DEFINE js == RemoveAt(jobs[s], i)
<1>1. /\ ui' = [ui EXCEPT ![s] = [Asking("loading") EXCEPT !.settings = ui[s].settings]]
      /\ jobs' = [jobs EXCEPT ![s] = Unmounted(js)] /\ js = RemoveAt(jobs[s], i)
      /\ UNCHANGED owned
  BY DEF Turned, Refreshed
<1> HIDE DEF js
<1>2. "loading" \in Shown /\ Entry("loading") = "blank" /\ ui[s].settings \in BOOLEAN
  BY Typing DEF Shown, Entry, UI
<1>3. UiAt(s, "loading", "blank", None)
  BY <1>1, <1>2, UiAsking
<1>4. js \in Seq(Job) /\ Len(js) <= MaxJobs[s] /\ \A k \in DOMAIN js : Brings(js[k], owned)
  <2>1. Left(s, i, js)
    BY <1>1, Others
  <2> QED
    BY <2>1 DEF Left
<1> DEFINE ks == Unmounted(js)
<1>5. /\ ks \in Seq(Job) /\ Len(ks) = Len(js) /\ DOMAIN ks = DOMAIN js
      /\ \A k \in DOMAIN js :
             /\ ks[k].live # "mounted" /\ ks[k].what = js[k].what
             /\ ks[k].vault = js[k].vault /\ ks[k].checksum = js[k].checksum
  BY <1>4, UnmountedFacts
<1>6. jobs' = [jobs EXCEPT ![s] = ks]
  BY <1>1
<1> HIDE DEF ks
<1>7. JobsAt(s, ks)
  BY <1>4, <1>5, <1>6, JobsFrom
<1>8. \A k \in DOMAIN ks : ks[k].live # "mounted" /\ Brings(ks[k], owned)
  BY <1>4, <1>5, BringsAlike
<1> QED
  BY <1>1, <1>3, <1>7, <1>8, QuietForms

-----------------------------------------------------------------------------
(* The steps                                                                 *)

PollsNext == PollsOK' /\ Polling'
WorkerNext == WorkerOK' /\ WalletIsUsersOwn'

LEMMA Whole ==
    ASSUME WorkerNext, FormsNext, PollsNext
    PROVE  IInv'
BY Parts DEF IInv, WorkerNext, FormsNext, PollsNext

LEMMA WorkerKept ==
    ASSUME IInv, UNCHANGED worker, owned \subseteq owned', owned' \subseteq Seeds
    PROVE  WorkerNext
BY Parts DEF IInv, WorkerNext, WorkerOK, WalletIsUsersOwn, worker, Vault, Seeds

LEMMA QuietPolls ==
    ASSUME IInv, UNCHANGED <<worker, polls, since>>, \A t \in Surfaces : ui'[t].shown = ui[t].shown
    PROVE  PollsNext
<1>1. since' \in [Surfaces -> Known]
  BY Parts DEF IInv, PollsOK
<1>2. \A t \in Surfaces : Wider(t)
  BY SinceKept
<1> QED
  BY <1>1, <1>2, PollsKept DEF PollsNext

LEMMA WitnessPolls ==
    ASSUME IInv, Witnessed, UNCHANGED polls, \A t \in Surfaces : ui'[t].shown = ui[t].shown
    PROVE  PollsNext
<1>1. \A t \in Surfaces : Wider(t)
  BY SinceWitness DEF Witnessed
<1>2. since' = [t \in Surfaces |-> since'[t]]
  BY DEF Witnessed, Witness
<1>3. since' \in [Surfaces -> Known]
  BY <1>1, <1>2 DEF Wider
<1> QED
  BY <1>1, <1>3, PollsKept DEF PollsNext

LEMMA ShowsShown ==
    ASSUME IInv, NEW s \in Surfaces, NEW screen, NEW seed, ui' = Shows(s, screen, seed)
    PROVE  \A t \in Surfaces : ui'[t].shown = ui[t].shown
<1>1. ui \in [Surfaces -> UI] /\ ui[s] \in UI
  BY Typing
<1> DEFINE u == [ui[s] EXCEPT !.screen = screen, !.seed = seed]
<1>2. u.shown = ui[s].shown
  BY <1>1 DEF UI
<1>3. ui' = [ui EXCEPT ![s] = u]
  BY <1>1 DEF Shows
<1> HIDE DEF u
<1> QED
  BY <1>1, <1>2, <1>3

LEMMA TurnStep ==
    ASSUME IInv, NEW s \in Surfaces, NEW screen, NEW seed, Turn(s, screen, seed),
           FormsNext, owned \subseteq owned', owned' \subseteq Seeds
    PROVE  IInv'
<1>1. ui' = Shows(s, screen, seed) /\ UNCHANGED <<worker, polls, since>>
  BY DEF Turn, Shows
<1>2. PollsNext
  BY <1>1, ShowsShown, QuietPolls
<1>3. WorkerNext
  BY <1>1, WorkerKept
<1> QED
  BY <1>2, <1>3, Whole

LEMMA AskStep ==
    ASSUME IInv, NEW s \in Surfaces, NEW what, NEW from, NEW to, NEW question, NEW seed,
           Ask(s, what, from, to, question, seed),
           FormsNext, owned \subseteq owned', owned' \subseteq Seeds
    PROVE  IInv'
BY TurnStep DEF Ask

LEMMA ActsStep ==
    ASSUME IInv, NEW s \in Surfaces, Acts(s)
    PROVE  IInv'
<1>0. owned \subseteq Seeds
  BY Typing
<1>1. ASSUME NEW pw \in Passwords, NEW confirm \in Passwords, SubmitNew(s, pw, confirm)
      PROVE  IInv'
  <2>1. /\ pw \in Strong /\ owned' = owned
        /\ Ask(s, "store", "newpw", "creating", Holding(ui[s].seed, pw), ui[s].seed)
    BY <1>1 DEF SubmitNew, Fits, evaluatePasswordStrength
  <2>2. "creating" = Waits["newpw"]
    BY DEF Waits
  <2>3. FormsNext
    BY <2>1, <2>2, StoreForms
  <2> QED
    BY <1>0, <2>1, <2>3, AskStep
<1>2. ASSUME NEW pw \in Passwords, NEW confirm \in Passwords, SubmitImport(s, pw, confirm)
      PROVE  IInv'
  <2>1. /\ pw \in Strong /\ owned' = owned
        /\ Ask(s, "store", "imppw", "storing", Holding(ui[s].seed, pw), ui[s].seed)
    BY <1>2 DEF SubmitImport, Fits, evaluatePasswordStrength
  <2>2. "storing" = Waits["imppw"]
    BY DEF Waits
  <2>3. FormsNext
    BY <2>1, <2>2, StoreForms
  <2> QED
    BY <1>0, <2>1, <2>3, AskStep
<1>3. ASSUME NEW pw \in Passwords, Unlock(s, pw)
      PROVE  IInv'
  <2>1. Ask(s, "load", "unlock", "unlocking", Holding(None, pw), None) /\ owned' = owned
    BY <1>3 DEF Unlock
  <2>2. "unlocking" = Waits["unlock"] /\ Holding(None, pw) \in [vault : Asked, checksum : Asked]
    BY Questions DEF Waits
  <2>3. FormsNext
    BY <2>1, <2>2, PlainAsk
  <2> QED
    BY <1>0, <2>1, <2>3, AskStep
<1>4. ASSUME NEW what \in {"generate", "lock", "export"},
             NEW from \in {"choice", "generror", "main", "wallet"}, NEW to, to = Waits[from],
             Ask(s, what, from, to, Blank, None), UNCHANGED owned
      PROVE  IInv'
  <2>1. FormsNext
    BY <1>4, Questions, PlainAsk
  <2> QED
    BY <1>0, <1>4, <2>1, AskStep
<1>5. Waits["choice"] = "generating" /\ Waits["generror"] = "generating"
      /\ Waits["main"] = "locking" /\ Waits["wallet"] = "backup"
  BY DEF Waits
<1>6. CASE Create(s)
  BY <1>4, <1>5, <1>6 DEF Create
<1>7. CASE Retry(s)
  BY <1>4, <1>5, <1>7 DEF Retry
<1>8. CASE Lock(s)
  BY <1>4, <1>5, <1>8 DEF Lock
<1>9. CASE Export(s)
  BY <1>4, <1>5, <1>9 DEF Export
<1>10. ASSUME NEW from, NEW to \in {"choice", "main", "wallet"}, "blank" \notin from, Leave(s, from, to)
       PROVE  IInv'
  <2>1. Turn(s, to, None) /\ owned' = owned
    BY <1>10 DEF Leave
  <2>2. FormsNext
    BY <1>10, LeaveForms
  <2> QED
    BY <1>0, <2>1, <2>2, TurnStep
<1>11. CASE BackFromPhrase(s)
  BY <1>10, <1>11 DEF BackFromPhrase
<1>12. CASE BackFromInput(s)
  BY <1>10, <1>12 DEF BackFromInput
<1>13. CASE BackToMain(s)
  BY <1>10, <1>13 DEF BackToMain
<1>14. CASE OpenWallet(s)
  BY <1>10, <1>14 DEF OpenWallet
<1>15. CASE Continue(s)
  <2>1. Turn(s, "verify", ui[s].seed) /\ owned' = owned
    BY <1>15 DEF Continue, Move
  <2> QED
    BY <1>0, <1>15, <2>1, MoveForms, TurnStep
<1>16. CASE Import(s)
  <2>1. Turn(s, "input", ui[s].seed) /\ owned' = owned
    BY <1>16 DEF Import, Move
  <2> QED
    BY <1>0, <1>16, <2>1, MoveForms, TurnStep
<1>17. CASE Verify(s)
  <2>1. Turn(s, "newpw", ui[s].seed) /\ owned \subseteq owned'
    BY <1>17 DEF Verify
  <2> QED
    BY <1>17, <2>1, VerifyForms, TurnStep
<1>18. ASSUME NEW t \in Typed, Validate(s, t)
       PROVE  IInv'
  <2>1. FormsNext /\ owned' \subseteq Seeds
    BY <1>18, ValidateForms
  <2>2. /\ Ask(s, "validate", "input", "validating", Holding(Entered(t), None), Entered(t))
        /\ owned \subseteq owned'
    BY <1>18 DEF Validate
  <2> QED
    BY <2>1, <2>2, AskStep
<1>19. ASSUME NEW v \in Vault, Restore(s, v)
       PROVE  IInv'
  <2>1. FormsNext
    BY <1>19, RestoreForms
  <2>2. PICK pasted \in {encodeBackup(v), Altered(encodeBackup(v))} :
            Ask(s, "import", "wallet", "backup", pasted, None) /\ owned' = owned
    BY <1>19 DEF Restore
  <2> QED
    BY <1>0, <2>1, <2>2, AskStep
<1>20. CASE OpenSettings(s)
  <2>1. ui' = [ui EXCEPT ![s] = [Asking(ui[s].shown) EXCEPT !.settings = TRUE]]
        /\ UNCHANGED <<worker, owned, polls, since>>
    BY <1>20, Typing DEF OpenSettings
  <2>2. \A t \in Surfaces : ui'[t].shown = ui[t].shown
    BY <2>1, Typing DEF Asking
  <2>3. PollsNext /\ WorkerNext
    BY <1>0, <2>1, <2>2, QuietPolls, WorkerKept
  <2> QED
    BY <1>20, <2>3, OpenSettingsForms, Whole
<1>21. CASE CloseSettings(s)
  <2>1. ui' = [ui EXCEPT ![s].settings = FALSE] /\ UNCHANGED <<worker, owned, polls, since>>
    BY <1>21 DEF CloseSettings
  <2>2. \A t \in Surfaces : ui'[t].shown = ui[t].shown
    BY <2>1, Typing DEF UI
  <2>3. PollsNext /\ WorkerNext
    BY <1>0, <2>1, <2>2, QuietPolls, WorkerKept
  <2> QED
    BY <1>21, <2>3, CloseSettingsForms, Whole
<1>22. CASE Open(s)
  <2>1. UNCHANGED <<worker, owned>>
    BY <1>22 DEF Open
  <2>2. PollsNext /\ WorkerNext
    BY <1>0, <1>22, <2>1, OpenPolls, WorkerKept DEF PollsNext
  <2> QED
    BY <1>22, <2>2, OpenForms, Whole
<1>23. CASE Close(s)
  <2>1. UNCHANGED <<worker, owned>>
    BY <1>23 DEF Close
  <2>2. PollsNext /\ WorkerNext
    BY <1>0, <1>23, <2>1, ClosePolls, WorkerKept DEF PollsNext
  <2> QED
    BY <1>23, <2>2, CloseForms, Whole
<1> QED
  BY <1>1, <1>2, <1>3, <1>6, <1>7, <1>8, <1>9, <1>11, <1>12, <1>13, <1>14, <1>15, <1>16,
     <1>17, <1>18, <1>19, <1>20, <1>21, <1>22, <1>23 DEF Acts

\* A request is answered to the screen that asked, or to nobody.
LEMMA TakesStep ==
    ASSUME IInv, NEW s \in Surfaces, NEW i \in DOMAIN jobs[s], NEW screen, NEW seed,
           Takes(s, i, screen, seed), WorkerNext,
           jobs[s][i].live = "mounted" =>
               /\ screen \in Screens /\ seed \in Seeds \cup {None}
               /\ screen \in {"display", "verify"} => seed \in Seeds
               /\ screen \in {"newpw", "creating", "imppw", "storing"} => seed \in owned
    PROVE  IInv'
<1>1. FormsNext
  BY TakesForms
<1>2. Witnessed /\ UNCHANGED polls /\ (ui' = ui \/ ui' = Shows(s, screen, seed))
  BY DEF Takes
<1>3. \A t \in Surfaces : ui'[t].shown = ui[t].shown
  BY <1>2, ShowsShown
<1>4. PollsNext
  BY <1>2, <1>3, WitnessPolls
<1> QED
  BY <1>1, <1>4, Whole

LEMMA AnswerStep ==
    ASSUME IInv, NEW s \in Surfaces, NEW i \in DOMAIN jobs[s], Answer(s, i)
    PROVE  IInv'
<1> DEFINE job == jobs[s][i]
<1>1. PICK seed \in Seeds \cup {Damaged, None} :
           /\ Effect(job, seed)
           /\ \/ Generated(s, i, seed) \/ Validated(s, i, seed)
              \/ Stored(s, i) \/ Turned(s, i) \/ BackedUp(s, i) \/ Unheard(s, i)
  BY DEF Answer
<1>2. Accepted(job) /\ owned' = owned
  BY <1>1 DEF Answer, Generated, Validated, Stored, Turned, BackedUp, Unheard, Takes
<1>3. WorkerNext
  BY <1>1, <1>2, EffectOwns DEF WorkerNext
<1>4. seed \in IF job.what = "generate" THEN Fresh ELSE {job.vault.seed}
  BY <1>1 DEF Effect
<1>5. Brings(job, owned)
  BY DEF IInv, Owning
<1> HIDE DEF job
<1>6. CASE Generated(s, i, seed)
  <2>1. job.what = "generate" /\ Takes(s, i, "display", seed)
    BY <1>6 DEF Generated, job
  <2>2. seed \in Seeds /\ "display" \in Screens
    BY <1>4, <2>1 DEF Fresh, Seeds, Screens, Onboarding
  <2> QED
    BY <1>3, <2>1, <2>2, TakesStep
<1>7. CASE Validated(s, i, seed)
  <2>1. job.what = "validate" /\ seed = job.vault.seed
    BY <1>4, <1>7 DEF Validated, job
  <2>2. CASE seed \in Valid
    <3>1. Takes(s, i, "imppw", seed)
      BY <1>7, <2>2 DEF Validated
    <3>2. seed \in owned /\ seed \in Seeds /\ "imppw" \in Screens
      BY <2>1, <2>2, <1>5, Typing DEF Brings, Screens, Onboarding
    <3> QED
      BY <1>3, <3>1, <3>2, TakesStep
  <2>3. CASE seed \notin Valid
    <3>1. Takes(s, i, "input", None)
      BY <1>7, <2>3 DEF Validated
    <3>2. "input" \in Screens
      BY DEF Screens, Onboarding
    <3> QED
      BY <1>3, <3>1, <3>2, TakesStep
  <2> QED
    BY <2>2, <2>3
<1>8. CASE Stored(s, i)
  <2>1. Witnessed /\ UNCHANGED <<ui, polls>>
    BY <1>8 DEF Stored
  <2>2. PollsNext
    BY <2>1, WitnessPolls
  <2> QED
    BY <1>3, <1>8, <2>2, StoredForms, Whole
<1>9. CASE Turned(s, i)
  <2>1. Refreshed(s, RemoveAt(jobs[s], i))
    BY <1>9 DEF Turned
  <2>2. PollsNext
    BY <2>1, RefreshedPolls DEF PollsNext
  <2> QED
    BY <1>3, <1>9, <2>2, TurnedForms, Whole
<1>10. CASE BackedUp(s, i)
  <2>1. Takes(s, i, "wallet", None) /\ "wallet" \in Screens
    BY <1>10 DEF BackedUp, Screens
  <2> QED
    BY <1>3, <2>1, TakesStep
<1>11. CASE Unheard(s, i)
  <2>1. /\ Witnessed /\ UNCHANGED <<owned, ui, polls>>
        /\ jobs' = [jobs EXCEPT ![s] = RemoveAt(jobs[s], i)]
    BY <1>11, Typing DEF Unheard
  <2>2. PollsNext
    BY <2>1, WitnessPolls
  <2>3. FormsNext
    BY <2>1, DroppedForms
  <2> QED
    BY <1>3, <2>2, <2>3, Whole
<1> QED
  BY <1>1, <1>6, <1>7, <1>8, <1>9, <1>10, <1>11

\* A screen goes back to where it asked, with the phrase it had.
LEMMA FailsStep ==
    ASSUME IInv, NEW s \in Surfaces, NEW i \in DOMAIN jobs[s], Fails(s, i)
    PROVE  IInv'
<1> DEFINE screen == After(jobs[s][i])
           seed == IF jobs[s][i].what = "validate" THEN None ELSE ui[s].seed
<1>1. Takes(s, i, screen, seed) /\ owned' = owned
  BY DEF Fails, Takes
<1>2. WorkerNext
  <2>1. CASE NoEffect
    BY <1>1, <2>1, Typing, WorkerKept DEF NoEffect
  <2>2. CASE Accepted(jobs[s][i]) /\ \E x \in Seeds \cup {Damaged, None} : Effect(jobs[s][i], x)
    BY <1>1, <2>2, EffectOwns DEF WorkerNext
  <2> QED
    BY <2>1, <2>2 DEF Fails
<1>3. ASSUME jobs[s][i].live = "mounted"
      PROVE  /\ screen \in Screens /\ seed \in Seeds \cup {None}
             /\ screen \in {"display", "verify"} => seed \in Seeds
             /\ screen \in {"newpw", "creating", "imppw", "storing"} => seed \in owned
  <2>1. jobs[s][i].from \in DOMAIN Waits /\ ui[s].screen = Waits[jobs[s][i].from]
    BY <1>3 DEF IInv, Mounting, Mounted
  <2>2. ui[s].screen \in {"newpw", "creating", "imppw", "storing"} => ui[s].seed \in owned
    BY DEF IInv, Owning, Holds
  <2>3. /\ jobs[s][i].from \in Screens /\ jobs[s][i].from \notin {"display", "verify"}
        /\ jobs[s][i].from \in {"newpw", "imppw", "creating", "storing"} => ui[s].seed \in owned
    BY <2>1, <2>2, WaitsFacts DEF Waiting
  <2>4. ui[s].seed \in Seeds \cup {None}
    BY Typing DEF UI
  <2>5. CASE jobs[s][i].what = "generate"
    <3>1. screen = "generror" /\ seed = ui[s].seed
      BY <2>5 DEF After
    <3> QED
      BY <3>1, <2>4 DEF Screens, Onboarding
  <2>6. CASE jobs[s][i].what = "validate"
    <3>1. screen = "input" /\ seed = None
      BY <2>6 DEF After
    <3> QED
      BY <3>1 DEF Screens, Onboarding
  <2>7. CASE jobs[s][i].what \notin {"generate", "validate"}
    <3>1. screen = jobs[s][i].from /\ seed = ui[s].seed
      BY <2>7 DEF After
    <3> HIDE DEF screen, seed
    <3> QED
      BY <3>1, <2>3, <2>4
  <2> QED
    BY <2>5, <2>6, <2>7
<1> HIDE DEF screen, seed
<1> QED
  BY <1>1, <1>2, <1>3, TakesStep

LEMMA ToldStep ==
    ASSUME IInv, NEW s \in Surfaces, NEW i \in DOMAIN polls[s],
           ReadHas(s, i) \/ ReadLock(s, i) \/ Settle(s, i) \/ PollFails(s, i)
    PROVE  IInv'
<1>1. UNCHANGED <<worker, owned>>
  BY DEF ReadHas, ReadLock, Settle, PollFails, Learn
<1>2. WorkerNext
  BY <1>1, Typing, WorkerKept
<1>3. CASE ReadHas(s, i) \/ ReadLock(s, i)
  <2>1. UNCHANGED <<ui, jobs, owned>>
    BY <1>3 DEF ReadHas, ReadLock
  <2>2. PollsNext
    BY <1>3, ReadPolls DEF PollsNext
  <2> QED
    BY <1>2, <2>1, <2>2, KeptForms, Whole
<1>4. ASSUME NEW shown \in {"no-vault", "locked", "unlocked", "error"}, Learn(s, i, shown)
      PROVE  IInv'
  <2>1. PollsNext
    BY <1>4, LearnPolls DEF PollsNext
  <2>2. FormsNext
    BY <1>4, LearnForms
  <2> QED
    BY <1>2, <2>1, <2>2, Whole
<1>5. CASE Settle(s, i)
  <2>1. Answered(polls[s][i]) \in {"no-vault", "locked", "unlocked", "error"}
    BY DEF Answered
  <2> QED
    BY <1>4, <1>5, <2>1 DEF Settle
<1>6. CASE PollFails(s, i)
  BY <1>4, <1>6 DEF PollFails
<1> QED
  BY <1>3, <1>5, <1>6

LEMMA AutoLockStep ==
    ASSUME IInv, AutoLock
    PROVE  IInv'
<1>1. /\ open' = None /\ disk' = disk /\ owned' = owned
      /\ Witnessed /\ UNCHANGED <<ui, jobs, polls>>
  BY DEF AutoLock
<1>2. WorkerNext
  BY <1>1, Parts DEF IInv, WorkerNext, WorkerOK, WalletIsUsersOwn, Vault, Seeds
<1>3. PollsNext
  BY <1>1, WitnessPolls
<1>4. FormsNext
  BY <1>1, KeptForms
<1> QED
  BY <1>2, <1>3, <1>4, Whole

LEMMA Stutter ==
    ASSUME IInv, UNCHANGED vars
    PROVE  IInv'
<1>1. UNCHANGED <<worker, owned, ui, jobs, polls, since>>
  BY DEF vars, worker
<1>2. WorkerNext
  BY <1>1, Typing, Parts DEF IInv, WorkerNext, WorkerOK, WalletIsUsersOwn, worker, Vault, Seeds
<1>3. PollsNext
  BY <1>1, QuietPolls
<1>4. FormsNext
  BY <1>1, KeptForms
<1> QED
  BY <1>2, <1>3, <1>4, Whole

LEMMA StepSafe ==
    IInv /\ [Next]_vars => IInv'
<1> SUFFICES ASSUME IInv, [Next]_vars
             PROVE  IInv'
  OBVIOUS
<1>1. ASSUME NEW s \in Surfaces, Served(s)
      PROVE  IInv'
  BY <1>1, AnswerStep, FailsStep DEF Served
<1>2. ASSUME NEW s \in Surfaces, Told(s)
      PROVE  IInv'
  BY <1>2, ToldStep DEF Told
<1> QED
  BY <1>1, <1>2, ActsStep, AutoLockStep, Stutter DEF Next

LEMMA InitSafe ==
    Init => IInv
<1> SUFFICES ASSUME Init
             PROVE  IInv
  OBVIOUS
<1>1. WorkerOK /\ WalletIsUsersOwn
  BY FirstsAssumption DEF Init, WorkerOK, WalletIsUsersOwn, FirstsAssumption, Vault
<1>2. \A s \in Surfaces : jobs[s] = <<>> /\ polls[s] = <<>> /\ since[s] = Unasked /\ ui[s] = Asking("closed")
  BY DEF Init
<1>3. Entry("closed") = "blank"
  BY DEF Entry
<1>4. Asking("closed") \in UI
  BY <1>3 DEF Asking, UI, Screens
<1>5. Unasked \in Known
  BY DEF Unasked, Known
<1>6. \A s \in Surfaces : MaxJobs[s] \in Nat /\ MaxPolls[s] \in Nat
  BY LimitsAssumption DEF LimitsAssumption
<1>7. FormsOK
  BY <1>2, <1>4, <1>6 DEF Init, FormsOK
<1>8. PollsOK
  BY <1>2, <1>5, <1>6 DEF Init, PollsOK
<1>9. Polling
  BY <1>2 DEF Polling, Heard, Current
<1>10. Mounting
  BY <1>2, <1>3 DEF Mounting, Mounted, Asking
<1>11. Owning
  BY <1>2, <1>3 DEF Owning, Holds, Asking
<1> QED
  BY <1>1, <1>7, <1>8, <1>9, <1>10, <1>11, Parts DEF IInv

\* The inductive invariant of the surfaces holds in every behaviour.
LEMMA Safe == Spec => []IInv
<1>1. Init => IInv
  BY InitSafe
<1>2. IInv /\ [Next]_vars => IInv'
  BY StepSafe
<1> QED
  BY <1>1, <1>2, PTL DEF Spec

-----------------------------------------------------------------------------
(* The theorems                                                              *)

\* The vault, the surfaces, their requests and their polls stay what they are taken
\* for, and within their bounds (popup/app.tsx).
THEOREM TypeCorrect == Spec => []TypeOK
<1>1. IInv => TypeOK
  BY DEF IInv
<1> QED
  BY <1>1, Safe, PTL

\* Whatever is stored or unlocked, the user can bring back (create-vault-view.tsx,
\* import-vault-view.tsx, background/backup.ts).
THEOREM StoredIsUsersOwn == Spec => []WalletIsUsersOwn
<1>1. IInv => WalletIsUsersOwn
  BY DEF IInv
<1> QED
  BY <1>1, Safe, PTL

\* A surface says of the vault what it said, or that it asks or failed to learn it.
Quiet(s) ==
    ui'[s].shown = ui[s].shown \/ ui'[s].shown \in {"closed", "loading", "error"}

LEMMA TurnQuiet ==
    ASSUME IInv, NEW t \in Surfaces, NEW screen, NEW seed, Turn(t, screen, seed)
    PROVE  \A s \in Surfaces : Quiet(s)
BY ShowsShown DEF Turn, Shows, Quiet

LEMMA AskQuiet ==
    ASSUME IInv, NEW t \in Surfaces, NEW what, NEW from, NEW to, NEW question, NEW seed,
           Ask(t, what, from, to, question, seed)
    PROVE  \A s \in Surfaces : Quiet(s)
BY TurnQuiet DEF Ask

LEMMA ActsQuiet ==
    ASSUME IInv, NEW t \in Surfaces, Acts(t)
    PROVE  \A s \in Surfaces : Quiet(s)
<1>1. ASSUME NEW pw \in Passwords, NEW confirm \in Passwords,
             SubmitNew(t, pw, confirm) \/ SubmitImport(t, pw, confirm)
      PROVE  \A s \in Surfaces : Quiet(s)
  BY <1>1, AskQuiet DEF SubmitNew, SubmitImport
<1>2. ASSUME NEW pw \in Passwords, Unlock(t, pw)
      PROVE  \A s \in Surfaces : Quiet(s)
  BY <1>2, AskQuiet DEF Unlock
<1>3. CASE Create(t) \/ Retry(t) \/ Lock(t) \/ Export(t)
  BY <1>3, AskQuiet DEF Create, Retry, Lock, Export
<1>4. CASE BackFromPhrase(t) \/ BackFromInput(t) \/ BackToMain(t) \/ OpenWallet(t)
  BY <1>4, TurnQuiet DEF BackFromPhrase, BackFromInput, BackToMain, OpenWallet, Leave
<1>5. CASE Continue(t) \/ Import(t) \/ Verify(t)
  BY <1>5, TurnQuiet DEF Continue, Import, Verify, Move
<1>6. ASSUME NEW typed \in Typed, Validate(t, typed)
      PROVE  \A s \in Surfaces : Quiet(s)
  BY <1>6, AskQuiet DEF Validate
<1>7. ASSUME NEW v \in Vault, Restore(t, v)
      PROVE  \A s \in Surfaces : Quiet(s)
  <2>1. PICK pasted \in {encodeBackup(v), Altered(encodeBackup(v))} :
            Ask(t, "import", "wallet", "backup", pasted, None)
    BY <1>7 DEF Restore
  <2> QED
    BY <2>1, AskQuiet
<1>8. CASE OpenSettings(t)
  <2>1. ui' = [ui EXCEPT ![t] = [Asking(ui[t].shown) EXCEPT !.settings = TRUE]]
    BY <1>8, Typing DEF OpenSettings
  <2> QED
    BY <2>1, Typing DEF Asking, Quiet
<1>9. CASE CloseSettings(t)
  BY <1>9, Typing DEF CloseSettings, UI, Quiet
<1>10. CASE Open(t) \/ Close(t)
  <2>1. ui' = [ui EXCEPT ![t] = Asking("loading")] \/ ui' = [ui EXCEPT ![t] = Asking("closed")]
    BY <1>10 DEF Open, Close
  <2> QED
    BY <2>1, Typing DEF Asking, Quiet
<1> QED
  BY <1>1, <1>2, <1>3, <1>4, <1>5, <1>6, <1>7, <1>8, <1>9, <1>10 DEF Acts

LEMMA TakesQuiet ==
    ASSUME IInv, NEW t \in Surfaces, NEW i \in DOMAIN jobs[t], NEW screen, NEW seed,
           Takes(t, i, screen, seed)
    PROVE  \A s \in Surfaces : Quiet(s)
<1>1. ui' = ui \/ ui' = Shows(t, screen, seed)
  BY DEF Takes
<1> QED
  BY <1>1, ShowsShown DEF Quiet

LEMMA ServedQuiet ==
    ASSUME IInv, NEW t \in Surfaces, Served(t)
    PROVE  \A s \in Surfaces : Quiet(s)
<1>1. PICK i \in DOMAIN jobs[t] : Answer(t, i) \/ Fails(t, i)
  BY DEF Served
<1>2. CASE Fails(t, i)
  BY <1>2, TakesQuiet DEF Fails
<1>3. CASE Answer(t, i)
  <2>1. PICK seed \in Seeds \cup {Damaged, None} :
            \/ Generated(t, i, seed) \/ Validated(t, i, seed)
            \/ Stored(t, i) \/ Turned(t, i) \/ BackedUp(t, i) \/ Unheard(t, i)
    BY <1>3 DEF Answer
  <2>2. CASE Generated(t, i, seed) \/ Validated(t, i, seed) \/ BackedUp(t, i)
    BY <2>2, TakesQuiet DEF Generated, Validated, BackedUp
  <2>3. CASE Stored(t, i) \/ Unheard(t, i)
    BY <2>3 DEF Stored, Unheard, Quiet
  <2>4. CASE Turned(t, i)
    <3>1. ui' = [ui EXCEPT ![t] = [Asking("loading") EXCEPT !.settings = ui[t].settings]]
      BY <2>4 DEF Turned, Refreshed
    <3> QED
      BY <3>1, Typing DEF Asking, Quiet
  <2> QED
    BY <2>1, <2>2, <2>3, <2>4
<1> QED
  BY <1>1, <1>2, <1>3

\* A poll that is heard tells its surface one of the states since it asked.
LEMMA ToldTruth ==
    ASSUME IInv, NEW t \in Surfaces, NEW i \in DOMAIN polls[t], Settle(t, i),
           NEW s \in Surfaces, ui'[s].shown # ui[s].shown
    PROVE  CASE ui'[s].shown = "no-vault" -> FALSE \in since[s].has
             [] ui'[s].shown = "locked" -> TRUE \in since[s].has /\ FALSE \in since[s].open
             [] ui'[s].shown = "unlocked" -> TRUE \in since[s].has /\ TRUE \in since[s].open
             [] OTHER -> TRUE
<1> DEFINE p == polls[t][i]  shown == Answered(p)
<1>1. /\ p.has # None /\ p.open # None
      /\ ui' = IF p.live THEN [ui EXCEPT ![t] = [Asking(shown) EXCEPT !.settings = ui[t].settings]]
               ELSE ui
  BY DEF Settle, Learn
<1>2. p.live /\ s = t /\ ui'[s].shown = shown
  BY <1>1, Typing DEF Asking
<1>3. p.has \in since[s].has /\ p.open \in since[s].open
  BY <1>1, <1>2 DEF IInv, Polling, Heard
<1>4. p.has \in BOOLEAN /\ p.open \in BOOLEAN
  <2>1. polls[t] \in Seq(Poll)
    BY Parts DEF IInv, PollsOK
  <2>2. p \in Poll
    BY <2>1
  <2> HIDE DEF p
  <2> QED
    BY <1>1, <2>2 DEF Poll
<1>5. shown = CASE ~p.has -> "no-vault" [] p.has /\ ~p.open -> "locked" [] OTHER -> "unlocked"
  BY DEF Answered
<1> HIDE DEF p, shown
<1>6. CASE p.has = FALSE
  BY <1>2, <1>3, <1>5, <1>6
<1>7. CASE p.has = TRUE /\ p.open = FALSE
  BY <1>2, <1>3, <1>5, <1>7
<1>8. CASE p.has = TRUE /\ p.open = TRUE
  BY <1>2, <1>3, <1>5, <1>8
<1> QED
  BY <1>4, <1>6, <1>7, <1>8

\* What a surface comes to say of the vault was true at some time since it last
\* asked: a late answer never brings back the state from before a lock or an unlock
\* (use-vault-state.ts).
THEOREM ShownIsRecent == Spec => ShownSinceRefresh
<1>1. IInv /\ [Next]_vars =>
          \A s \in Surfaces : ui'[s].shown # ui[s].shown =>
              CASE ui'[s].shown = "no-vault" -> FALSE \in since[s].has
                [] ui'[s].shown = "locked" -> TRUE \in since[s].has /\ FALSE \in since[s].open
                [] ui'[s].shown = "unlocked" -> TRUE \in since[s].has /\ TRUE \in since[s].open
                [] OTHER -> TRUE
  <2> SUFFICES ASSUME IInv, [Next]_vars, NEW s \in Surfaces, ui'[s].shown # ui[s].shown
               PROVE  CASE ui'[s].shown = "no-vault" -> FALSE \in since[s].has
                        [] ui'[s].shown = "locked" -> TRUE \in since[s].has /\ FALSE \in since[s].open
                        [] ui'[s].shown = "unlocked" -> TRUE \in since[s].has /\ TRUE \in since[s].open
                        [] OTHER -> TRUE
    OBVIOUS
  <2>1. CASE \E t \in Surfaces : \E i \in DOMAIN polls[t] : Settle(t, i)
    BY <2>1, ToldTruth
  <2>2. CASE Quiet(s)
    <3>1. ui'[s].shown \in {"closed", "loading", "error"}
      BY <2>2 DEF Quiet
    <3> QED
      BY <3>1
  <2>3. ASSUME NEW t \in Surfaces, NEW i \in DOMAIN polls[t],
               ReadHas(t, i) \/ ReadLock(t, i) \/ PollFails(t, i)
        PROVE  Quiet(s)
    <3>1. CASE ReadHas(t, i) \/ ReadLock(t, i)
      BY <3>1 DEF ReadHas, ReadLock, Quiet
    <3>2. CASE PollFails(t, i)
      <4>1. ui' = ui \/ ui' = [ui EXCEPT ![t] = [Asking("error") EXCEPT !.settings = ui[t].settings]]
        BY <3>2 DEF PollFails, Learn
      <4> QED
        BY <4>1, Typing DEF Asking, Quiet
    <3> QED
      BY <2>3, <3>1, <3>2
  <2>4. AutoLock \/ UNCHANGED vars => Quiet(s)
    BY DEF AutoLock, vars, Quiet
  <2>5. \A t \in Surfaces : Acts(t) \/ Served(t) => Quiet(s)
    BY ActsQuiet, ServedQuiet
  <2> QED
    BY <2>1, <2>2, <2>3, <2>4, <2>5 DEF Next, Told
<1> QED
  BY <1>1, Safe, PTL DEF Spec, ShownSinceRefresh

=============================================================================
