-------------------------- MODULE WorkerLivesProofs --------------------------
(***************************************************************************)
(* What the service worker leaves with the browser when it dies, for every   *)
(* number of its lives: the allow-list in storage (ConnectionAudit), the     *)
(* idle alarm and the badge (WorkerLifecycle).                               *)
(*                                                                         *)
(* The allow-list, for every set of origins, entries and callers and every   *)
(* bound on the writes that are on their way: each step is treated once, by  *)
(* the list operation it performs; the lemmas say what an operation does to  *)
(* the queue of writes.                                                      *)
(*                                                                         *)
(* The timer, for every set of thresholds and every alarm period: an         *)
(* unlocked wallet is never overdue for longer than one period of the alarm. *)
(* Then the same of the whole worker, whose timer is that of AutoLock, and   *)
(* of its badge.                                                             *)
(***************************************************************************)
EXTENDS ConnectionAudit, WorkerLifecycle, SequenceTheorems, TLAPS

-----------------------------------------------------------------------------
(* The allow-list                                                            *)

\* Every whole-map snapshot is a map.
LEMMA EmptyMapIsMap == EmptyMap \in Map
BY DEF EmptyMap, Map

\* save(): the queue grows by the given snapshot and keeps the older ones.
LEMMA SaveGrowsQueue ==
    ASSUME writes \in Seq(Write), NEW map \in Map, NEW c \in Callers, Save(map, c)
    PROVE  /\ writes' \in Seq(Write)
           /\ writes' # <<>>
           /\ DOMAIN writes' = 1 .. Len(writes) + 1
           /\ Len(writes') = Len(writes) + 1
           /\ \A k \in DOMAIN writes : writes'[k] = writes[k]
           /\ writes'[Len(writes')].image = map
           /\ \A k \in DOMAIN writes' : k \in DOMAIN writes \/ k = Len(writes')
<1> DEFINE w == [image |-> map, by |-> c]
<1>1. w \in Write
  BY DEF Write
<1>2. writes' = Append(writes, w)
  BY DEF Save
<1>3. /\ Append(writes, w) \in Seq(Write)
      /\ Append(writes, w) # <<>>
      /\ Len(Append(writes, w)) = Len(writes) + 1
      /\ \A i \in 1 .. Len(writes) : Append(writes, w)[i] = writes[i]
      /\ Append(writes, w)[Len(writes) + 1] = w
  BY <1>1, AppendProperties
<1>4. /\ Len(writes) \in Nat
      /\ DOMAIN writes = 1 .. Len(writes)
      /\ DOMAIN Append(writes, w) = 1 .. Len(writes) + 1
  BY <1>3, LenProperties
<1>5. w.image = map
  OBVIOUS
<1> HIDE DEF w
<1>6. QED
  BY <1>2, <1>3, <1>4, <1>5

\* An answered write leaves the younger ones, in their order.
LEMMA AnswerShrinksQueue ==
    ASSUME writes \in Seq(Write), writes # <<>>, writes' = Tail(writes)
    PROVE  /\ writes' \in Seq(Write)
           /\ Len(writes) \in Nat \ {0}
           /\ DOMAIN writes = 1 .. Len(writes)
           /\ DOMAIN writes' = 1 .. Len(writes) - 1
           /\ Len(writes') = Len(writes) - 1
           /\ \A k \in DOMAIN writes' : writes'[k] = writes[k + 1] /\ k + 1 \in DOMAIN writes
           /\ Head(writes) = writes[1]
           /\ 1 \in DOMAIN writes
           /\ Head(writes) \in Write
           /\ Head(writes).image \in Map
<1>1. /\ Head(writes) \in Write
      /\ Tail(writes) \in Seq(Write)
      /\ Len(Tail(writes)) = Len(writes) - 1
      /\ \A i \in 1 .. Len(Tail(writes)) : Tail(writes)[i] = writes[i + 1]
  BY HeadTailProperties
<1>2. Len(writes) \in Nat \ {0}
  BY EmptySeq
<1>3. DOMAIN writes = 1 .. Len(writes) /\ DOMAIN Tail(writes) = 1 .. Len(writes) - 1
  BY <1>1, LenProperties
<1>4. Head(writes) = writes[1]
  OBVIOUS
<1>5. Head(writes).image \in Map
  BY <1>1 DEF Write
<1>6. QED
  BY <1>1, <1>2, <1>3, <1>4, <1>5

\* A snapshot on its way is a map.
LEMMA SnapshotsAreMaps ==
    ASSUME writes \in Seq(Write), NEW k \in DOMAIN writes
    PROVE  writes[k].image \in Map
<1>1. k \in 1 .. Len(writes)
  BY LenProperties
<1>2. writes[k] \in Write
  BY <1>1, ElementOfSeq
<1>3. QED
  BY <1>2 DEF Write

-----------------------------------------------------------------------------
\* Every reachable state is well-typed (AuditTypeOK of ConnectionAudit).
THEOREM AuditTypeCorrect == AuditSpec => []AuditTypeOK
<1> USE DEF ConnTypeOK
<1>1. AuditInit => AuditTypeOK
  <2> SUFFICES ASSUME AuditInit PROVE AuditTypeOK
    OBVIOUS
  <2>1. <<>> \in Seq(Write)
    OBVIOUS
  <2>2. QED
    BY <2>1, EmptyMapIsMap DEF AuditInit, ConnInit, AuditTypeOK
<1>2. AuditTypeOK /\ [AuditNext]_auditVars => AuditTypeOK'
  <2> SUFFICES ASSUME AuditTypeOK, [AuditNext]_auditVars PROVE AuditTypeOK'
    OBVIOUS
  <2> USE DEF AuditTypeOK
  <2>1. CASE Loading
    BY <2>1 DEF Loading, LoadBegin, LoadDone, LoadFail, Map
  <2>2. ASSUME NEW o \in Origins, NEW e \in Entries, NEW c \in Callers, UserApproves(o, e, c)
        PROVE  AuditTypeOK'
    <3>1. conns' \in Map
      BY <2>2 DEF UserApproves, Approve, Map
    <3>2. QED
      BY <2>2, <3>1, SaveGrowsQueue DEF UserApproves, Approve
  <2>3. ASSUME NEW o \in Origins, NEW c \in Callers, UserRevokes(o, c)
        PROVE  AuditTypeOK'
    <3>1. conns' \in Map
      BY <2>3 DEF UserRevokes, Revoke, Map
    <3>2. QED
      BY <2>3, <3>1, SaveGrowsQueue DEF UserRevokes, Revoke
  <2>4. ASSUME NEW c \in Callers, WalletReset(c)
        PROVE  AuditTypeOK'
    <3>1. /\ Save(conns', c) /\ conns' = EmptyMap /\ load = "loaded"
          /\ load' = load /\ stored' = stored
      BY <2>4 DEF WalletReset, RevokeAll
    <3>2. asked' = Origins /\ gone' = gone
      BY <2>4 DEF WalletReset
    <3>3. QED
      BY <3>1, <3>2, EmptyMapIsMap, SaveGrowsQueue
  <2>5. CASE WriteAnswered
    <3>1. writes # <<>> /\ writes' = Tail(writes) /\ UNCHANGED <<conns, load, asked>>
      BY <2>5 DEF WriteAnswered, WriteDone, WriteFail
    <3>2. writes' \in Seq(Write) /\ Head(writes).image \in Map
      BY <3>1, AnswerShrinksQueue
    <3>3. stored' \in Map
      BY <2>5, <3>2 DEF WriteAnswered, WriteDone, WriteFail
    <3>4. gone' \in SUBSET Origins
      BY <2>5 DEF WriteAnswered, Confirmed
    <3>5. QED
      BY <3>1, <3>2, <3>3, <3>4
  <2>6. CASE AuditRestart
    <3>1. conns' \in Map /\ load' = "idle" /\ writes' = <<>> /\ UNCHANGED <<asked, gone>>
      BY <2>6, EmptyMapIsMap DEF AuditRestart, ConnRestart
    <3>2. stored' \in Map
      BY <2>6, SnapshotsAreMaps DEF AuditRestart, ConnRestart
    <3>3. writes' \in Seq(Write)
      BY <3>1
    <3>4. QED
      BY <3>1, <3>2, <3>3
  <2>7. CASE UNCHANGED auditVars
    BY <2>7 DEF auditVars, connVars
  <2>8. QED
    BY <2>1, <2>2, <2>3, <2>4, <2>5, <2>6, <2>7 DEF AuditNext, Alive
<1>3. QED
  BY <1>1, <1>2, PTL DEF AuditSpec

-----------------------------------------------------------------------------
\* When the queue of writes drains, storage holds the map in memory: the
\* youngest write always carries it (save() of connection-state.ts). The step
\* needs AuditTypeOK: LoadDone changes the map without saving it, and is harmless
\* because nothing is written before the list was read.
THEOREM MemoryIsWrittenLast == AuditSpec => []LastWriteIsMemory
<1>1. AuditInit => LastWriteIsMemory
  BY DEF AuditInit, ConnInit, LastWriteIsMemory
<1>2. AuditTypeOK /\ AuditTypeOK' /\ LastWriteIsMemory /\ [AuditNext]_auditVars => LastWriteIsMemory'
  <2> SUFFICES ASSUME AuditTypeOK, AuditTypeOK', LastWriteIsMemory, [AuditNext]_auditVars
               PROVE  LastWriteIsMemory'
    OBVIOUS
  <2> USE DEF AuditTypeOK, ConnTypeOK, LastWriteIsMemory
  <2>1. CASE Loading
    BY <2>1 DEF Loading, LoadBegin, LoadDone, LoadFail
  <2>2. ASSUME NEW c \in Callers, Save(conns', c)
        PROVE  LastWriteIsMemory'
    BY <2>2, SaveGrowsQueue
  <2>3. CASE WriteAnswered
    <3>1. writes # <<>> /\ writes' = Tail(writes) /\ UNCHANGED <<conns, load>>
      BY <2>3 DEF WriteAnswered, WriteDone, WriteFail
    <3>2. CASE writes' = <<>>
      BY <3>1, <3>2
    <3>3. CASE writes' # <<>>
      <4>1. Len(writes') \in Nat \ {0} /\ Len(writes') \in DOMAIN writes'
        BY <3>3, EmptySeq, LenProperties
      <4>2. writes'[Len(writes')] = writes[Len(writes)]
        BY <3>1, <4>1, AnswerShrinksQueue
      <4>3. QED
        BY <3>1, <4>2
    <3>4. QED
      BY <3>2, <3>3
  <2>4. CASE AuditRestart
    BY <2>4 DEF AuditRestart, ConnRestart
  <2>5. CASE UNCHANGED auditVars
    BY <2>5 DEF auditVars, connVars
  <2>6. QED
    BY <2>1, <2>2, <2>3, <2>4, <2>5
       DEF AuditNext, Alive, UserApproves, Approve, UserRevokes, Revoke, WalletReset, RevokeAll
<1>3. QED
  BY <1>1, <1>2, AuditTypeCorrect, PTL DEF AuditSpec

-----------------------------------------------------------------------------
\* A revocation the user saw confirmed stays: neither a reload nor a late or
\* failed write nor a restart brings the entry back before the origin is
\* approved again (revoke, revokeAll, save, load).
THEOREM RevocationIsFinal == AuditSpec => []RevokedStaysRevoked
<1>1. AuditInit => RevokedStaysRevoked
  BY DEF AuditInit, RevokedStaysRevoked
<1>2. AuditTypeOK /\ LastWriteIsMemory /\ RevokedStaysRevoked /\ [AuditNext]_auditVars => RevokedStaysRevoked'
  <2> SUFFICES ASSUME AuditTypeOK, LastWriteIsMemory, RevokedStaysRevoked, [AuditNext]_auditVars,
                      NEW o \in gone'
               PROVE  /\ conns'[o] = NoEntry
                      /\ stored'[o] = NoEntry
                      /\ \A k \in DOMAIN writes' : writes'[k].image[o] = NoEntry
    BY DEF RevokedStaysRevoked
  <2> USE DEF AuditTypeOK, ConnTypeOK, RevokedStaysRevoked
  <2>1. CASE Loading
    BY <2>1 DEF Loading, LoadBegin, LoadDone, LoadFail, Map
  <2>2. ASSUME NEW c \in Callers, Save(conns', c), conns' \in Map,
               stored' = stored, o \in gone, conns'[o] = NoEntry
        PROVE  \A k \in DOMAIN writes' : writes'[k].image[o] = NoEntry
    BY <2>2, SaveGrowsQueue
  <2>3. ASSUME NEW p \in Origins, NEW e \in Entries, NEW c \in Callers, UserApproves(p, e, c)
        PROVE  /\ o \in gone /\ o # p /\ conns' \in Map
               /\ conns'[o] = NoEntry /\ stored' = stored /\ Save(conns', c)
    BY <2>3 DEF UserApproves, Approve, Map
  <2>4. ASSUME NEW p \in Origins, NEW c \in Callers, UserRevokes(p, c)
        PROVE  /\ o \in gone /\ conns' \in Map
               /\ conns'[o] = NoEntry /\ stored' = stored
               /\ Save(conns', c) \/ writes' = writes
    BY <2>4 DEF UserRevokes, Revoke, Map
  <2>5. ASSUME NEW c \in Callers, WalletReset(c)
        PROVE  /\ o \in gone /\ conns' \in Map
               /\ conns'[o] = NoEntry /\ stored' = stored /\ Save(conns', c)
    BY <2>5, EmptyMapIsMap DEF WalletReset, RevokeAll, EmptyMap
  <2>6. CASE WriteAnswered
    <3>1. writes # <<>> /\ writes' = Tail(writes) /\ UNCHANGED conns
      BY <2>6 DEF WriteAnswered, WriteDone, WriteFail
    <3>2. CASE o \in gone
      <4>1. Head(writes).image[o] = NoEntry
        BY <3>1, <3>2, AnswerShrinksQueue
      <4>2. stored'[o] = NoEntry
        BY <2>6, <3>2, <4>1 DEF WriteAnswered, WriteDone, WriteFail
      <4>3. QED
        BY <3>1, <3>2, <4>2, AnswerShrinksQueue
    <3>3. CASE o \notin gone
      <4>1. WriteDone /\ o \in Confirmed
        BY <2>6, <3>3 DEF WriteAnswered
      <4>2. \A k \in DOMAIN writes : writes[k].image[o] = NoEntry
        BY <4>1 DEF Confirmed
      <4>3. conns[o] = NoEntry
        <5>1. Len(writes) \in DOMAIN writes
          BY <3>1, AnswerShrinksQueue
        <5>2. writes[Len(writes)].image = conns
          BY <3>1 DEF LastWriteIsMemory
        <5>3. QED
          BY <4>2, <5>1, <5>2
      <4>4. stored'[o] = NoEntry
        BY <3>1, <4>1, <4>2, AnswerShrinksQueue DEF WriteDone
      <4>5. QED
        BY <3>1, <4>2, <4>3, <4>4, AnswerShrinksQueue
    <3>4. QED
      BY <3>2, <3>3
  <2>7. CASE AuditRestart
    BY <2>7 DEF AuditRestart, ConnRestart, EmptyMap
  <2>8. CASE UNCHANGED auditVars
    BY <2>8 DEF auditVars, connVars
  <2>9. QED
    BY <2>1, <2>2, <2>3, <2>4, <2>5, <2>6, <2>7, <2>8 DEF AuditNext, Alive
<1>3. QED
  BY <1>1, <1>2, AuditTypeCorrect, MemoryIsWrittenLast, PTL DEF AuditSpec

-----------------------------------------------------------------------------
(* What was stored and not asked away is kept all along the line: from      *)
(* storage to every snapshot on its way, from each snapshot to the next,    *)
(* and to the map in memory.                                                *)

Kept ==
    \A o \in Origins \ asked :
        /\ load = "loaded" /\ stored[o] # NoEntry => conns[o] # NoEntry
        /\ \A k \in DOMAIN writes : stored[o] # NoEntry => writes[k].image[o] # NoEntry
        /\ \A j, k \in DOMAIN writes :
              j <= k /\ writes[j].image[o] # NoEntry => writes[k].image[o] # NoEntry

LEMMA KeptStep ==
    ASSUME AuditTypeOK, LastWriteIsMemory, Kept, [AuditNext]_auditVars
    PROVE  Kept'
<1> SUFFICES ASSUME NEW o \in Origins \ asked'
             PROVE  /\ load' = "loaded" /\ stored'[o] # NoEntry => conns'[o] # NoEntry
                    /\ \A k \in DOMAIN writes' :
                          stored'[o] # NoEntry => writes'[k].image[o] # NoEntry
                    /\ \A j, k \in DOMAIN writes' :
                          j <= k /\ writes'[j].image[o] # NoEntry
                            => writes'[k].image[o] # NoEntry
  BY DEF Kept
<1> USE DEF AuditTypeOK, ConnTypeOK, Kept
<1>1. CASE Loading
  <2>1. CASE LoadDone
    BY <2>1, <1>1 DEF LoadDone, Loading, LastWriteIsMemory, Map
  <2>2. CASE LoadBegin \/ LoadFail
    BY <2>2, <1>1 DEF LoadBegin, LoadFail, Loading
  <2>3. QED
    BY <1>1, <2>1, <2>2 DEF Loading
<1>2. ASSUME NEW c \in Callers, Save(conns', c), conns' \in Map, load = "loaded",
             stored' = stored, o \notin asked,
             conns[o] # NoEntry => conns'[o] # NoEntry
      PROVE  /\ stored'[o] # NoEntry => conns'[o] # NoEntry
             /\ \A k \in DOMAIN writes' :
                   stored'[o] # NoEntry => writes'[k].image[o] # NoEntry
             /\ \A j, k \in DOMAIN writes' :
                   j <= k /\ writes'[j].image[o] # NoEntry => writes'[k].image[o] # NoEntry
  <2>1. stored'[o] # NoEntry => conns'[o] # NoEntry
    BY <1>2
  <2>2. ASSUME NEW k \in DOMAIN writes', stored'[o] # NoEntry
        PROVE  writes'[k].image[o] # NoEntry
    BY <1>2, <2>1, <2>2, SaveGrowsQueue
  <2>3. ASSUME NEW j \in DOMAIN writes, writes[j].image[o] # NoEntry
        PROVE  conns'[o] # NoEntry
    <3>1. Len(writes) \in DOMAIN writes /\ j <= Len(writes) /\ writes # <<>>
      BY <2>3, LenProperties, EmptySeq
    <3>2. writes[Len(writes)].image = conns
      BY <3>1 DEF LastWriteIsMemory
    <3>3. conns[o] # NoEntry
      BY <1>2, <2>3, <3>1, <3>2
    <3>4. QED
      BY <1>2, <3>3
  <2>4. ASSUME NEW j \in DOMAIN writes', NEW k \in DOMAIN writes',
               j <= k, writes'[j].image[o] # NoEntry
        PROVE  writes'[k].image[o] # NoEntry
    <3>1. CASE k \in DOMAIN writes
      <4>1. j \in DOMAIN writes
        BY <1>2, <2>4, <3>1, SaveGrowsQueue, LenProperties
      <4>2. QED
        BY <1>2, <2>4, <3>1, <4>1, SaveGrowsQueue
    <3>2. CASE k = Len(writes')
      <4>1. CASE j \in DOMAIN writes
        BY <1>2, <2>3, <2>4, <3>2, <4>1, SaveGrowsQueue
      <4>2. CASE j = Len(writes')
        BY <2>4, <3>2, <4>2
      <4>3. QED
        BY <1>2, <4>1, <4>2, SaveGrowsQueue
    <3>3. QED
      BY <1>2, <3>1, <3>2, SaveGrowsQueue
  <2>5. QED
    BY <2>1, <2>2, <2>4
<1>3. ASSUME NEW p \in Origins, NEW e \in Entries, NEW c \in Callers, UserApproves(p, e, c)
      PROVE  /\ conns' \in Map /\ Save(conns', c) /\ load = "loaded" /\ load' = load
             /\ stored' = stored /\ o \notin asked
             /\ conns[o] # NoEntry => conns'[o] # NoEntry
  BY <1>3, NoEntryAssumption DEF UserApproves, Approve, Map
<1>4. ASSUME NEW p \in Origins, NEW c \in Callers, UserRevokes(p, c)
      PROVE  /\ load' = load /\ o # p /\ o \notin asked /\ conns' \in Map
             /\ Save(conns', c) \/ writes' = writes
             /\ load = "loaded" /\ stored' = stored
             /\ conns[o] # NoEntry => conns'[o] # NoEntry
  BY <1>4 DEF UserRevokes, Revoke, Map
<1>5. ASSUME NEW c \in Callers, WalletReset(c) PROVE FALSE
  BY <1>5 DEF WalletReset
<1>6. CASE WriteAnswered
  <2>1. writes # <<>> /\ writes' = Tail(writes) /\ UNCHANGED <<conns, load, asked>>
    BY <1>6 DEF WriteAnswered, WriteDone, WriteFail
  <2>2. stored' = Head(writes).image \/ stored' = stored
    BY <1>6 DEF WriteAnswered, WriteDone, WriteFail
  <2>3. \A k \in DOMAIN writes' : stored'[o] # NoEntry => writes'[k].image[o] # NoEntry
    BY <2>1, <2>2, AnswerShrinksQueue
  <2>4. \A j, k \in DOMAIN writes' :
           j <= k /\ writes'[j].image[o] # NoEntry => writes'[k].image[o] # NoEntry
    <3>1. ASSUME NEW j \in DOMAIN writes', NEW k \in DOMAIN writes',
                 j <= k, writes'[j].image[o] # NoEntry
          PROVE  writes'[k].image[o] # NoEntry
      <4>1. /\ j \in Nat /\ k \in Nat
            /\ j + 1 \in DOMAIN writes /\ k + 1 \in DOMAIN writes
            /\ writes'[j] = writes[j + 1] /\ writes'[k] = writes[k + 1]
        BY <2>1, <3>1, AnswerShrinksQueue
      <4>2. j + 1 <= k + 1
        BY <3>1, <4>1
      <4>3. QED
        BY <2>1, <3>1, <4>1, <4>2
    <3>2. QED
      BY <3>1
  <2>5. load = "loaded" /\ stored'[o] # NoEntry => conns[o] # NoEntry
    <3>1. Len(writes) \in DOMAIN writes /\ 1 \in DOMAIN writes /\ 1 <= Len(writes)
          /\ Head(writes) = writes[1]
      BY <2>1, AnswerShrinksQueue
    <3>2. writes[Len(writes)].image = conns
      BY <2>1 DEF LastWriteIsMemory
    <3>3. writes[1].image[o] # NoEntry => conns[o] # NoEntry
      BY <2>1, <3>1, <3>2
    <3>4. QED
      BY <2>1, <2>2, <3>1, <3>3
  <2>6. QED
    BY <2>1, <2>3, <2>4, <2>5
<1>7. CASE AuditRestart
  BY <1>7 DEF AuditRestart, ConnRestart
<1>8. CASE UNCHANGED auditVars
  BY <1>8 DEF auditVars, connVars
<1>9. QED
  <2>1. CASE Alive
    BY <2>1, <1>1, <1>2, <1>3, <1>4, <1>5, <1>6 DEF Alive
  <2>2. QED
    BY <2>1, <1>7, <1>8 DEF AuditNext

\* A stored connection leaves storage only if the user once asked to revoke
\* it: no save() for another origin and no restart wipes it (assertLoaded,
\* save).
THEOREM OnlyRevokedIsLost == AuditSpec => NothingLostUnasked
<1>1. AuditInit => Kept
  <2>1. AuditInit => load # "loaded" /\ DOMAIN writes = {}
    BY DEF AuditInit, ConnInit
  <2>2. QED
    BY <2>1 DEF Kept
<1>2. AuditTypeOK /\ LastWriteIsMemory /\ Kept /\ [AuditNext]_auditVars => Kept'
  BY KeptStep
<1>3. AuditTypeOK /\ Kept /\ [AuditNext]_auditVars =>
        [\A o \in Origins \ asked : stored[o] # NoEntry => stored'[o] # NoEntry]_auditVars
  <2> SUFFICES ASSUME AuditTypeOK, Kept, AuditNext, NEW o \in Origins \ asked, stored[o] # NoEntry
               PROVE  stored'[o] # NoEntry
    OBVIOUS
  <2> USE DEF AuditTypeOK, ConnTypeOK, Kept
  <2>1. CASE WriteAnswered
    BY <2>1, AnswerShrinksQueue DEF WriteAnswered, WriteDone, WriteFail
  <2>2. CASE AuditRestart
    BY <2>2 DEF AuditRestart, ConnRestart
  <2>3. CASE stored' = stored
    BY <2>3
  <2>4. QED
    BY <2>1, <2>2, <2>3
       DEF AuditNext, Alive, Loading, LoadBegin, LoadDone, LoadFail, UserApproves, Approve,
           UserRevokes, Revoke, WalletReset, RevokeAll
<1>4. AuditSpec => []Kept
  BY <1>1, <1>2, AuditTypeCorrect, MemoryIsWrittenLast, PTL DEF AuditSpec
<1>5. QED
  BY <1>3, <1>4, AuditTypeCorrect, PTL DEF AuditSpec, NothingLostUnasked

-----------------------------------------------------------------------------
(* The idle timer and the badge                                              *)

USE ThresholdsAssumption, PeriodAssumption, MaxIdleAssumption
    DEF ThresholdsAssumption, PeriodAssumption, MaxIdleAssumption

\* The type invariant is inductive: what the timer is set to was chosen, and
\* time beyond the threshold is counted only while the wallet is overdue
\* (lifecycle.ts createAutoLock, index.ts).
THEOREM TypeCorrect == Spec => []TypeOK
<1>1. Init => TypeOK
  <2> Default \in Thresholds /\ 0 \in 0 .. MaxIdle /\ Period \in 0 .. Period
    OBVIOUS
  <2>1. Init => hydrated \in BOOLEAN /\ news \in BOOLEAN
    BY Zenon DEF Init
  <2>2. Init => /\ lockState \in {"locked", "unlocked"} /\ threshold \in Thresholds
                /\ idle \in 0 .. MaxIdle /\ pref \in Thresholds
                /\ toAlarm \in 0 .. Period /\ late = 0
    BY DEF Init
  <2> QED
    BY <2>1, <2>2 DEF TypeOK
<1>2. TypeOK /\ [Next]_vars => TypeOK'
  <2> SUFFICES ASSUME TypeOK, [Next]_vars  PROVE TypeOK'
    OBVIOUS
  <2> USE DEF TypeOK, Overdue
  <2>0. ASSUME NEW t \in Thresholds, SetIdle(t), UNCHANGED <<lockState, idle>>
        PROVE  threshold' \in Thresholds /\ late' \in Nat
                 /\ (late' > 0 => Overdue(lockState, threshold, idle)')
    BY <2>0 DEF SetIdle
  <2>1. CASE Message \/ Unlock \/ Lock
    BY <2>1 DEF Message, Unlock, Lock
  <2>2. CASE Hydrate
    BY <2>0, <2>2 DEF Hydrate
  <2>3. CASE HydrateFails
    BY <2>3 DEF HydrateFails
  <2>4. ASSUME NEW t \in Thresholds, ChoosePref(t)  PROVE TypeOK'
    BY <2>4 DEF ChoosePref
  <2>5. CASE PrefChanged
    <3>1. news' \in BOOLEAN
      BY <2>5, Zenon DEF PrefChanged
    <3>2. SetIdle(pref) /\ UNCHANGED <<lockState, idle, hydrated, pref, toAlarm>>
      BY <2>5, Zenon DEF PrefChanged
    <3>3. /\ threshold' \in Thresholds /\ late' \in Nat
          /\ (late' > 0 => Overdue(lockState, threshold, idle)')
      BY <2>0, <3>2
    <3>4. hydrated' \in BOOLEAN
      BY <3>2, Zenon
    <3> QED
      BY <3>1, <3>2, <3>3, <3>4
  <2>6. CASE Alarm
    BY <2>6 DEF Alarm
  <2>7. CASE Tick
    BY <2>7 DEF Tick
  <2>8. CASE Restart
    <3>1. hydrated' \in BOOLEAN /\ news' \in BOOLEAN
      BY <2>8, Zenon DEF Restart
    <3>2. /\ lockState' \in {"locked", "unlocked"} /\ threshold' \in Thresholds
          /\ idle' \in 0 .. MaxIdle /\ pref' \in Thresholds
          /\ toAlarm' \in 0 .. Period /\ late' = 0
      BY <2>8 DEF Restart
    <3> QED
      BY <3>1, <3>2
  <2>9. CASE UNCHANGED vars
    BY <2>9 DEF vars
  <2> QED
    BY <2>1, <2>2, <2>3, <2>4, <2>5, <2>6, <2>7, <2>8, <2>9 DEF Next, Step
<1> QED
  BY <1>1, <1>2, PTL DEF Spec

\* LateIsBounded alone is not inductive, since a tick may always add to
\* `late`. Each tick also brings the alarm nearer, and no step puts the alarm
\* off while the wallet is overdue.
AlarmCatchesUp == late + toAlarm <= Period

\* The wallet is never left unlocked beyond its threshold for longer than one
\* alarm period, whatever is done to the preference in between (checkIdle).
THEOREM LatenessBound == Spec => []LateIsBounded
<1>1. Init => AlarmCatchesUp
  BY DEF Init, AlarmCatchesUp
<1>2. TypeOK /\ AlarmCatchesUp /\ [Next]_vars => AlarmCatchesUp'
  <2> SUFFICES ASSUME TypeOK, AlarmCatchesUp, [Next]_vars  PROVE AlarmCatchesUp'
    OBVIOUS
  <2> USE DEF TypeOK, AlarmCatchesUp
  <2>1. CASE Message \/ Unlock \/ Lock \/ Restart
    BY <2>1 DEF Message, Unlock, Lock, Restart
  <2>2. CASE Hydrate \/ PrefChanged
    BY <2>2 DEF Hydrate, PrefChanged, SetIdle
  <2>3. CASE Alarm
    <3>1. CASE Overdue(lockState, threshold, idle)
      BY <2>3, <3>1 DEF Alarm
    <3>2. CASE ~Overdue(lockState, threshold, idle)
      BY <2>3, <3>2 DEF Alarm
    <3> QED
      BY <3>1, <3>2
  <2>4. CASE Tick
    BY <2>4 DEF Tick
  <2>5. CASE HydrateFails \/ (\E t \in Thresholds : ChoosePref(t)) \/ UNCHANGED vars
    BY <2>5 DEF HydrateFails, ChoosePref, vars
  <2> QED
    BY <2>1, <2>2, <2>3, <2>4, <2>5 DEF Next, Step
<1>3. TypeOK /\ AlarmCatchesUp => LateIsBounded
  BY DEF TypeOK, AlarmCatchesUp, LateIsBounded
<1> QED
  BY <1>1, <1>2, <1>3, TypeCorrect, PTL DEF Spec

\* The requests that wait do not disturb the timer: each step of the worker is
\* one of AutoLock, or none (index.ts).
THEOREM WorkerKeepsTime == WorkerSpec => Spec
<1>1. WorkerInit => Init
  BY DEF WorkerInit
<1>2. [WorkerNext]_workerVars => [Next]_vars
  <2> SUFFICES ASSUME [WorkerNext]_workerVars  PROVE [Next]_vars
    OBVIOUS
  <2>1. CASE TimerStep
    BY <2>1, Zenon DEF TimerStep, Next
  <2>2. ASSUME NEW id \in Ids, Ask(id)  PROVE [Next]_vars
    BY <2>2, Zenon DEF Ask
  <2>3. ASSUME NEW id \in Ids, Respond(id)  PROVE [Next]_vars
    BY <2>3, Zenon DEF Respond, Next, Step
  <2>4. CASE LockAndCancel
    BY <2>4, Zenon DEF LockAndCancel, Next
  <2>5. CASE WorkerRestart
    BY <2>5, Zenon DEF WorkerRestart, Next
  <2>6. CASE UNCHANGED workerVars
    BY <2>6, Zenon DEF workerVars
  <2> QED
    BY <2>1, <2>2, <2>3, <2>4, <2>5, <2>6, Zenon DEF WorkerNext
<1> QED
  BY <1>1, <1>2, PTL DEF WorkerSpec, Spec

\* So the wallet is locked in time also while requests come, wait and are
\* answered (checkIdle).
THEOREM WorkerLatenessBound == WorkerSpec => []LateIsBounded
BY WorkerKeepsTime, LatenessBound, PTL

\* The badge and the pending map keep their types through every life of the
\* worker, and so does the timer (approval-flow.ts, lifecycle.ts).
THEOREM WorkerTypeCorrect == WorkerSpec => []WorkerTypeOK
<1> USE DEF Badge!BadgeTypeOK, Badge!Flow!FlowTypeOK
<1>1. WorkerInit => Badge!BadgeTypeOK
  BY DEF WorkerInit, Badge!BadgeInit, Badge!Flow!FlowInit
<1>2. Badge!BadgeTypeOK /\ [WorkerNext]_workerVars => Badge!BadgeTypeOK'
  <2> SUFFICES ASSUME Badge!BadgeTypeOK, [WorkerNext]_workerVars
               PROVE  Badge!BadgeTypeOK'
    OBVIOUS
  <2>1. CASE TimerStep
    BY <2>1 DEF TimerStep, flowVars
  <2>2. ASSUME NEW id \in Ids, Ask(id)  PROVE Badge!BadgeTypeOK'
    BY <2>2 DEF Ask, Badge!Open, Badge!PopupOpens, Badge!PopupFails, Badge!Flow!Open
  <2>3. ASSUME NEW id \in Ids, Respond(id)  PROVE Badge!BadgeTypeOK'
    BY <2>3 DEF Respond, Badge!Settle, Badge!ClearIfDone, Badge!Flow!Settle
  <2>4. CASE LockAndCancel
    BY <2>4 DEF LockAndCancel, Badge!CancelAll, Badge!Flow!CancelAll
  <2>5. CASE WorkerRestart
    BY <2>5 DEF WorkerRestart, Badge!BadgeRestart
  <2>6. CASE UNCHANGED workerVars
    BY <2>6 DEF workerVars, flowVars
  <2> QED
    BY <2>1, <2>2, <2>3, <2>4, <2>5, <2>6 DEF WorkerNext
<1> QED
  BY <1>1, <1>2, WorkerKeepsTime, TypeCorrect, PTL DEF WorkerSpec, WorkerTypeOK

\* A request that waits unseen has its badge. The invariant is inductive with
\* the fact that only waiting requests are counted (approval-flow.ts).
UnseenWaits == unseen \subseteq pending /\ UnseenIsBadged

THEOREM UnseenHasBadge == WorkerSpec => []UnseenIsBadged
<1> USE DEF UnseenWaits, UnseenIsBadged, Badge!UnseenIsBadged
<1>1. WorkerInit => UnseenWaits
  BY DEF WorkerInit, Badge!BadgeInit
<1>2. UnseenWaits /\ [WorkerNext]_workerVars => UnseenWaits'
  <2> SUFFICES ASSUME UnseenWaits, [WorkerNext]_workerVars  PROVE UnseenWaits'
    OBVIOUS
  <2>1. CASE TimerStep
    BY <2>1 DEF TimerStep, flowVars
  <2>2. ASSUME NEW id \in Ids, Ask(id)  PROVE UnseenWaits'
    BY <2>2 DEF Ask, Badge!Open, Badge!PopupOpens, Badge!PopupFails, Badge!Flow!Open
  <2>3. ASSUME NEW id \in Ids, Respond(id)  PROVE UnseenWaits'
    BY <2>3 DEF Respond, Badge!Settle, Badge!ClearIfDone, Badge!Flow!Settle
  <2>4. CASE LockAndCancel
    BY <2>4 DEF LockAndCancel, Badge!CancelAll, Badge!Flow!CancelAll
  <2>5. CASE WorkerRestart
    BY <2>5 DEF WorkerRestart, Badge!BadgeRestart
  <2>6. CASE UNCHANGED workerVars
    BY <2>6 DEF workerVars, flowVars
  <2> QED
    BY <2>1, <2>2, <2>3, <2>4, <2>5, <2>6 DEF WorkerNext
<1> QED
  BY <1>1, <1>2, PTL DEF WorkerSpec

=============================================================================
