---------------------------- MODULE NetworkProofs ----------------------------
(***************************************************************************)
(* The wallet core's ways to the outside: reads behind a token bucket and    *)
(* histories in pages (Adapters), and subscriptions over a socket that may   *)
(* be lost (Subscription).                                                   *)
(*                                                                         *)
(* For any rate, capacity, number of reads, attempts and delays: the token   *)
(* bucket lets no more calls start in any stretch of time than it holds and  *)
(* is refilled with meanwhile. What carries the induction is the account of  *)
(* every start so far: the tokens taken since then and those still in the    *)
(* bucket are what it held at most and was refilled with until it was last   *)
(* looked at.                                                              *)
(*                                                                         *)
(* For any indexers, size of pages and number of transactions: the pages of  *)
(* one indexer leave out nothing that was there when the reader began.       *)
(*                                                                         *)
(* For any subscriptions, filters, server ids and number of drops: the       *)
(* adapter is well typed, hands a notification only to the filter the        *)
(* server means, and holds only ids that the present socket routes to it.    *)
(***************************************************************************)
EXTENDS Adapters, Subscription, FiniteSetTheorems, TLAPS

-----------------------------------------------------------------------------
(* The rate limiter                                                          *)

RateTyped ==
    /\ clock \in Nat /\ last \in Nat /\ last <= clock
    /\ bucket \in Nat /\ bucket <= Full
    /\ starts \in Seq(Nat)

\* How many tokens were taken from the i-th start on.
Taken(i) == (Len(starts) - i + 1) * Period

Accounted ==
    \A i \in DOMAIN starts :
        starts[i] <= last /\ Taken(i) + bucket <= Full + (last - starts[i])

RateIInv == RateTyped /\ Accounted /\ RateRespected

LEMMA Capacity == Period \in Nat /\ Period > 0 /\ Full \in Nat
BY RateAssumption DEF RateAssumption, Full

LEMMA OneMore ==
    ASSUME NEW n \in Nat, NEW i \in 1..n
    PROVE  /\ (n - i + 1) * Period \in Nat
           /\ ((n + 1) - i + 1) * Period = (n - i + 1) * Period + Period
<1>1. Period \in Nat
  BY Capacity
<1> DEFINE k == n - i + 1
<1>2. k \in Nat /\ (n + 1) - i + 1 = k + 1
  OBVIOUS
<1>3. k * Period \in Nat /\ (k + 1) * Period = k * Period + Period
  BY <1>1, <1>2
<1> QED
  BY <1>2, <1>3

LEMMA RefilledBounds ==
    ASSUME RateTyped
    PROVE  Refilled \in Nat /\ Refilled <= Full /\ Refilled <= bucket + (clock - last)
BY Capacity DEF RateTyped, Refilled

\* What is left of the account when the bucket is looked at again.
LEMMA Balance ==
    ASSUME NEW level \in Nat, NEW old \in Nat, NEW now \in Nat, NEW before \in Nat, NEW start \in Nat,
           NEW taken \in Nat, NEW full \in Nat,
           start <= before, before <= now, level <= old + (now - before),
           taken + old <= full + (before - start)
    PROVE  start <= now /\ taken + level <= full + (now - start)
OBVIOUS

\* A call that starts takes its token out of what the bucket was refilled to.
LEMMA StartIsAccounted ==
    ASSUME RateIInv, last' = clock, clock' = clock, Refilled >= Period,
           bucket' = Refilled - Period, starts' = Append(starts, clock)
    PROVE  RateIInv'
<1> DEFINE n == Len(starts)
<1>1. RateTyped /\ Accounted /\ RateRespected
  BY DEF RateIInv
<1>2. n \in Nat /\ DOMAIN starts = 1..n /\ starts' \in Seq(Nat)
  BY <1>1 DEF RateTyped
<1>3. /\ Len(starts') = n + 1 /\ DOMAIN starts' = 1..(n + 1)
      /\ \A i \in 1..n : starts'[i] = starts[i]
      /\ starts'[n + 1] = clock
  BY <1>1, <1>2 DEF RateTyped
<1>4. RateTyped'
  BY <1>1, <1>2, RefilledBounds, Capacity DEF RateTyped, Full
<1>5. ASSUME NEW i \in 1..(n + 1)
      PROVE  /\ starts'[i] \in Nat /\ starts'[i] <= clock
             /\ Taken(i)' \in Nat
             /\ Taken(i)' + bucket' <= Full + (clock - starts'[i])
  <2>1. CASE i = n + 1
    <3>1. Taken(i)' = Period
      BY <1>2, <1>3, <2>1, Capacity DEF Taken
    <3>2. Refilled \in Nat /\ Refilled <= Full /\ clock \in Nat
      BY <1>1, RefilledBounds DEF RateTyped
    <3> QED
      BY <1>3, <2>1, <3>1, <3>2, Capacity
  <2>2. CASE i \in 1..n
    <3>1. Taken(i) \in Nat /\ Taken(i)' = Taken(i) + Period
      BY <1>2, <1>3, <2>2, OneMore DEF Taken
    <3>2. starts[i] \in Nat /\ starts[i] <= last /\ Taken(i) + bucket <= Full + (last - starts[i])
      BY <1>1, <1>2, <2>2 DEF RateTyped, Accounted
    <3>3. /\ Refilled \in Nat /\ Refilled <= bucket + (clock - last)
          /\ clock \in Nat /\ last \in Nat /\ last <= clock /\ bucket \in Nat
      BY <1>1, RefilledBounds DEF RateTyped
    <3>4. starts[i] <= clock /\ Taken(i) + Refilled <= Full + (clock - starts[i])
      BY <3>1, <3>2, <3>3, Balance, Capacity
    <3>5. Taken(i)' + bucket' = Taken(i) + Refilled /\ Taken(i)' \in Nat
      BY <3>1, <3>3, Capacity
    <3> QED
      BY <1>3, <2>2, <3>2, <3>4, <3>5
  <2> QED
    BY <1>2, <2>1, <2>2
<1>6. Accounted'
  BY <1>3, <1>5 DEF Accounted, Full
<1>7. RateRespected'
  <2> SUFFICES ASSUME NEW i \in 1..(n + 1), NEW j \in 1..(n + 1), i <= j
               PROVE  (j - i + 1) * Period <= Full + (starts'[j] - starts'[i])
    BY <1>3 DEF RateRespected, Full
  <2>1. CASE j = n + 1
    <3>1. Taken(i)' = (j - i + 1) * Period
      BY <1>3, <2>1 DEF Taken
    <3>2. bucket' >= 0 /\ bucket' \in Nat
      BY <1>4 DEF RateTyped
    <3>3. /\ starts'[i] \in Nat /\ Taken(i)' \in Nat /\ clock \in Nat
          /\ Taken(i)' + bucket' <= Full + (clock - starts'[i])
      BY <1>1, <1>5 DEF RateTyped
    <3>4. starts'[j] = clock
      BY <1>3, <2>1
    <3>5. Taken(i)' <= Full + (clock - starts'[i])
      BY <3>2, <3>3, Capacity
    <3> QED
      BY <3>1, <3>4, <3>5
  <2>2. CASE j \in 1..n
    <3>1. i \in 1..n
      BY <1>2, <2>2
    <3>2. (j - i + 1) * Period <= Full + (starts[j] - starts[i])
      BY <1>1, <1>2, <2>2, <3>1 DEF RateRespected
    <3>3. starts'[i] = starts[i] /\ starts'[j] = starts[j]
      BY <1>3, <2>2, <3>1
    <3> QED
      BY <3>2, <3>3
  <2> QED
    BY <1>2, <2>1, <2>2
<1> QED
  BY <1>4, <1>6, <1>7 DEF RateIInv

\* A look at the bucket that finds no token changes when it was looked at.
LEMMA LookIsAccounted ==
    ASSUME RateIInv, last' = clock, clock' = clock, bucket' = Refilled, UNCHANGED starts
    PROVE  RateIInv'
<1>1. RateTyped /\ Accounted /\ RateRespected
  BY DEF RateIInv
<1>2. RateTyped'
  BY <1>1, RefilledBounds, Capacity DEF RateTyped, Full
<1>3. ASSUME NEW i \in DOMAIN starts
      PROVE  starts[i] <= clock /\ Taken(i) + Refilled <= Full + (clock - starts[i])
  <2>1. starts[i] \in Nat /\ Len(starts) \in Nat /\ i \in 1..Len(starts)
    BY <1>1 DEF RateTyped
  <2>2. Taken(i) \in Nat
    BY <2>1, OneMore DEF Taken
  <2>3. starts[i] <= last /\ Taken(i) + bucket <= Full + (last - starts[i])
    BY <1>1 DEF Accounted
  <2>4. /\ Refilled \in Nat /\ Refilled <= bucket + (clock - last)
        /\ clock \in Nat /\ last \in Nat /\ last <= clock /\ bucket \in Nat
    BY <1>1, RefilledBounds DEF RateTyped
  <2> QED
    BY <2>1, <2>2, <2>3, <2>4, Balance, Capacity
<1>4. Accounted'
  BY <1>3 DEF Accounted, Taken, Full
<1>5. RateRespected'
  BY <1>1 DEF RateRespected, Full
<1> QED
  BY <1>2, <1>4, <1>5 DEF RateIInv

LEMMA TimePasses ==
    ASSUME RateIInv, clock' = clock + 1, UNCHANGED <<bucket, last, starts>>
    PROVE  RateIInv'
<1>1. RateTyped'
  BY DEF RateIInv, RateTyped, Full
<1>2. Accounted' /\ RateRespected'
  BY DEF RateIInv, Accounted, Taken, RateRespected, Full
<1> QED
  BY <1>1, <1>2 DEF RateIInv

LEMMA NothingMoves ==
    ASSUME RateIInv, UNCHANGED <<clock, bucket, last, starts>>
    PROVE  RateIInv'
BY DEF RateIInv, RateTyped, Accounted, Taken, RateRespected, Full

LEMMA InitIsAccounted == AdaptersInit => RateIInv
BY Capacity DEF AdaptersInit, RateIInv, RateTyped, Accounted, RateRespected

LEMMA StepIsAccounted == RateIInv /\ [AdaptersNext]_adaptersVars => RateIInv'
<1> SUFFICES ASSUME RateIInv, [AdaptersNext]_adaptersVars PROVE RateIInv'
  OBVIOUS
<1>1. CASE ReadNext
  <2>1. ASSUME NEW r \in Reads, NEW what \in Kinds, Begin(r, what) PROVE RateIInv'
    BY <2>1, NothingMoves DEF Begin
  <2>2. ASSUME NEW r \in Reads, Acquire(r) PROVE RateIInv'
    BY <2>2, StartIsAccounted, LookIsAccounted DEF Acquire
  <2>3. ASSUME NEW r \in Reads, Answers(r) \/ Throws(r) \/ Retry(r) PROVE RateIInv'
    BY <2>3, NothingMoves DEF Answers, Throws, Retry
  <2>4. CASE Tick
    BY <2>4, TimePasses DEF Tick
  <2> QED
    BY <1>1, <2>1, <2>2, <2>3, <2>4 DEF ReadNext
<1>2. CASE HistoryNext \/ PriceNext
  BY <1>2, NothingMoves DEF HistoryNext, PriceNext, reading
<1>3. CASE UNCHANGED adaptersVars
  BY <1>3, NothingMoves DEF adaptersVars, reading
<1> QED
  BY <1>1, <1>2, <1>3 DEF AdaptersNext

\* The rate is never exceeded, whoever waits, fails and asks again
\* (rate-limit.ts, retry.ts).
THEOREM RateIsRespected == AdaptersSpec => []RateRespected
<1>1. RateIInv => RateRespected
  BY DEF RateIInv
<1> QED
  BY InitIsAccounted, StepIsAccounted, <1>1, PTL DEF AdaptersSpec

-----------------------------------------------------------------------------
(* The history of an address. While one indexer answers, the oldest          *)
(* transaction read and the cursor move together: a cursor that names a      *)
(* transaction names the oldest one, and a page number points no further     *)
(* down than just below it, because transactions that arrive shift a page    *)
(* upwards.                                                                *)

Kinds3 == {"tether", "etherscan", "solana"}

Reading ==
    /\ ledger \in Nat /\ walk.via \in Indexers /\ walk.at \in Nat \ {0}
    /\ walk.by \subseteq Kinds3
    /\ walk = [via |-> walk.via, cursor |-> walk.cursor, got |-> walk.got, by |-> walk.by,
               first |-> walk.first, at |-> walk.at, over |-> walk.over]

\* The transaction above which all up to the first one are read, and whence the
\* next page goes on.
Oldest(low, kind) ==
    /\ low \in walk.got /\ low <= walk.first /\ \A t \in walk.got : low <= t
    /\ walk.cursor \in [of : {kind}, mark : Nat \ {0}]
    /\ IF kind = "etherscan"
       THEN low - 1 <= ledger - (walk.cursor.mark - 1) * PageSize
       ELSE walk.cursor.mark = low

ReadBy(kind) ==
    /\ kind \in Kinds3 /\ walk.first \in 0..ledger /\ walk.got \subseteq 1..ledger
    /\ walk.over \in BOOLEAN
    /\ walk.over => 1..walk.first \subseteq walk.got
    /\ ~walk.over =>
           \E low \in 1..walk.first : low..walk.first \subseteq walk.got /\ Oldest(low, kind)

Paged ==
    /\ walk.by = {} => walk.cursor = Absent /\ walk.got = {}
    /\ \A kind : walk.by = {kind} => ReadBy(kind)

HistoryIInv == Reading /\ Paged

\* A page of a run of transactions is its newest end, and full if the run is long enough.
LEMMA IntervalSize ==
    ASSUME NEW a \in Int, NEW b \in Int
    PROVE  Cardinality(a..b) = IF a > b THEN 0 ELSE b - a + 1
BY FS_Interval

LEMMA PageIs ==
    ASSUME NEW n \in Int
    PROVE  /\ Newest(1..n) = {t \in 1..n : t > n - PageSize}
           /\ Cardinality(Newest(1..n)) = PageSize <=> n >= PageSize
           /\ n >= PageSize => Newest(1..n) = (n - PageSize + 1)..n
<1>1. PageSize \in Nat \ {0}
  BY HistoryAssumption
<1>2. ASSUME NEW t \in 1..n
      PROVE  Cardinality({u \in 1..n : u >= t}) = n - t + 1
  <2>1. {u \in 1..n : u >= t} = t..n /\ t \in Int /\ t <= n
    OBVIOUS
  <2>2. Cardinality(t..n) = n - t + 1
    BY <2>1, IntervalSize
  <2> QED
    BY <2>1, <2>2
<1>3. Newest(1..n) = {t \in 1..n : t > n - PageSize}
  BY <1>1, <1>2 DEF Newest
<1>4. CASE n >= PageSize
  <2>1. ASSUME NEW t
        PROVE  t \in Newest(1..n) <=> t \in (n - PageSize + 1)..n
    BY <1>1, <1>3, <1>4
  <2>2. Newest(1..n) = (n - PageSize + 1)..n
    BY <2>1
  <2>3. Cardinality((n - PageSize + 1)..n) = PageSize
    BY <1>1, <1>4, IntervalSize
  <2> QED
    BY <1>3, <1>4, <2>2, <2>3
<1>5. CASE n < PageSize
  <2>1. ASSUME NEW t
        PROVE  t \in Newest(1..n) <=> t \in 1..n
    BY <1>1, <1>3, <1>5
  <2>2. Newest(1..n) = 1..n
    BY <2>1
  <2>3. Cardinality(1..n) = IF 1 > n THEN 0 ELSE n - 1 + 1
    BY IntervalSize
  <2>4. Cardinality(1..n) # PageSize
    BY <1>1, <1>5, <2>3
  <2> QED
    BY <1>1, <1>3, <1>5, <2>2, <2>4
<1> QED
  BY <1>1, <1>4, <1>5

LEMMA MinIs ==
    ASSUME NEW S \in SUBSET Int, NEW m \in S, \A t \in S : m <= t
    PROVE  Min(S) = m
<1>1. \E x \in S : \A y \in S : x <= y
  OBVIOUS
<1>2. Min(S) \in S /\ \A y \in S : Min(S) <= y
  BY <1>1 DEF Min
<1>3. Min(S) <= m /\ m <= Min(S) /\ Min(S) \in Int /\ m \in Int
  BY <1>2
<1> QED
  BY <1>3

\* What a fetch reads: the newest end of 1..n, where n is given by its cursor.
Upto(kind, cursor) ==
    IF kind = "etherscan" THEN ledger - (PageNo(cursor) - 1) * PageSize
    ELSE IF cursor = Absent THEN ledger ELSE cursor.mark - 1

LEMMA RecordsAre ==
    ASSUME ledger \in Nat, NEW kind, NEW cursor,
           cursor # Absent => cursor.mark \in Nat,
           cursor # Absent /\ kind # "etherscan" => cursor.mark <= ledger + 1
    PROVE  Upto(kind, cursor) \in Int /\ Records(kind, cursor) = Newest(1..Upto(kind, cursor))
<1>1. PageSize \in Nat \ {0} /\ PageNo(cursor) \in Nat
  BY HistoryAssumption DEF PageNo
<1>2. (PageNo(cursor) - 1) * PageSize \in Int
  BY <1>1
<1>3. Upto(kind, cursor) \in Int
  BY <1>2 DEF Upto
<1>4. cursor # Absent /\ kind # "etherscan" =>
          {t \in 1..ledger : t < cursor.mark} = 1..(cursor.mark - 1)
  OBVIOUS
<1> QED
  BY <1>3, <1>4 DEF Upto, Records

\* The step of a fetch that reads the newest end of 1..n, where all transactions
\* from low up are read, or none.
GoesOn(kind, cursor, n, low) ==
    /\ walk'.got = walk.got \cup Newest(1..n)
    /\ walk'.over = (Cardinality(Newest(1..n)) # PageSize)
    /\ walk'.cursor = IF Cardinality(Newest(1..n)) = PageSize
                      THEN CursorAfter(kind, cursor, Newest(1..n)) ELSE Absent
    /\ ledger' = ledger /\ walk'.first \in 0..ledger
    /\ n <= ledger /\ low - 1 <= n
    /\ walk.got \subseteq 1..ledger /\ \A t \in walk.got : low <= t
    /\ \/ low \in walk.got /\ low <= walk'.first
       \/ walk.got = {} /\ walk'.first = ledger /\ low = ledger + 1
    /\ low..walk'.first \subseteq walk.got
    /\ IF kind = "etherscan"
       THEN PageNo(cursor) \in Nat \ {0} /\ n = ledger - (PageNo(cursor) - 1) * PageSize
       ELSE n = low - 1

\* A fetch that goes on from low leaves no gap below it, and its cursor goes on
\* from what is the oldest then.
LEMMA FetchGoesOn ==
    ASSUME HistoryIInv, NEW kind \in Kinds3, NEW cursor, NEW n \in Int, NEW low \in 1..(ledger + 1),
           GoesOn(kind, cursor, n, low)
    PROVE  ReadBy(kind)'
<1> USE DEF GoesOn
<1> DEFINE records == Newest(1..n)
           first == walk'.first
<1>1. PageSize \in Nat \ {0} /\ ledger \in Nat /\ low \in Nat /\ first \in Nat
  BY HistoryAssumption DEF HistoryIInv, Reading
<1>2. records = {t \in 1..n : t > n - PageSize}
      /\ (Cardinality(records) = PageSize <=> n >= PageSize)
  BY PageIs
<1>3. /\ walk'.got = walk.got \cup records
      /\ walk'.over = (Cardinality(records) # PageSize)
      /\ walk'.cursor = IF Cardinality(records) = PageSize
                        THEN CursorAfter(kind, cursor, records) ELSE Absent
  OBVIOUS
<1>4. walk'.got \subseteq 1..ledger'
  BY <1>1, <1>2, <1>3
<1>5. ASSUME n < PageSize
      PROVE  1..first \subseteq walk'.got
  BY <1>1, <1>2, <1>3, <1>5
<1>6. ASSUME n >= PageSize
      PROVE  \E l \in 1..first : l..first \subseteq walk'.got /\ Oldest(l, kind)'
  <2> DEFINE bottom == n - PageSize + 1
  <2>1. records = bottom..n /\ bottom \in 1..n /\ bottom \in records
    <3>1. records = bottom..n
      BY <1>6, PageIs
    <3> QED
      BY <1>1, <1>6, <3>1
  <2>2. Min(records) = bottom
    BY <2>1, MinIs
  <2>3. walk'.cursor = CursorAfter(kind, cursor, records)
    BY <1>2, <1>3, <1>6
  <2> DEFINE l == IF low \in walk.got /\ low <= bottom THEN low ELSE bottom
  <2>4. l \in walk'.got /\ l <= low /\ \A t \in walk'.got : l <= t
    BY <1>1, <1>3, <2>1
  <2>5. l \in 1..first /\ l..first \subseteq walk'.got
    <3>1. l >= 1 /\ l \in Int
      BY <1>1, <2>1
    <3>2. l <= first
      BY <1>1, <2>1
    <3>3. \A t \in l..first : t \in walk'.got
      BY <1>1, <1>3, <2>1
    <3> QED
      BY <3>1, <3>2, <3>3
  <2>6. CASE kind = "etherscan"
    <3> DEFINE page == PageNo(cursor)
    <3>1. walk'.cursor = [of |-> kind, mark |-> page + 1] /\ page \in Nat \ {0}
      BY <2>3, <2>6 DEF CursorAfter
    <3>2. (page - 1) * PageSize \in Int
          /\ ((page + 1) - 1) * PageSize = (page - 1) * PageSize + PageSize
      <4>1. page - 1 \in Nat /\ (page + 1) - 1 = (page - 1) + 1
        BY <3>1
      <4>2. \A k \in Nat : k * PageSize \in Int /\ (k + 1) * PageSize = k * PageSize + PageSize
        BY <1>1
      <4> HIDE DEF page
      <4> QED
        BY <4>1, <4>2
    <3>3. n = ledger - (page - 1) * PageSize
      BY <2>6
    <3> HIDE DEF page
    <3>4. ledger - ((page + 1) - 1) * PageSize = n - PageSize
      BY <1>1, <3>2, <3>3
    <3>5. l - 1 <= n - PageSize
      BY <1>1, <2>1
    <3>6. /\ walk'.cursor \in [of : {kind}, mark : Nat \ {0}]
          /\ l - 1 <= ledger' - (walk'.cursor.mark - 1) * PageSize
      BY <3>1, <3>4, <3>5
    <3> QED
      BY <2>4, <2>5, <2>6, <3>6 DEF Oldest
  <2>7. CASE kind # "etherscan"
    <3>1. l = bottom
      BY <1>1, <2>1, <2>7
    <3>2. walk'.cursor = [of |-> kind, mark |-> bottom] /\ bottom \in Nat \ {0}
      BY <2>1, <2>2, <2>3, <2>7 DEF CursorAfter
    <3> QED
      BY <2>4, <2>5, <2>7, <3>1, <3>2 DEF Oldest
  <2> QED
    BY <2>6, <2>7
<1>7. walk'.over \in BOOLEAN
  BY <1>3, Zenon
<1>8. walk'.over <=> n < PageSize
  <2>1. walk'.over <=> Cardinality(records) # PageSize
    BY <1>3, Zenon
  <2> QED
    BY <1>1, <1>2, <2>1
<1>9. ~walk'.over => \E l \in 1..first : l..first \subseteq walk'.got /\ Oldest(l, kind)'
  BY <1>1, <1>6, <1>8
<1>10. walk'.over => 1..first \subseteq walk'.got
  BY <1>5, <1>8
<1> HIDE DEF records, GoesOn
<1>11. first \in 0..ledger'
  BY DEF GoesOn
<1> QED
  BY <1>4, <1>7, <1>9, <1>10, <1>11 DEF ReadBy

LEMMA FetchKeeps ==
    ASSUME HistoryIInv, Fetch
    PROVE  HistoryIInv'
<1> DEFINE kind == walk.via[walk.at]
<1>1. /\ ledger \in Nat /\ walk.via \in Indexers /\ walk.at \in Nat \ {0}
      /\ ~walk.over /\ walk.at <= Len(walk.via) /\ ledger' = ledger
  BY DEF HistoryIInv, Reading, Fetch
<1>2. kind \in Kinds3
  <2>1. walk.via \in Seq(Kinds3)
    BY <1>1, HistoryAssumption DEF Kinds3
  <2>2. walk.at \in 1..Len(walk.via)
    BY <1>1, <2>1
  <2> QED
    BY <2>1, <2>2
<1>3. PICK cursor \in Understood(kind, walk.cursor) :
          walk' = [via |-> walk.via,
                   cursor |-> IF Cardinality(Records(kind, cursor)) = PageSize
                              THEN CursorAfter(kind, cursor, Records(kind, cursor)) ELSE Absent,
                   got |-> walk.got \cup Records(kind, cursor),
                   by |-> walk.by \cup {kind},
                   first |-> IF walk.by = {} THEN ledger ELSE walk.first,
                   at |-> 1, over |-> ~(Cardinality(Records(kind, cursor)) = PageSize)]
  BY DEF Fetch
<1> DEFINE records == Records(kind, cursor)
<1>4. Reading'
  <2>1. walk.by \subseteq Kinds3 /\ 1 \in Nat \ {0}
    BY DEF HistoryIInv, Reading
  <2> HIDE DEF kind, records
  <2> QED
    BY <1>1, <1>2, <1>3, <2>1 DEF Reading
<1>5. walk'.by = walk.by \cup {kind}
      /\ walk'.first = (IF walk.by = {} THEN ledger ELSE walk.first)
  BY <1>3
<1>6. ASSUME NEW k, walk'.by = {k}
      PROVE  ReadBy(k)'
  <2>1. k = kind /\ (walk.by = {} \/ walk.by = {kind})
    BY <1>5, <1>6
  <2>2. CASE walk.by = {}
    <3>1. walk.cursor = Absent /\ walk.got = {} /\ cursor = Absent
      BY <2>2 DEF HistoryIInv, Paged, Understood
    <3>2. Upto(kind, cursor) = ledger
      BY <1>1, <3>1, HistoryAssumption DEF PageNo, Upto
    <3>3. records = Newest(1..ledger)
      BY <1>1, <3>1, <3>2, RecordsAre
    <3>4. walk'.first = ledger /\ ledger + 1 \in 1..(ledger + 1)
      BY <1>1, <1>5, <2>2
    <3>5. IF kind = "etherscan"
          THEN PageNo(cursor) \in Nat \ {0} /\ ledger = ledger - (PageNo(cursor) - 1) * PageSize
          ELSE ledger = (ledger + 1) - 1
      BY <1>1, <3>1, HistoryAssumption DEF PageNo
    <3>6. /\ walk'.got = walk.got \cup Newest(1..ledger)
          /\ walk'.over = (Cardinality(Newest(1..ledger)) # PageSize)
          /\ walk'.cursor = IF Cardinality(Newest(1..ledger)) = PageSize
                            THEN CursorAfter(kind, cursor, Newest(1..ledger)) ELSE Absent
      BY <1>3, <3>3
    <3>7. ledger \in Int /\ (ledger + 1)..walk'.first = {}
      BY <1>1, <3>4
    <3>8. PICK n \in Int : n = ledger
      BY <3>7
    <3> HIDE DEF kind, records
    <3>9. GoesOn(k, cursor, n, n + 1)
      BY <1>1, <2>1, <3>1, <3>4, <3>5, <3>6, <3>7, <3>8 DEF GoesOn
    <3> QED
      BY <1>2, <2>1, <3>4, <3>8, <3>9, FetchGoesOn
  <2>3. CASE walk.by = {kind}
    <3>1. ReadBy(kind)
      BY <2>3 DEF HistoryIInv, Paged
    <3>2. PICK low \in 1..walk.first : low..walk.first \subseteq walk.got /\ Oldest(low, kind)
      BY <1>1, <3>1 DEF ReadBy
    <3>3. /\ walk.cursor \in [of : {kind}, mark : Nat \ {0}] /\ walk.cursor # Absent
          /\ low \in walk.got /\ low <= walk.first /\ \A t \in walk.got : low <= t
      BY <1>2, <3>2, AbsentAssumption DEF Oldest, Kinds3
    <3>4. cursor = walk.cursor
      BY <3>3 DEF Understood
    <3>5. walk.first \in 0..ledger /\ walk.got \subseteq 1..ledger /\ walk'.first = walk.first
      BY <1>5, <2>3, <3>1 DEF ReadBy
    <3>6. PICK n \in Int : n = Upto(kind, cursor) /\ records = Newest(1..n)
      <4>1. cursor.mark \in Nat /\ (kind # "etherscan" => cursor.mark <= ledger + 1)
        BY <1>1, <3>2, <3>3, <3>4, <3>5 DEF Oldest
      <4> QED
        BY <1>1, <4>1, RecordsAre
    <3>7. PageSize \in Nat \ {0} /\ PageNo(cursor) = cursor.mark /\ cursor.mark \in Nat \ {0}
      BY <3>3, <3>4, HistoryAssumption DEF PageNo
    <3>8. /\ low - 1 <= n /\ n <= ledger
          /\ IF kind = "etherscan"
             THEN PageNo(cursor) \in Nat \ {0} /\ n = ledger - (PageNo(cursor) - 1) * PageSize
             ELSE n = low - 1
      <4>1. CASE kind = "etherscan"
        <5>1. n = ledger - (cursor.mark - 1) * PageSize
          BY <3>6, <3>7, <4>1 DEF Upto
        <5>2. (cursor.mark - 1) * PageSize \in Nat
          BY <3>7
        <5>3. low - 1 <= ledger - (cursor.mark - 1) * PageSize
          BY <3>2, <3>4, <4>1 DEF Oldest
        <5> QED
          BY <1>1, <3>7, <4>1, <5>1, <5>2, <5>3
      <4>2. CASE kind # "etherscan"
        <5>1. n = low - 1
          BY <3>2, <3>3, <3>4, <3>6, <4>2 DEF Oldest, Upto
        <5> QED
          BY <1>1, <3>5, <4>2, <5>1
      <4> QED
        BY <4>1, <4>2
    <3>9. /\ walk'.got = walk.got \cup Newest(1..n)
          /\ walk'.over = (Cardinality(Newest(1..n)) # PageSize)
          /\ walk'.cursor = IF Cardinality(Newest(1..n)) = PageSize
                            THEN CursorAfter(kind, cursor, Newest(1..n)) ELSE Absent
      BY <1>3, <3>6
    <3>10. low \in 1..(ledger + 1) /\ walk'.first \in 0..ledger
           /\ low..walk'.first \subseteq walk.got
      BY <1>1, <3>2, <3>5
    <3> HIDE DEF kind, records
    <3>11. GoesOn(k, cursor, n, low)
      BY <1>1, <2>1, <3>3, <3>5, <3>8, <3>9, <3>10 DEF GoesOn
    <3> QED
      BY <1>2, <2>1, <3>6, <3>10, <3>11, FetchGoesOn
  <2> QED
    BY <2>1, <2>2, <2>3
<1>7. walk'.by # {}
  BY <1>5
<1> QED
  BY <1>4, <1>6, <1>7 DEF HistoryIInv, Paged

\* Between two pages, and while the indexers are tried, only the ledger moves.
LEMMA BetweenPages ==
    ASSUME HistoryIInv, ledger' = ledger \/ ledger' = ledger + 1, NEW n \in Nat \ {0},
           walk' = [via |-> walk.via, cursor |-> walk.cursor, got |-> walk.got, by |-> walk.by,
                    first |-> walk.first, at |-> n, over |-> walk.over]
    PROVE  HistoryIInv'
<1>1. Reading'
  BY DEF HistoryIInv, Reading
<1>2. ASSUME NEW k, ReadBy(k)
      PROVE  ReadBy(k)'
  <2>1. ledger \in Nat /\ ledger' \in Nat /\ ledger <= ledger'
    BY DEF HistoryIInv, Reading
  <2>2. walk'.first \in 0..ledger' /\ walk'.got \subseteq 1..ledger'
    BY <1>2, <2>1 DEF ReadBy
  <2>3. ASSUME NEW low \in 1..walk.first, Oldest(low, k)
        PROVE  Oldest(low, k)'
    <3>1. walk.cursor.mark \in Nat \ {0} /\ PageSize \in Nat
      BY <2>3, HistoryAssumption DEF Oldest
    <3>2. (walk.cursor.mark - 1) * PageSize \in Int
      BY <3>1
    <3> QED
      BY <2>1, <2>3, <3>1, <3>2 DEF Oldest
  <2>4. ~walk'.over =>
            \E low \in 1..walk'.first : low..walk'.first \subseteq walk'.got /\ Oldest(low, k)'
    BY <1>2, <2>3 DEF ReadBy
  <2> QED
    BY <1>2, <2>2, <2>4 DEF ReadBy
<1> QED
  BY <1>1, <1>2 DEF HistoryIInv, Paged

LEMMA HistoryInit == AdaptersInit => HistoryIInv
<1> SUFFICES ASSUME AdaptersInit PROVE HistoryIInv
  OBVIOUS
<1>1. PICK via \in Indexers : walk = NewWalk(via)
  BY DEF AdaptersInit
<1>2. ledger \in Nat
  BY HistoryAssumption DEF AdaptersInit
<1> QED
  BY <1>1, <1>2 DEF NewWalk, HistoryIInv, Reading, Paged

LEMMA HistoryStep == HistoryIInv /\ [AdaptersNext]_adaptersVars => HistoryIInv'
<1> SUFFICES ASSUME HistoryIInv, [AdaptersNext]_adaptersVars PROVE HistoryIInv'
  OBVIOUS
<1>1. walk.at \in Nat \ {0} /\ ledger \in Nat
  BY DEF HistoryIInv, Reading
<1>2. walk = [via |-> walk.via, cursor |-> walk.cursor, got |-> walk.got, by |-> walk.by,
              first |-> walk.first, at |-> walk.at, over |-> walk.over]
  BY DEF HistoryIInv, Reading
<1>3. ASSUME NEW n \in Nat \ {0}, walk' = [walk EXCEPT !.at = n], ledger' = ledger
      PROVE  HistoryIInv'
  <2>1. walk' = [via |-> walk.via, cursor |-> walk.cursor, got |-> walk.got, by |-> walk.by,
                 first |-> walk.first, at |-> n, over |-> walk.over]
    BY <1>2, <1>3
  <2> QED
    BY <1>3, <2>1, BetweenPages
<1>4. CASE NewTx \/ UNCHANGED <<ledger, walk>>
  BY <1>1, <1>2, <1>4, BetweenPages DEF NewTx
<1>5. CASE Unavailable
  <2>1. walk' = [walk EXCEPT !.at = walk.at + 1] /\ ledger' = ledger
    BY <1>5 DEF Unavailable
  <2>2. PICK n \in Nat \ {0} : n = walk.at + 1
    BY <1>1
  <2> QED
    BY <1>3, <2>1, <2>2
<1>6. CASE AskAgain
  BY <1>3, <1>6 DEF AskAgain
<1> QED
  BY <1>4, <1>5, <1>6, FetchKeeps DEF AdaptersNext, ReadNext, HistoryNext, PriceNext, paging, adaptersVars

\* However many transactions arrive between two pages, and whatever the size of a
\* page, a reader that one indexer answers misses none that was there when it began
\* (indexer.ts: nextCursor).
THEOREM NoGapBetweenPages == AdaptersSpec => []PagesLeaveNoGap
<1>1. HistoryIInv => PagesLeaveNoGap
  <2> SUFFICES ASSUME HistoryIInv, Cardinality(walk.by) = 1
               PROVE  (IF walk.over THEN 1 ELSE Min(walk.got))..walk.first \subseteq walk.got
    BY DEF PagesLeaveNoGap
  <2>1. PICK k : walk.by = {k}
    <3>1. IsFiniteSet(Kinds3)
      <4>1. IsFiniteSet({"tether"} \cup {"etherscan"})
        BY FS_Singleton, FS_AddElement
      <4>2. Kinds3 = ({"tether"} \cup {"etherscan"}) \cup {"solana"}
        BY DEF Kinds3
      <4> QED
        BY ONLY <4>1, <4>2, FS_AddElement
    <3>2. IsFiniteSet(walk.by)
      BY <3>1, FS_Subset DEF HistoryIInv, Reading
    <3> QED
      BY <3>2, FS_Singleton
  <2>2. ReadBy(k)
    BY <2>1 DEF HistoryIInv, Paged
  <2>3. CASE walk.over
    BY <2>2, <2>3 DEF ReadBy
  <2>4. CASE ~walk.over
    <3>1. PICK low \in 1..walk.first : low..walk.first \subseteq walk.got /\ Oldest(low, k)
      BY <2>2, <2>4 DEF ReadBy
    <3>2. Min(walk.got) = low
      BY <2>2, <3>1, MinIs DEF ReadBy, Oldest
    <3> QED
      BY <2>4, <3>1, <3>2
  <2> QED
    BY <2>3, <2>4
<1> QED
  BY <1>1, HistoryInit, HistoryStep, PTL DEF AdaptersSpec

-----------------------------------------------------------------------------
(* Subscriptions                                                             *)

USE FiltersAssumption, OfferedAssumption, NoneAssumption, LoopsAssumption, MaxAssumption
    DEF FiltersAssumption, OfferedAssumption, NoneAssumption, LoopsAssumption, MaxAssumption

LEMMA FiltersAreRegs ==
    ASSUME NEW s \in Subs, NEW k \in 1 .. Filters[s]
    PROVE  <<s, k>> \in Regs
BY DEF Regs

\* What is true of a call that is not past its last filter.
LEMMA CurrentFilter ==
    ASSUME TypeOK, NEW s \in Subs, sub[s].at <= Filters[s]
    PROVE  sub[s].at \in 1 .. Filters[s] /\ Filter(s) \in Regs
<1>1. sub[s] \in Call /\ Filters[s] \in Nat
  BY DEF TypeOK
<1>2. sub[s].at \in 1 .. Filters[s]
  BY <1>1 DEF Call
<1> QED
  BY <1>2, FiltersAreRegs DEF Filter

\* The maps of ids that an action leaves behind: typed as TypeOK has it.
MapsOK ==
    /\ serverId \in [Regs -> Sids \cup {None}]
    /\ DOMAIN route \subseteq Sids /\ \A i \in DOMAIN route : route[i] \in Regs
    /\ DOMAIN server \subseteq Sids /\ \A i \in DOMAIN server : server[i] \in Regs

CallsOK ==
    /\ sub \in [Subs -> Call]
    /\ \A s \in Subs : sub[s].at <= Filters[s] \/ sub[s].step = "removing"

LoopsOK == loop \in [Loops -> Loop]

SocketOK ==
    /\ socket \in {"none", "connecting", "open", "closing"}
    /\ reconnects \in 0 .. MaxReconnects
    /\ drops \in 0 .. MaxDrops
    /\ regs \subseteq Regs
    /\ pending \subseteq Callers

FlagsOK == ready \in BOOLEAN /\ retired \in BOOLEAN /\ gaveUp \in BOOLEAN

ReadyOK == ready => socket \in {"open", "closing"}

LEMMA TypeParts ==
    TypeOK <=> MapsOK /\ CallsOK /\ LoopsOK /\ SocketOK /\ FlagsOK /\ ReadyOK
<1>1. {ready, retired, gaveUp} \subseteq BOOLEAN <=> FlagsOK
  BY Zenon DEF FlagsOK
<1> QED
  BY <1>1, Zenon DEF TypeOK, MapsOK, CallsOK, LoopsOK, SocketOK, ReadyOK

LEMMA TypePartsNext ==
    MapsOK' /\ CallsOK' /\ LoopsOK' /\ SocketOK' /\ FlagsOK' /\ ReadyOK' => TypeOK'
<1>1. FlagsOK' => {ready', retired', gaveUp'} \subseteq BOOLEAN
  BY Zenon DEF FlagsOK
<1> QED
  BY <1>1, Zenon DEF TypeOK, MapsOK, CallsOK, LoopsOK, SocketOK, ReadyOK

LEMMA EstablishMaps ==
    ASSUME MapsOK, NEW g \in Regs, Establish(g)
    PROVE  MapsOK'
<1>1. PICK i \in Offered(Sids \ DOMAIN server) :
         /\ server' = With(server, i, g)
         /\ route' = With(route, i, g)
         /\ serverId' = [serverId EXCEPT ![g] = i]
  BY DEF Establish
<1>2. i \in Sids
  OBVIOUS
<1> QED
  BY <1>1, <1>2 DEF MapsOK, With

\* What the loss of the socket does to one call.
LEMMA CallersFailCases ==
    ASSUME CallersFail, NEW s \in Subs
    PROVE  \/ sub'[s] = FailedCall
           \/ /\ At(s, "unsubscribing")
              /\ sub'[s] = [step |-> "removing", at |-> sub[s].at + 1, sid |-> None]
           \/ ~At(s, "unsubscribing") /\ sub'[s] = sub[s]
<1> USE DEF CallersFail, At
<1>1. CASE At(s, "subscribing")
  BY <1>1
<1>2. CASE At(s, "connecting") /\ ~ready
  BY <1>2
<1>3. CASE At(s, "unsubscribing")
  BY <1>3
<1>4. CASE ~At(s, "subscribing") /\ ~At(s, "unsubscribing") /\ (At(s, "connecting") => ready)
  BY <1>4
<1> QED
  BY <1>1, <1>2, <1>3, <1>4

LEMMA CallersFailOK ==
    ASSUME CallsOK, CallersFail
    PROVE  CallsOK' /\ pending' = {}
<1> SUFFICES ASSUME NEW s \in Subs
             PROVE  sub'[s] \in Call /\ (sub'[s].at <= Filters[s] \/ sub'[s].step = "removing")
  BY DEF CallersFail, CallsOK
<1>1. /\ sub[s] \in Call /\ (sub[s].at <= Filters[s] \/ sub[s].step = "removing")
      /\ sub[s].at + 1 \in Nat \ {0} /\ Filters[s] \in Nat \ {0}
  BY DEF CallsOK, Call
<1>2. CASE sub'[s] = FailedCall
  BY <1>1, <1>2 DEF FailedCall, Call, Steps
<1>3. CASE sub'[s] = [step |-> "removing", at |-> sub[s].at + 1, sid |-> None]
  BY <1>1, <1>3 DEF Call, Steps
<1>4. CASE sub'[s] = sub[s]
  BY <1>1, <1>4
<1> QED
  BY <1>2, <1>3, <1>4, CallersFailCases

LEMMA LoopsFailOK == ASSUME LoopsOK PROVE LoopsFail \in [Loops -> Loop]
BY DEF LoopsOK, LoopsFail, IdleLoop, Loop

LEMMA GoneOK ==
    ASSUME MapsOK, CallsOK, Gone
    PROVE  /\ MapsOK' /\ CallsOK' /\ ReadyOK' /\ ready' \in BOOLEAN
           /\ socket' = "none" /\ pending' = {}
<1>1. MapsOK'
  BY DEF Gone, ForgetIds, MapsOK, NoMap
<1>2. CallsOK' /\ pending' = {}
  BY CallersFailOK DEF Gone
<1>3. ready' \in BOOLEAN /\ ReadyOK'
  BY Zenon DEF Gone, ReadyOK
<1> QED
  BY <1>1, <1>2, <1>3 DEF Gone

\* A call that takes a well-typed step stays well typed.
LEMMA CallMoves ==
    ASSUME CallsOK, NEW s \in Subs,
           NEW step \in Steps, NEW at \in Nat \ {0}, NEW sid \in Sids \cup {None},
           at <= Filters[s] \/ step = "removing",
           SubMoves(s, step, at, sid)
    PROVE  CallsOK'
BY DEF CallsOK, Call, SubMoves

LEMMA LoopMoved ==
    ASSUME LoopsOK, NEW l \in Loops, NEW step, NEW at, NEW visited \in SUBSET Regs,
           \/ step \in {"idle", "timer", "connecting"} /\ at = None
           \/ step = "subscribing" /\ at \in Regs,
           LoopMoves(l, step, at, visited)
    PROVE  LoopsOK'
BY DEF LoopsOK, Loop, LoopMoves

LEMMA LoopFields ==
    ASSUME LoopsOK, NEW l \in Loops
    PROVE  /\ loop[l].visited \in SUBSET Regs
           /\ LoopAt(l, "subscribing") => loop[l].at \in Regs
BY DEF LoopsOK, Loop, LoopAt

LEMMA CallFields ==
    ASSUME CallsOK, NEW s \in Subs
    PROVE  /\ sub[s].step \in Steps /\ sub[s].at \in Nat \ {0}
           /\ sub[s].sid \in Sids \cup {None} /\ Filters[s] \in Nat \ {0}
           /\ sub[s].at + 1 \in Nat \ {0}
BY DEF CallsOK, Call

\* Every step a call can name.
LEMMA StepNames ==
    /\ {"connecting", "subscribing", "active", "removing", "unsubscribing", "done", "failed"}
         \subseteq Steps
    /\ 1 \in Nat \ {0} /\ None \in Sids \cup {None}
BY DEF Steps

LEMMA TypeInit == Init => TypeOK
<1> SUFFICES ASSUME Init  PROVE TypeOK
  OBVIOUS
<1>1. MapsOK /\ LoopsOK /\ SocketOK
  BY DEF Init, MapsOK, LoopsOK, SocketOK, NoMap, IdleLoop, Loop
<1>2. CallsOK
  BY DEF Init, CallsOK, Call, Steps
<1>3. FlagsOK /\ ReadyOK
  BY Zenon DEF Init, FlagsOK, ReadyOK
<1> QED
  BY <1>1, <1>2, <1>3, TypeParts

LEMMA SubTypeStep ==
    ASSUME TypeOK, NEW s \in Subs,
           Subscribe(s) \/ Unsubscribe(s) \/ SubStep(s)
    PROVE  TypeOK'
<1> USE CallFields, StepNames
<1>0. MapsOK /\ CallsOK /\ LoopsOK /\ SocketOK /\ FlagsOK /\ ReadyOK
  BY TypeParts
<1>f. 1 <= Filters[s]
  BY <1>0
<1>1. CASE Subscribe(s)
  <2>1. SubMoves(s, "connecting", 1, None)
    BY <1>1, Zenon DEF Subscribe
  <2>2. CallsOK'
    BY <1>0, <1>f, <2>1, CallMoves
  <2>3. MapsOK' /\ LoopsOK' /\ SocketOK'
    BY <1>0, <1>1 DEF Subscribe, Connect, MapsOK, LoopsOK, SocketOK
  <2>4. FlagsOK'
    BY <1>0, <1>1, Zenon DEF Subscribe, FlagsOK
  <2>5. ReadyOK'
    BY <1>0, <1>1 DEF Subscribe, Connect, ReadyOK
  <2> QED
    BY <2>2, <2>3, <2>4, <2>5, TypePartsNext
<1>2. CASE Unsubscribe(s)
  <2>1. SubMoves(s, "removing", 1, None)
    BY <1>2, Zenon DEF Unsubscribe
  <2>2. CallsOK'
    BY <1>0, <1>f, <2>1, CallMoves
  <2>3. MapsOK' /\ LoopsOK' /\ SocketOK'
    BY <1>0, <1>2 DEF Unsubscribe, MapsOK, LoopsOK, SocketOK
  <2>4. FlagsOK' /\ ReadyOK'
    BY <1>0, <1>2, Zenon DEF Unsubscribe, FlagsOK, ReadyOK
  <2> QED
    BY <2>2, <2>3, <2>4, TypePartsNext
<1>3. CASE Add(s)
  <2>1. sub[s].at <= Filters[s] /\ Filter(s) \in Regs
    BY <1>0, <1>3, CurrentFilter DEF Add, At, CallsOK
  <2>2. SubMoves(s, "subscribing", sub[s].at, None)
    BY <1>3, Zenon DEF Add
  <2>3. CallsOK'
    BY <1>0, <2>1, <2>2, CallMoves
  <2>4. MapsOK' /\ LoopsOK' /\ SocketOK'
    BY <1>0, <1>3, <2>1 DEF Add, MapsOK, LoopsOK, SocketOK, Callers
  <2>5. FlagsOK' /\ ReadyOK'
    BY <1>0, <1>3, Zenon DEF Add, FlagsOK, ReadyOK
  <2> QED
    BY <2>3, <2>4, <2>5, TypePartsNext
<1>4. CASE Added(s)
  <2>1. sub[s].at <= Filters[s] /\ Filter(s) \in Regs
    BY <1>0, <1>4, CurrentFilter DEF Added, At, CallsOK
  <2>2. CallsOK'
    <3>1. CASE sub[s].at < Filters[s]
      <4>1. SubMoves(s, "connecting", sub[s].at + 1, None)
        BY <1>4, <3>1, Zenon DEF Added
      <4>2. sub[s].at + 1 <= Filters[s]
        BY <1>0, <3>1
      <4> QED
        BY <1>0, <4>1, <4>2, CallMoves
    <3>2. CASE ~(sub[s].at < Filters[s])
      <4>1. SubMoves(s, "active", 1, None)
        BY <1>4, <3>2, Zenon DEF Added
      <4> QED
        BY <1>0, <1>f, <4>1, CallMoves
    <3> QED
      BY <3>1, <3>2
  <2>4. MapsOK'
    BY <1>0, <1>4, <2>1, EstablishMaps DEF Added
  <2>5. LoopsOK' /\ SocketOK'
    BY <1>0, <1>4 DEF Added, LoopsOK, SocketOK
  <2>6. FlagsOK' /\ ReadyOK'
    BY <1>0, <1>4, Zenon DEF Added, FlagsOK, ReadyOK
  <2> QED
    BY <2>2, <2>4, <2>5, <2>6, TypePartsNext
<1>5. CASE AddRefused(s)
  <2>1. SubMoves(s, "failed", 1, None)
    BY <1>5, Zenon DEF AddRefused
  <2>2. CallsOK'
    BY <1>0, <1>f, <2>1, CallMoves
  <2>3. MapsOK' /\ LoopsOK' /\ SocketOK'
    BY <1>0, <1>5 DEF AddRefused, MapsOK, LoopsOK, SocketOK
  <2>4. FlagsOK' /\ ReadyOK'
    BY <1>0, <1>5, Zenon DEF AddRefused, FlagsOK, ReadyOK
  <2> QED
    BY <2>2, <2>3, <2>4, TypePartsNext
<1>6. CASE Remove(s)
  <2>1. sub[s].at <= Filters[s] /\ Filter(s) \in Regs
    BY <1>0, <1>6, CurrentFilter DEF Remove
  <2>2. serverId[Filter(s)] \in Sids \cup {None}
    BY <1>0, <2>1 DEF MapsOK
  <2>5. CallsOK' /\ pending' \subseteq Callers
    <3>1. CASE serverId[Filter(s)] # None /\ ready
      <4>1. /\ SubMoves(s, "unsubscribing", sub[s].at, serverId[Filter(s)])
            /\ pending' = pending \cup {s}
        BY <1>6, <3>1, Zenon DEF Remove
      <4> QED
        BY <1>0, <2>1, <2>2, <4>1, CallMoves DEF SocketOK, Callers
    <3>2. CASE ~(serverId[Filter(s)] # None /\ ready)
      <4>1. SubMoves(s, "removing", sub[s].at + 1, None) /\ pending' = pending
        BY <1>6, <3>2, Zenon DEF Remove
      <4> QED
        BY <1>0, <4>1, CallMoves DEF SocketOK
    <3> QED
      BY <3>1, <3>2
  <2>6. MapsOK' /\ LoopsOK' /\ regs' \subseteq Regs
    BY <1>0, <1>6, <2>1 DEF Remove, MapsOK, LoopsOK, SocketOK, Without
  <2>7. SocketOK'
    BY <1>0, <1>6, <2>5, <2>6 DEF Remove, SocketOK
  <2>8. FlagsOK' /\ ReadyOK'
    BY <1>0, <1>6, Zenon DEF Remove, FlagsOK, ReadyOK
  <2> QED
    BY <2>5, <2>6, <2>7, <2>8, TypePartsNext
<1>7. CASE Removed(s)
  <2>1. SubMoves(s, "removing", sub[s].at + 1, None)
    BY <1>7, Zenon DEF Removed
  <2>2. CallsOK'
    BY <1>0, <2>1, CallMoves
  <2>3. MapsOK' /\ LoopsOK' /\ SocketOK'
    BY <1>0, <1>7 DEF Removed, MapsOK, LoopsOK, SocketOK, Without
  <2>4. FlagsOK' /\ ReadyOK'
    BY <1>0, <1>7, Zenon DEF Removed, FlagsOK, ReadyOK
  <2> QED
    BY <2>2, <2>3, <2>4, TypePartsNext
<1>8. CASE MaybeClose(s)
  <2>1. SubMoves(s, "done", 1, None)
    BY <1>8, Zenon DEF MaybeClose
  <2>2. CallsOK'
    BY <1>0, <1>f, <2>1, CallMoves
  <2>3. MapsOK' /\ LoopsOK' /\ SocketOK'
    BY <1>0, <1>8 DEF MaybeClose, MapsOK, LoopsOK, SocketOK
  <2>4. FlagsOK'
    BY <1>0, <1>8, Zenon DEF MaybeClose, FlagsOK
  <2>5. ReadyOK'
    BY <1>0, <1>8 DEF MaybeClose, ReadyOK
  <2> QED
    BY <2>2, <2>3, <2>4, <2>5, TypePartsNext
<1> QED
  BY <1>1, <1>2, <1>3, <1>4, <1>5, <1>6, <1>7, <1>8 DEF SubStep

LEMMA LoopTypeStep ==
    ASSUME TypeOK, NEW l \in Loops, LoopStep(l)
    PROVE  TypeOK'
<1> USE LoopFields
<1>0. MapsOK /\ CallsOK /\ LoopsOK /\ SocketOK /\ FlagsOK /\ ReadyOK
  BY TypeParts
<1>1. CASE TimerFires(l)
  <2>1. LoopMoves(l, "connecting", None, {})
    BY <1>1, Zenon DEF TimerFires
  <2>2. LoopsOK'
    BY <1>0, <2>1, LoopMoved
  <2>3. MapsOK' /\ CallsOK' /\ SocketOK'
    BY <1>0, <1>1 DEF TimerFires, Connect, MapsOK, CallsOK, SocketOK
  <2>4. FlagsOK'
    BY <1>0, <1>1, Zenon DEF TimerFires, FlagsOK
  <2>5. ReadyOK'
    BY <1>0, <1>1 DEF TimerFires, Connect, ReadyOK
  <2> QED
    BY <2>2, <2>3, <2>4, <2>5, TypePartsNext
<1>2. CASE NextFilter(l)
  <2>1. LoopsOK' /\ pending' \subseteq Callers
    <3>1. CASE regs \ loop[l].visited = {}
      <4>1. LoopMoves(l, "idle", None, {}) /\ pending' = pending
        BY <1>2, <3>1, Zenon DEF NextFilter
      <4> QED
        BY <1>0, <4>1, LoopMoved DEF SocketOK
    <3>2. CASE regs \ loop[l].visited # {}
      <4>1. /\ \E g \in regs \ loop[l].visited :
                  LoopMoves(l, "subscribing", g, loop[l].visited \cup {g})
            /\ pending' = pending \cup {l}
        BY <1>2, <3>2, Zenon DEF NextFilter
      <4>2. PICK g \in regs \ loop[l].visited :
                  LoopMoves(l, "subscribing", g, loop[l].visited \cup {g})
        BY <4>1
      <4>3. g \in Regs /\ loop[l].visited \cup {g} \in SUBSET Regs
        BY <1>0 DEF SocketOK
      <4> QED
        BY <1>0, <4>1, <4>2, <4>3, LoopMoved DEF SocketOK, Callers
    <3> QED
      BY <3>1, <3>2
  <2>2. MapsOK' /\ CallsOK' /\ SocketOK'
    BY <1>0, <1>2, <2>1 DEF NextFilter, MapsOK, CallsOK, SocketOK
  <2>3. FlagsOK' /\ ReadyOK'
    BY <1>0, <1>2, Zenon DEF NextFilter, FlagsOK, ReadyOK
  <2> QED
    BY <2>1, <2>2, <2>3, TypePartsNext
<1>3. CASE Renewed(l)
  <2>1. Establish(loop[l].at) /\ LoopMoves(l, "connecting", None, loop[l].visited)
    BY <1>3, Zenon DEF Renewed
  <2>2. LoopsOK'
    BY <1>0, <2>1, LoopMoved
  <2>3. loop[l].at \in Regs
    BY <1>0, <1>3 DEF Renewed
  <2>4. MapsOK'
    BY <1>0, <2>1, <2>3, EstablishMaps
  <2>5. CallsOK' /\ SocketOK'
    BY <1>0, <1>3 DEF Renewed, CallsOK, SocketOK
  <2>6. FlagsOK' /\ ReadyOK'
    BY <1>0, <1>3, Zenon DEF Renewed, FlagsOK, ReadyOK
  <2> QED
    BY <2>2, <2>4, <2>5, <2>6, TypePartsNext
<1>4. CASE RenewalRefused(l)
  <2>1. LoopMoves(l, "idle", None, {})
    BY <1>4, Zenon DEF RenewalRefused
  <2>2. LoopsOK'
    BY <1>0, <2>1, LoopMoved
  <2>3. MapsOK' /\ CallsOK' /\ SocketOK'
    BY <1>0, <1>4 DEF RenewalRefused, MapsOK, CallsOK, SocketOK
  <2>4. FlagsOK' /\ ReadyOK'
    BY <1>0, <1>4, Zenon DEF RenewalRefused, FlagsOK, ReadyOK
  <2> QED
    BY <2>2, <2>3, <2>4, TypePartsNext
<1> QED
  BY <1>1, <1>2, <1>3, <1>4 DEF LoopStep

LEMMA SocketTypeStep ==
    ASSUME TypeOK, SocketSettles \/ SocketDrops
    PROVE  TypeOK'
<1>0. MapsOK /\ CallsOK /\ LoopsOK /\ SocketOK /\ FlagsOK /\ ReadyOK
  BY TypeParts
<1>1. CASE SocketOpens
  <2>1. MapsOK' /\ CallsOK' /\ LoopsOK' /\ SocketOK'
    BY <1>0, <1>1 DEF SocketOpens, MapsOK, CallsOK, LoopsOK, SocketOK
  <2>2. FlagsOK' /\ socket' = "open"
    BY <1>0, <1>1, Zenon DEF SocketOpens, FlagsOK
  <2> QED
    BY <2>1, <2>2, TypePartsNext DEF ReadyOK
<1>2. CASE SocketFails
  <2>1. /\ Gone /\ loop' = LoopsFail
        /\ gaveUp' = (gaveUp \/ \E l \in Loops : LoopFails(l))
        /\ UNCHANGED <<reconnects, drops, regs>> /\ retired' = retired
    BY <1>2, Zenon DEF SocketFails
  <2>2. /\ MapsOK' /\ CallsOK' /\ ReadyOK' /\ ready' \in BOOLEAN
        /\ socket' = "none" /\ pending' = {}
    BY <1>0, <2>1, GoneOK
  <2>3. LoopsOK' /\ SocketOK'
    BY <1>0, <2>1, <2>2, LoopsFailOK DEF LoopsOK, SocketOK
  <2>4. gaveUp' \in BOOLEAN
    BY <2>1
  <2>5. FlagsOK'
    BY <1>0, <2>1, <2>2, <2>4, Zenon DEF FlagsOK
  <2> QED
    BY <2>2, <2>3, <2>5, TypePartsNext
<1>3. CASE SocketCloses
  <2>1. /\ Gone /\ loop' = LoopsFail
        /\ UNCHANGED <<reconnects, drops, regs>>
        /\ retired' = retired /\ gaveUp' = gaveUp
    BY <1>3, Zenon DEF SocketCloses
  <2>2. /\ MapsOK' /\ CallsOK' /\ ReadyOK' /\ ready' \in BOOLEAN
        /\ socket' = "none" /\ pending' = {}
    BY <1>0, <2>1, GoneOK
  <2>3. LoopsOK' /\ SocketOK'
    BY <1>0, <2>1, <2>2, LoopsFailOK DEF LoopsOK, SocketOK
  <2>4. FlagsOK'
    BY <1>0, <2>1, <2>2, Zenon DEF FlagsOK
  <2> QED
    BY <2>2, <2>3, <2>4, TypePartsNext
<1>4. CASE SocketDrops
  <2>1. /\ Gone /\ Schedule /\ drops < MaxDrops /\ drops' = drops + 1
        /\ regs' = regs /\ retired' = retired /\ gaveUp' = gaveUp
    BY <1>4, Zenon DEF SocketDrops
  <2>2. /\ MapsOK' /\ CallsOK' /\ ReadyOK' /\ ready' \in BOOLEAN
        /\ socket' = "none" /\ pending' = {}
    BY <1>0, <2>1, GoneOK
  <2>3. LoopsOK' /\ reconnects' \in 0 .. MaxReconnects
    <3>1. CASE ~retired /\ regs # {} /\ reconnects < MaxReconnects
      <4>1. /\ loop' = [LoopsFail EXCEPT ![drops'] = TimerLoop]
            /\ reconnects' = reconnects + 1
        BY <2>1, <3>1, Zenon DEF Schedule
      <4>2. TimerLoop \in Loop
        BY DEF TimerLoop, Loop
      <4>3. LoopsOK'
        BY <1>0, <4>1, <4>2, LoopsFailOK DEF LoopsOK
      <4>4. reconnects < MaxReconnects
        BY <3>1, Zenon
      <4> QED
        BY <1>0, <4>1, <4>3, <4>4 DEF SocketOK
    <3>2. CASE ~(~retired /\ regs # {} /\ reconnects < MaxReconnects)
      <4>1. loop' = LoopsFail /\ reconnects' = reconnects
        BY <2>1, <3>2, Zenon DEF Schedule
      <4> QED
        BY <1>0, <4>1, LoopsFailOK DEF LoopsOK, SocketOK
    <3> QED
      BY <3>1, <3>2
  <2>4. SocketOK'
    BY <1>0, <2>1, <2>2, <2>3 DEF SocketOK
  <2>5. FlagsOK'
    BY <1>0, <2>1, <2>2, Zenon DEF FlagsOK
  <2> QED
    BY <2>2, <2>3, <2>4, <2>5, TypePartsNext
<1> QED
  BY <1>1, <1>2, <1>3, <1>4 DEF SocketSettles

LEMMA TypeStep == TypeOK /\ [Next]_vars => TypeOK'
<1> SUFFICES ASSUME TypeOK, [Next]_vars  PROVE TypeOK'
  OBVIOUS
<1>1. ASSUME NEW s \in Subs, Subscribe(s) \/ Unsubscribe(s) \/ SubStep(s)
      PROVE  TypeOK'
  BY <1>1, SubTypeStep
<1>2. ASSUME NEW l \in Loops, LoopStep(l)  PROVE TypeOK'
  BY <1>2, LoopTypeStep
<1>3. CASE SocketSettles \/ SocketDrops
  BY <1>3, SocketTypeStep
<1>4. CASE UNCHANGED vars
  BY <1>4, Zenon DEF vars, TypeOK, Filter
<1> QED
  BY <1>1, <1>2, <1>3, <1>4, Zenon DEF Next

\* subscription.ts: every variable keeps its type, a ready connection has its
\* socket, and no call runs past its last filter.
THEOREM TypeCorrect == Spec => []TypeOK
BY TypeInit, TypeStep, PTL DEF Spec

-----------------------------------------------------------------------------
(* The ids. A loop may renew a registration that was removed meanwhile, so  *)
(* what a registration outside regs holds means nothing; what keeps the     *)
(* others right is that a call owns its filters: those it has added are in  *)
(* regs, those it has not were never touched, and the id it is asking the   *)
(* server to forget is still the server's and routed no more.               *)

\* The filters that s has added, and has not yet removed.
Holds(s, k) ==
    \/ At(s, "connecting") /\ k < sub[s].at
    \/ At(s, "subscribing") /\ k <= sub[s].at
    \/ At(s, "active")
    \/ At(s, "removing") /\ k >= sub[s].at
    \/ At(s, "unsubscribing") /\ k > sub[s].at

\* The filters that s has not added yet.
Fresh(s, k) ==
    \/ At(s, "idle")
    \/ At(s, "connecting") /\ k >= sub[s].at
    \/ At(s, "subscribing") /\ k > sub[s].at

Owns(s, k) ==
    /\ Holds(s, k) => <<s, k>> \in regs
    /\ Fresh(s, k) => /\ <<s, k>> \notin regs
                      /\ serverId[<<s, k>>] = None
                      /\ \A l \in Loops : loop[l].at # <<s, k>>

OwnsFilters == \A s \in Subs : \A k \in 1 .. Filters[s] : Owns(s, k)

Ending ==
    \A s \in Subs : At(s, "unsubscribing") =>
        /\ sub[s].sid \in DOMAIN server \ DOMAIN route
        /\ \A u \in Subs \ {s} : At(u, "unsubscribing") => sub[u].sid # sub[s].sid

IdsOK == RoutesAreTheServers /\ HeldIdsRoute /\ Ending

IInv == TypeOK /\ OwnsFilters /\ IdsOK

\* The parts of a typed state the arguments below use.
LEMMA Typed ==
    ASSUME TypeOK
    PROVE  /\ MapsOK /\ CallsOK /\ LoopsOK /\ regs \subseteq Regs
           /\ sub \in [Subs -> Call] /\ loop \in [Loops -> Loop]
           /\ serverId \in [Regs -> Sids \cup {None}]
BY TypeParts DEF MapsOK, CallsOK, LoopsOK, SocketOK

\* The calls that do not move own what they owned.
LEMMA OwnsFrame ==
    ASSUME OwnsFilters, NEW s \in Subs,
           \A u \in Subs \ {s} : sub'[u] = sub[u],
           \A u \in Subs \ {s} : \A k \in 1 .. Filters[u] :
               /\ <<u, k>> \in regs' <=> <<u, k>> \in regs
               /\ serverId'[<<u, k>>] = serverId[<<u, k>>],
           loop' = loop,
           \A k \in 1 .. Filters[s] : Owns(s, k)'
    PROVE  OwnsFilters'
<1> SUFFICES ASSUME NEW u \in Subs \ {s}, NEW k \in 1 .. Filters[u]
             PROVE  Owns(u, k)'
  BY DEF OwnsFilters
<1>1. Owns(u, k)
  BY DEF OwnsFilters
<1> QED
  BY <1>1 DEF Owns, Holds, Fresh, At

\* A loop that moves on leaves alone what was not added.
LEMMA OwnsLoopFrame ==
    ASSUME OwnsFilters, sub' = sub, regs' = regs,
           \A s \in Subs : \A k \in 1 .. Filters[s] : Fresh(s, k) =>
               /\ serverId'[<<s, k>>] = None
               /\ \A l \in Loops : loop'[l].at # <<s, k>>
    PROVE  OwnsFilters'
<1> SUFFICES ASSUME NEW s \in Subs, NEW k \in 1 .. Filters[s]
             PROVE  Owns(s, k)'
  BY DEF OwnsFilters
<1>1. Owns(s, k)
  BY DEF OwnsFilters
<1> QED
  BY <1>1 DEF Owns, Holds, Fresh, At

\* A step of one call.
LEMMA Moved ==
    ASSUME CallsOK, NEW s \in Subs, NEW step, NEW at, NEW sid,
           SubMoves(s, step, at, sid)
    PROVE  /\ sub'[s].step = step /\ sub'[s].at = at /\ sub'[s].sid = sid
           /\ \A u \in Subs \ {s} : sub'[u] = sub[u]
BY DEF CallsOK, SubMoves

LEMMA FiltersDiffer ==
    ASSUME NEW s, NEW u, NEW j, NEW k, s # u
    PROVE  <<s, j>> # <<u, k>>
OBVIOUS

LEMMA SubOwns ==
    ASSUME TypeOK, OwnsFilters, NEW s \in Subs,
           Subscribe(s) \/ Unsubscribe(s) \/ SubStep(s)
    PROVE  OwnsFilters'
<1> USE CallFields, StepNames, FiltersDiffer
<1>0. /\ MapsOK /\ CallsOK /\ regs \subseteq Regs /\ sub \in [Subs -> Call]
      /\ serverId \in [Regs -> Sids \cup {None}]
  BY Typed
<1>i. \A k \in 1 .. Filters[s] : Owns(s, k)
  BY DEF OwnsFilters
<1>1. CASE Subscribe(s)
  <2>1. /\ SubMoves(s, "connecting", 1, None) /\ At(s, "idle")
        /\ UNCHANGED <<regs, serverId, loop>>
    BY <1>1, Zenon DEF Subscribe
  <2>2. \A k \in 1 .. Filters[s] : Owns(s, k)'
    BY <1>0, <1>i, <2>1, Moved DEF Owns, Holds, Fresh, At
  <2> QED
    BY <1>0, <2>1, <2>2, Moved, OwnsFrame
<1>2. CASE Unsubscribe(s)
  <2>1. /\ SubMoves(s, "removing", 1, None) /\ At(s, "active")
        /\ UNCHANGED <<regs, serverId, loop>>
    BY <1>2, Zenon DEF Unsubscribe
  <2>2. \A k \in 1 .. Filters[s] : Owns(s, k)'
    BY <1>0, <1>i, <2>1, Moved DEF Owns, Holds, Fresh, At
  <2> QED
    BY <1>0, <2>1, <2>2, Moved, OwnsFrame
<1>3. CASE Add(s)
  <2>1. /\ SubMoves(s, "subscribing", sub[s].at, None) /\ At(s, "connecting")
        /\ regs' = regs \cup {<<s, sub[s].at>>} /\ UNCHANGED <<serverId, loop>>
    BY <1>3, Zenon DEF Add, Filter
  <2>2. \A k \in 1 .. Filters[s] : Owns(s, k)'
    BY <1>0, <1>i, <2>1, Moved DEF Owns, Holds, Fresh, At
  <2> QED
    BY <1>0, <2>1, <2>2, Moved, OwnsFrame
<1>4. CASE Added(s)
  <2>1. /\ Establish(<<s, sub[s].at>>) /\ At(s, "subscribing")
        /\ UNCHANGED <<regs, loop>>
    BY <1>4, Zenon DEF Added, Filter
  <2>2. PICK i : serverId' = [serverId EXCEPT ![<<s, sub[s].at>>] = i]
    BY <2>1 DEF Establish
  <2>3. \A u \in Subs : \A k \in 1 .. Filters[u] :
          u # s \/ k # sub[s].at => serverId'[<<u, k>>] = serverId[<<u, k>>]
    BY <1>0, <2>2, FiltersAreRegs
  <2>4. CASE sub[s].at < Filters[s]
    <3>1. SubMoves(s, "connecting", sub[s].at + 1, None)
      BY <1>4, <2>4, Zenon DEF Added
    <3>2. \A k \in 1 .. Filters[s] : Owns(s, k)'
      BY <1>0, <1>i, <2>1, <2>3, <3>1, Moved DEF Owns, Holds, Fresh, At
    <3> QED
      BY <1>0, <2>1, <2>3, <3>1, <3>2, Moved, OwnsFrame
  <2>5. CASE ~(sub[s].at < Filters[s])
    <3>1. SubMoves(s, "active", 1, None)
      BY <1>4, <2>5, Zenon DEF Added
    <3>2. sub[s].at >= Filters[s]
      BY <1>0, <2>5
    <3>3. \A k \in 1 .. Filters[s] : Owns(s, k)'
      BY <1>0, <1>i, <2>1, <2>3, <3>1, <3>2, Moved DEF Owns, Holds, Fresh, At
    <3> QED
      BY <1>0, <2>1, <2>3, <3>1, <3>3, Moved, OwnsFrame
  <2> QED
    BY <2>4, <2>5
<1>5. CASE AddRefused(s)
  <2>1. SubMoves(s, "failed", 1, None) /\ UNCHANGED <<regs, serverId, loop>>
    BY <1>5, Zenon DEF AddRefused
  <2>2. \A k \in 1 .. Filters[s] : Owns(s, k)'
    BY <1>0, <1>i, <2>1, Moved DEF Owns, Holds, Fresh, At
  <2> QED
    BY <1>0, <2>1, <2>2, Moved, OwnsFrame
<1>6. CASE Remove(s)
  <2>1. /\ At(s, "removing") /\ regs' = regs \ {<<s, sub[s].at>>} /\ loop' = loop
        /\ serverId' = [serverId EXCEPT ![<<s, sub[s].at>>] = None]
    BY <1>6, Zenon DEF Remove, Filter
  <2>2. \/ SubMoves(s, "unsubscribing", sub[s].at, serverId[Filter(s)])
        \/ SubMoves(s, "removing", sub[s].at + 1, None)
    BY <1>6, Zenon DEF Remove
  <2>3. \A u \in Subs : \A k \in 1 .. Filters[u] :
          u # s \/ k # sub[s].at => serverId'[<<u, k>>] = serverId[<<u, k>>]
    BY <1>0, <2>1, FiltersAreRegs
  <2>4. \A k \in 1 .. Filters[s] : Owns(s, k)'
    <3>1. CASE SubMoves(s, "unsubscribing", sub[s].at, serverId[Filter(s)])
      BY <1>0, <1>i, <2>1, <2>3, <3>1, Moved DEF Owns, Holds, Fresh, At
    <3>2. CASE SubMoves(s, "removing", sub[s].at + 1, None)
      BY <1>0, <1>i, <2>1, <2>3, <3>2, Moved DEF Owns, Holds, Fresh, At
    <3> QED
      BY <2>2, <3>1, <3>2
  <2>5. \A u \in Subs \ {s} : sub'[u] = sub[u]
    BY <1>0, <2>2, Moved
  <2> QED
    BY <1>0, <2>1, <2>3, <2>4, <2>5, OwnsFrame
<1>7. CASE Removed(s)
  <2>1. /\ SubMoves(s, "removing", sub[s].at + 1, None) /\ At(s, "unsubscribing")
        /\ UNCHANGED <<regs, serverId, loop>>
    BY <1>7, Zenon DEF Removed
  <2>2. \A k \in 1 .. Filters[s] : Owns(s, k)'
    BY <1>0, <1>i, <2>1, Moved DEF Owns, Holds, Fresh, At
  <2> QED
    BY <1>0, <2>1, <2>2, Moved, OwnsFrame
<1>8. CASE MaybeClose(s)
  <2>1. SubMoves(s, "done", 1, None) /\ UNCHANGED <<regs, serverId, loop>>
    BY <1>8, Zenon DEF MaybeClose
  <2>2. \A k \in 1 .. Filters[s] : Owns(s, k)'
    BY <1>0, <1>i, <2>1, Moved DEF Owns, Holds, Fresh, At
  <2> QED
    BY <1>0, <2>1, <2>2, Moved, OwnsFrame
<1> QED
  BY <1>1, <1>2, <1>3, <1>4, <1>5, <1>6, <1>7, <1>8 DEF SubStep

LEMMA LoopOwns ==
    ASSUME TypeOK, OwnsFilters, NEW l \in Loops, LoopStep(l)
    PROVE  OwnsFilters'
<1> DEFINE AtPut(at) ==
      \A m \in Loops : loop'[m].at = IF m = l THEN at ELSE loop[m].at
<1>0. /\ MapsOK /\ LoopsOK /\ regs \subseteq Regs /\ loop \in [Loops -> Loop]
      /\ serverId \in [Regs -> Sids \cup {None}]
  BY Typed
<1>m. ASSUME NEW step, NEW at, NEW visited, LoopMoves(l, step, at, visited)
      PROVE  AtPut(at)
  BY <1>0, <1>m DEF LoopMoves
<1>f. \A s \in Subs : \A k \in 1 .. Filters[s] : Fresh(s, k) =>
        /\ <<s, k>> \in Regs /\ <<s, k>> \notin regs /\ <<s, k>> # None
        /\ serverId[<<s, k>>] = None
        /\ \A m \in Loops : loop[m].at # <<s, k>>
  BY FiltersAreRegs DEF OwnsFilters, Owns
<1> HIDE DEF AtPut
<1>1. CASE TimerFires(l)
  <2>1. LoopMoves(l, "connecting", None, {}) /\ UNCHANGED <<sub, regs, serverId>>
    BY <1>1, Zenon DEF TimerFires
  <2> QED
    BY <1>f, <1>m, <2>1, OwnsLoopFrame DEF AtPut
<1>2. CASE NextFilter(l)
  <2>1. UNCHANGED <<sub, regs, serverId>>
    BY <1>2, Zenon DEF NextFilter
  <2>2. PICK at \in regs \cup {None} : AtPut(at)
    <3>1. CASE regs \ loop[l].visited = {}
      <4>1. LoopMoves(l, "idle", None, {})
        BY <1>2, <3>1, Zenon DEF NextFilter
      <4> QED
        BY <1>m, <4>1
    <3>2. CASE regs \ loop[l].visited # {}
      <4>1. \E g \in regs \ loop[l].visited :
                  LoopMoves(l, "subscribing", g, loop[l].visited \cup {g})
        BY <1>2, <3>2, Zenon DEF NextFilter
      <4> QED
        BY <1>m, <4>1
    <3> QED
      BY <3>1, <3>2
  <2> QED
    BY <1>f, <2>1, <2>2, OwnsLoopFrame DEF AtPut
<1>3. CASE Renewed(l)
  <2>1. /\ Establish(loop[l].at) /\ LoopMoves(l, "connecting", None, loop[l].visited)
        /\ UNCHANGED <<sub, regs>>
    BY <1>3, Zenon DEF Renewed
  <2>2. PICK i : serverId' = [serverId EXCEPT ![loop[l].at] = i]
    BY <2>1 DEF Establish
  <2>3. \A g \in Regs : g # loop[l].at => serverId'[g] = serverId[g]
    BY <1>0, <2>2
  <2> QED
    BY <1>f, <1>m, <2>1, <2>3, OwnsLoopFrame DEF AtPut
<1>4. CASE RenewalRefused(l)
  <2>1. LoopMoves(l, "idle", None, {}) /\ UNCHANGED <<sub, regs, serverId>>
    BY <1>4, Zenon DEF RenewalRefused
  <2> QED
    BY <1>f, <1>m, <2>1, OwnsLoopFrame DEF AtPut
<1> QED
  BY <1>1, <1>2, <1>3, <1>4 DEF LoopStep

\* The loss of the socket: calls fail or go on, ids and loops are forgotten.
LEMMA GoneOwns ==
    ASSUME TypeOK, OwnsFilters, Gone, regs' = regs,
           \A l \in Loops : loop'[l].at \in {None, loop[l].at}
    PROVE  OwnsFilters'
<1>0. /\ CallsOK /\ serverId \in [Regs -> Sids \cup {None}]
  BY Typed
<1>1. CallersFail /\ ForgetIds
  BY Zenon DEF Gone
<1> SUFFICES ASSUME NEW s \in Subs, NEW k \in 1 .. Filters[s]
             PROVE  Owns(s, k)'
  BY DEF OwnsFilters
<1>2. Owns(s, k) /\ <<s, k>> \in Regs /\ <<s, k>> # None
  BY FiltersAreRegs DEF OwnsFilters
<1>3. serverId'[<<s, k>>] \in {None, serverId[<<s, k>>]}
  BY <1>1, <1>2 DEF ForgetIds
<1>4. CASE sub'[s] = FailedCall
  BY <1>4 DEF FailedCall, Owns, Holds, Fresh, At
<1>5. CASE /\ At(s, "unsubscribing")
           /\ sub'[s] = [step |-> "removing", at |-> sub[s].at + 1, sid |-> None]
  <2>1. sub'[s].step = "removing" /\ sub'[s].at = sub[s].at + 1 /\ sub[s].at \in Nat
    BY <1>0, <1>5, CallFields
  <2> QED
    BY <1>2, <1>5, <2>1 DEF Owns, Holds, Fresh, At
<1>6. CASE sub'[s] = sub[s]
  BY <1>2, <1>3, <1>6 DEF Owns, Holds, Fresh, At
<1> QED
  BY <1>1, <1>4, <1>5, <1>6, CallersFailCases

LEMMA SocketOwns ==
    ASSUME TypeOK, OwnsFilters, SocketSettles \/ SocketDrops
    PROVE  OwnsFilters'
<1>0. loop \in [Loops -> Loop]
  BY Typed
<1>f. \A l \in Loops : LoopsFail[l].at \in {None, loop[l].at}
  BY <1>0 DEF LoopsFail, IdleLoop
<1>1. CASE SocketOpens
  <2>1. UNCHANGED <<sub, regs, serverId, loop>>
    BY <1>1, Zenon DEF SocketOpens
  <2> QED
    BY <2>1, OwnsLoopFrame DEF OwnsFilters, Owns
<1>2. CASE SocketFails \/ SocketCloses
  <2>1. Gone /\ loop' = LoopsFail /\ regs' = regs
    BY <1>2, Zenon DEF SocketFails, SocketCloses
  <2> QED
    BY <1>f, <2>1, GoneOwns
<1>3. CASE SocketDrops
  <2>1. Gone /\ Schedule /\ regs' = regs
    BY <1>3, Zenon DEF SocketDrops
  <2>2. loop' = LoopsFail \/ loop' = [LoopsFail EXCEPT ![drops'] = TimerLoop]
    BY <2>1, Zenon DEF Schedule
  <2>3. \A l \in Loops : loop'[l] = LoopsFail[l] \/ loop'[l] = TimerLoop
    BY <2>2 DEF LoopsFail
  <2>4. \A l \in Loops : loop'[l].at \in {None, loop[l].at}
    BY <1>f, <2>3 DEF TimerLoop
  <2> QED
    BY <2>1, <2>4, GoneOwns
<1> QED
  BY <1>1, <1>2, <1>3 DEF SocketSettles

\* Nobody starts to wait for the end of a subscription.
NoNewEnding ==
    \A u \in Subs : At(u, "unsubscribing")' =>
        At(u, "unsubscribing") /\ sub'[u].sid = sub[u].sid

LEMMA NoEnding ==
    ASSUME CallsOK, NEW s \in Subs, NEW step, NEW at, NEW sid,
           SubMoves(s, step, at, sid), step # "unsubscribing"
    PROVE  NoNewEnding
BY Moved DEF NoNewEnding, At

LEMMA NoEndingSame == sub' = sub => NoNewEnding
BY DEF NoNewEnding, At

\* Steps that touch neither the ids nor the registrations.
LEMMA IdsFrame ==
    ASSUME IdsOK, NoNewEnding, UNCHANGED <<route, server, serverId, regs>>
    PROVE  IdsOK'
<1>1. RoutesAreTheServers' /\ HeldIdsRoute'
  BY DEF IdsOK, RoutesAreTheServers, HeldIdsRoute
<1>2. Ending'
  BY DEF IdsOK, Ending, NoNewEnding, At
<1> QED
  BY <1>1, <1>2 DEF IdsOK

\* A new id is free at the server, so nothing routed, held or ending has it.
LEMMA EstablishIds ==
    ASSUME MapsOK, IdsOK, regs \subseteq Regs, NEW g \in Regs, Establish(g),
           regs' = regs, NoNewEnding
    PROVE  IdsOK'
<1>1. PICK i \in Offered(Sids \ DOMAIN server) :
         /\ server' = With(server, i, g)
         /\ route' = With(route, i, g)
         /\ serverId' = [serverId EXCEPT ![g] = i]
  BY DEF Establish
<1>2. i \in Sids /\ i \notin DOMAIN server /\ i # None
  OBVIOUS
<1>3. i \notin DOMAIN route
  BY <1>2 DEF IdsOK, RoutesAreTheServers
<1>4. RoutesAreTheServers'
  BY <1>1, <1>2, <1>3 DEF IdsOK, RoutesAreTheServers, With
<1>5. HeldIdsRoute'
  BY <1>1, <1>2, <1>3 DEF IdsOK, HeldIdsRoute, With, MapsOK
<1>6. Ending'
  <2>1. DOMAIN server' = DOMAIN server \cup {i} /\ DOMAIN route' = DOMAIN route \cup {i}
    BY <1>1 DEF With
  <2> QED
    BY <1>2, <2>1 DEF IdsOK, Ending, NoNewEnding, At
<1> QED
  BY <1>4, <1>5, <1>6 DEF IdsOK

\* With the socket go all ids, and nobody waits any more.
LEMMA GoneIds ==
    ASSUME CallsOK, MapsOK, regs \subseteq Regs, Gone, regs' = regs
    PROVE  IdsOK'
<1>1. CallersFail /\ ForgetIds /\ route' = NoMap
  BY Zenon DEF Gone, ForgetIds
<1>2. RoutesAreTheServers'
  BY <1>1 DEF RoutesAreTheServers, NoMap
<1>3. HeldIdsRoute'
  BY <1>1 DEF HeldIdsRoute, ForgetIds, MapsOK
<1>4. ASSUME NEW s \in Subs  PROVE ~At(s, "unsubscribing")'
  <2>1. CASE sub'[s] = FailedCall
    BY <2>1 DEF FailedCall, At
  <2>2. CASE sub'[s] = [step |-> "removing", at |-> sub[s].at + 1, sid |-> None]
    BY <2>2 DEF At
  <2>3. CASE ~At(s, "unsubscribing") /\ sub'[s] = sub[s]
    BY <2>3 DEF At
  <2> QED
    BY <1>1, <2>1, <2>2, <2>3, CallersFailCases
<1> QED
  BY <1>2, <1>3, <1>4 DEF IdsOK, Ending

LEMMA SubIds ==
    ASSUME TypeOK, OwnsFilters, IdsOK, NEW s \in Subs,
           Subscribe(s) \/ Unsubscribe(s) \/ SubStep(s)
    PROVE  IdsOK'
<1>0. /\ MapsOK /\ CallsOK /\ regs \subseteq Regs /\ sub \in [Subs -> Call]
      /\ serverId \in [Regs -> Sids \cup {None}]
  BY Typed
<1>1. CASE Subscribe(s)
  <2>1. /\ SubMoves(s, "connecting", 1, None)
        /\ UNCHANGED <<route, server, serverId, regs>>
    BY <1>1, Zenon DEF Subscribe
  <2> QED
    BY <1>0, <2>1, NoEnding, IdsFrame
<1>2. CASE Unsubscribe(s)
  <2>1. /\ SubMoves(s, "removing", 1, None)
        /\ UNCHANGED <<route, server, serverId, regs>>
    BY <1>2, Zenon DEF Unsubscribe
  <2> QED
    BY <1>0, <2>1, NoEnding, IdsFrame
<1>3. CASE Add(s)
  <2>1. /\ SubMoves(s, "subscribing", sub[s].at, None) /\ At(s, "connecting")
        /\ regs' = regs \cup {Filter(s)} /\ UNCHANGED <<route, server, serverId>>
    BY <1>3, Zenon DEF Add
  <2>2. sub[s].at \in 1 .. Filters[s]
    BY <1>0, <2>1, CurrentFilter DEF At, CallsOK
  <2>3. serverId[Filter(s)] = None
    BY <1>0, <2>1, <2>2, CallFields DEF OwnsFilters, Owns, Fresh, Filter
  <2>4. NoNewEnding
    BY <1>0, <2>1, NoEnding
  <2>5. RoutesAreTheServers' /\ HeldIdsRoute' /\ Ending'
    BY <2>1, <2>3, <2>4 DEF IdsOK, RoutesAreTheServers, HeldIdsRoute, Ending, NoNewEnding, At
  <2> QED
    BY <2>5 DEF IdsOK
<1>4. CASE Added(s)
  <2>1. /\ Establish(Filter(s)) /\ At(s, "subscribing") /\ regs' = regs
        /\ \/ SubMoves(s, "connecting", sub[s].at + 1, None)
           \/ SubMoves(s, "active", 1, None)
    BY <1>4, Zenon DEF Added
  <2>2. Filter(s) \in Regs
    BY <1>0, <2>1, CurrentFilter DEF At, CallsOK
  <2>3. NoNewEnding
    BY <1>0, <2>1, NoEnding
  <2> QED
    BY <1>0, <2>1, <2>2, <2>3, EstablishIds
<1>5. CASE AddRefused(s)
  <2>1. /\ SubMoves(s, "failed", 1, None)
        /\ UNCHANGED <<route, server, serverId, regs>>
    BY <1>5, Zenon DEF AddRefused
  <2> QED
    BY <1>0, <2>1, NoEnding, IdsFrame
<1>6. CASE Remove(s)
  <2> DEFINE g == Filter(s)
             sid == serverId[Filter(s)]
  <2>1. /\ At(s, "removing") /\ sub[s].at <= Filters[s]
        /\ regs' = regs \ {g} /\ serverId' = [serverId EXCEPT ![g] = None]
        /\ route' = Without(route, sid) /\ server' = server
        /\ \/ sid # None /\ SubMoves(s, "unsubscribing", sub[s].at, sid)
           \/ SubMoves(s, "removing", sub[s].at + 1, None)
    BY <1>6, Zenon DEF Remove
  <2>2. sub[s].at \in 1 .. Filters[s] /\ g \in Regs
    BY <2>1, CurrentFilter
  <2>3. g \in regs
    BY <1>0, <2>1, <2>2, CallFields DEF OwnsFilters, Owns, Holds, Filter
  <2>4. sid # None => sid \in DOMAIN route /\ route[sid] = g /\ sid \in DOMAIN server
    BY <2>3 DEF IdsOK, HeldIdsRoute, RoutesAreTheServers
  <2>5. /\ DOMAIN route' = DOMAIN route \ {sid}
        /\ \A i \in DOMAIN route' : route'[i] = route[i]
    BY <2>1 DEF Without
  <2>6. RoutesAreTheServers'
    BY <2>1, <2>5 DEF IdsOK, RoutesAreTheServers
  <2>7. HeldIdsRoute'
    <3> SUFFICES ASSUME NEW h \in regs \ {g}, serverId'[h] # None
                 PROVE  serverId'[h] \in DOMAIN route' /\ route'[serverId'[h]] = h
      BY <2>1 DEF HeldIdsRoute
    <3>1. serverId'[h] = serverId[h]
      BY <1>0, <2>1
    <3>2. serverId[h] \in DOMAIN route /\ route[serverId[h]] = h
      BY <3>1 DEF IdsOK, HeldIdsRoute
    <3>3. serverId[h] # sid
      BY <2>4, <3>1, <3>2
    <3> QED
      BY <2>5, <3>1, <3>2, <3>3
  <2>8. Ending'
    <3>1. CASE sid # None /\ SubMoves(s, "unsubscribing", sub[s].at, sid)
      <4>1. /\ sub'[s].sid = sid
            /\ \A u \in Subs \ {s} : sub'[u] = sub[u]
        BY <1>0, <3>1, Moved
      <4>2. \A u \in Subs \ {s} : At(u, "unsubscribing") => sub[u].sid # sid
        BY <2>4, <3>1 DEF IdsOK, Ending
      <4>3. sid \in DOMAIN server' \ DOMAIN route'
        BY <2>1, <2>4, <2>5, <3>1
      <4>4. DOMAIN server' = DOMAIN server /\ DOMAIN route' \subseteq DOMAIN route
        BY <2>1, <2>5
      <4> HIDE DEF sid
      <4> QED
        BY <4>1, <4>2, <4>3, <4>4 DEF IdsOK, Ending, At
    <3>2. CASE SubMoves(s, "removing", sub[s].at + 1, None)
      <4>1. NoNewEnding
        BY <1>0, <3>2, NoEnding
      <4>2. DOMAIN server' = DOMAIN server /\ DOMAIN route' \subseteq DOMAIN route
        BY <2>1, <2>5
      <4> QED
        BY <4>1, <4>2 DEF IdsOK, Ending, NoNewEnding, At
    <3> QED
      BY <2>1, <3>1, <3>2
  <2> QED
    BY <2>6, <2>7, <2>8 DEF IdsOK
<1>7. CASE Removed(s)
  <2>1. /\ At(s, "unsubscribing") /\ SubMoves(s, "removing", sub[s].at + 1, None)
        /\ server' \in {server, Without(server, sub[s].sid)}
        /\ UNCHANGED <<route, serverId, regs>>
    BY <1>7, Zenon DEF Removed
  <2>2. /\ DOMAIN server \ {sub[s].sid} \subseteq DOMAIN server'
        /\ DOMAIN server' \subseteq DOMAIN server
        /\ \A i \in DOMAIN server' : server'[i] = server[i]
    BY <2>1 DEF Without
  <2>3. sub[s].sid \notin DOMAIN route
    BY <2>1 DEF IdsOK, Ending
  <2>4. RoutesAreTheServers' /\ HeldIdsRoute'
    BY <2>1, <2>2, <2>3 DEF IdsOK, RoutesAreTheServers, HeldIdsRoute
  <2>5. Ending'
    <3>1. /\ sub'[s].step = "removing"
          /\ \A u \in Subs \ {s} : sub'[u] = sub[u]
      BY <1>0, <2>1, Moved
    <3> QED
      BY <2>1, <2>2, <3>1 DEF IdsOK, Ending, At
  <2> QED
    BY <2>4, <2>5 DEF IdsOK
<1>8. CASE MaybeClose(s)
  <2>1. /\ SubMoves(s, "done", 1, None)
        /\ UNCHANGED <<route, server, serverId, regs>>
    BY <1>8, Zenon DEF MaybeClose
  <2> QED
    BY <1>0, <2>1, NoEnding, IdsFrame
<1> QED
  BY <1>1, <1>2, <1>3, <1>4, <1>5, <1>6, <1>7, <1>8 DEF SubStep

LEMMA LoopIds ==
    ASSUME TypeOK, IdsOK, NEW l \in Loops, LoopStep(l)
    PROVE  IdsOK'
<1>0. MapsOK /\ LoopsOK /\ regs \subseteq Regs
  BY Typed
<1>1. CASE Renewed(l)
  <2>1. /\ Establish(loop[l].at) /\ LoopAt(l, "subscribing")
        /\ regs' = regs /\ sub' = sub
    BY <1>1, Zenon DEF Renewed
  <2>2. loop[l].at \in Regs
    BY <1>0, <2>1, LoopFields
  <2> QED
    BY <1>0, <2>1, <2>2, EstablishIds, NoEndingSame
<1>2. CASE TimerFires(l) \/ NextFilter(l) \/ RenewalRefused(l)
  <2>1. sub' = sub /\ UNCHANGED <<route, server, serverId, regs>>
    BY <1>2, Zenon DEF TimerFires, NextFilter, RenewalRefused
  <2> QED
    BY <2>1, IdsFrame, NoEndingSame
<1> QED
  BY <1>1, <1>2 DEF LoopStep

LEMMA SocketIds ==
    ASSUME TypeOK, IdsOK, SocketSettles \/ SocketDrops
    PROVE  IdsOK'
<1>1. CASE SocketOpens
  <2>1. sub' = sub /\ UNCHANGED <<route, server, serverId, regs>>
    BY <1>1, Zenon DEF SocketOpens
  <2> QED
    BY <2>1, IdsFrame, NoEndingSame
<1>2. CASE SocketFails \/ SocketCloses \/ SocketDrops
  <2>1. Gone /\ regs' = regs
    BY <1>2, Zenon DEF SocketFails, SocketCloses, SocketDrops
  <2> QED
    BY <2>1, GoneIds, Typed
<1> QED
  BY <1>1, <1>2 DEF SocketSettles

LEMMA InvInit == Init => IInv
<1> SUFFICES ASSUME Init  PROVE IInv
  OBVIOUS
<1>1. /\ regs = {} /\ serverId = [g \in Regs |-> None]
      /\ route = NoMap /\ server = NoMap /\ loop = [l \in Loops |-> IdleLoop]
      /\ sub = [s \in Subs |-> [step |-> "idle", at |-> 1, sid |-> None]]
  BY Zenon DEF Init
<1>2. OwnsFilters
  <2> SUFFICES ASSUME NEW s \in Subs, NEW k \in 1 .. Filters[s]  PROVE Owns(s, k)
    BY DEF OwnsFilters
  <2>1. <<s, k>> \in Regs /\ <<s, k>> # None
    BY FiltersAreRegs
  <2> QED
    BY <1>1, <2>1 DEF Owns, Holds, Fresh, At, IdleLoop
<1>3. IdsOK
  BY <1>1 DEF IdsOK, RoutesAreTheServers, HeldIdsRoute, Ending, At, NoMap
<1> QED
  BY <1>2, <1>3, TypeInit DEF IInv

LEMMA InvStep == IInv /\ [Next]_vars => IInv'
<1> SUFFICES ASSUME IInv, [Next]_vars  PROVE IInv'
  OBVIOUS
<1>0. TypeOK /\ OwnsFilters /\ IdsOK
  BY DEF IInv
<1>1. TypeOK'
  BY <1>0, TypeStep
<1>2. OwnsFilters' /\ IdsOK'
  <2>1. ASSUME NEW s \in Subs, Subscribe(s) \/ Unsubscribe(s) \/ SubStep(s)
        PROVE  OwnsFilters' /\ IdsOK'
    BY <1>0, <2>1, SubOwns, SubIds
  <2>2. ASSUME NEW l \in Loops, LoopStep(l)  PROVE OwnsFilters' /\ IdsOK'
    BY <1>0, <2>2, LoopOwns, LoopIds
  <2>3. CASE SocketSettles \/ SocketDrops
    BY <1>0, <2>3, SocketOwns, SocketIds
  <2>4. CASE UNCHANGED vars
    <3>1. UNCHANGED <<sub, regs, serverId, loop, route, server>>
      BY <2>4, Zenon DEF vars
    <3>2. IdsOK'
      BY <1>0, <3>1, IdsFrame, NoEndingSame
    <3>3. OwnsFilters'
      BY <1>0, <3>1, OwnsLoopFrame DEF OwnsFilters, Owns
    <3> QED
      BY <3>2, <3>3
  <2> QED
    BY <2>1, <2>2, <2>3, <2>4, Zenon DEF Next
<1> QED
  BY <1>0, <1>1, <1>2 DEF IInv

LEMMA Invariant == Spec => []IInv
BY InvInit, InvStep, PTL DEF Spec

\* subscription.ts:166, :184: a notification reaches the handler of the filter
\* the server means, whatever ids the next socket reuses.
THEOREM NotificationsReachTheirHandler == Spec => []RoutesAreTheServers
<1>1. IInv => RoutesAreTheServers
  BY DEF IInv, IdsOK
<1> QED
  BY <1>1, Invariant, PTL

\* subscription.ts:185, :242: the id a registration holds is routed to it, so
\* unsubscribe() ends its own subscription and no other product's.
THEOREM UnsubscribeNamesItsOwn == Spec => []HeldIdsRoute
<1>1. IInv => HeldIdsRoute
  BY DEF IInv, IdsOK
<1> QED
  BY <1>1, Invariant, PTL

=============================================================================
