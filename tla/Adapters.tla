------------------------------ MODULE Adapters ------------------------------
(***************************************************************************)
(* The adapters of wdk-web-core between the wallet and the network:          *)
(*   - reads of a chain (rpc.ts), retried (retry.ts) behind a token bucket   *)
(*     that limits how many start (rate-limit.ts);                           *)
(*   - the history of an address, read page by page from a primary indexer   *)
(*     and its fall-backs (indexer.ts);                                      *)
(*   - the price of a symbol, from the first source that has one             *)
(*     (pricing.ts).                                                         *)
(* They share nothing, and a behaviour exercises one of them: its task.      *)
(*                                                                         *)
(* A tick of the clock is the unit in which delays are measured. The bucket  *)
(* counts ticks: Period of them are one token, the time one token takes to   *)
(* come back.                                                                *)
(***************************************************************************)
EXTENDS Integers, Sequences, FiniteSetsExt

CONSTANTS
    Tasks,      \* the tasks that are checked
    Reads,      \* reads of a chain under way at once
    Kinds,      \* what each may be
    Period,     \* ticks in which one token is refilled (1 / rps)
    Burst,      \* capacity of the bucket in tokens
    Attempts,   \* total attempts of a read
    Base,       \* the first backoff in ticks
    MaxDelay,   \* the longest one
    MaxTime,    \* bound on the clock
    Indexers,   \* the indexers in the order they are tried: one list for each
                \* family of chains
    PageSize,   \* the limit the reader asks for
    MaxTx,      \* bound on the transactions of the address
    Prices,     \* the price sources in order
    Absent

ASSUME RateAssumption == Period \in Nat \ {0} /\ Burst \in Nat \ {0}
ASSUME ReadsAssumption ==
    /\ Kinds \subseteq {"balance", "status", "direct", "unsupported"}
    /\ Attempts \in Nat \ {0} /\ Base \in Nat /\ MaxDelay \in Nat /\ MaxTime \in Nat
ASSUME HistoryAssumption ==
    /\ Indexers \subseteq Seq({"tether", "etherscan", "solana"})
    /\ PageSize \in Nat \ {0} /\ MaxTx \in Nat
    /\ Tasks \subseteq {"reads", "history", "price"} /\ Prices \in Seq(STRING)

\* The cursor of a first page is none of an indexer's.
ASSUME AbsentAssumption == Absent \notin [of : {"tether", "etherscan", "solana"}, mark : Int]

VARIABLES
    task,
    clock,
    read,     \* each read: what it is and how far it came
    tail,     \* the reads that wait for a token, the first one at the bucket
    bucket, last,   \* what is in the bucket, and when that was computed
    starts,   \* history: when each limited call started
    ledger,   \* the number of transactions of the address, oldest first
    walk,     \* the reader of the history; by and first are history: who answered,
              \* and the newest transaction when the first page was read
    quote     \* the price that is asked for

reading == <<clock, read, tail, bucket, last, starts>>
paging == <<ledger, walk>>
adaptersVars == <<task, reading, paging, quote>>

Full == Burst * Period

NoRead == [what |-> Absent, at |-> "idle", attempt |-> 0, due |-> 0]
NewWalk(via) ==
    [via |-> via, cursor |-> Absent, got |-> {}, by |-> {}, first |-> 0, at |-> 1, over |-> FALSE]

AdaptersInit ==
    /\ task \in Tasks
    /\ clock = 0
    /\ read = [r \in Reads |-> NoRead]
    /\ tail = <<>> /\ bucket = Full /\ last = 0 /\ starts = <<>>
    /\ ledger \in 0..MaxTx /\ walk \in {NewWalk(via) : via \in Indexers}
    /\ quote = [at |-> 1, is |-> "asking"]

-----------------------------------------------------------------------------
(* Reads of a chain.                                                         *)

Turn(r, at, due) == read' = [read EXCEPT ![r].at = at, ![r].due = due]

\* A chain of another family is refused before any call. A status, and every
\* call of the extension's own adapter, goes straight to the node.
Refused == {"unsupported"}
Unlimited == {"status", "direct"}

\* run(): a balance is retried and limited.
Begin(r, what) ==
    /\ read[r].at = "idle"
    /\ read' = [read EXCEPT ![r] =
           [what |-> what, attempt |-> 1, due |-> 0,
            at |-> CASE what \in Refused -> "failed"
                     [] what \in Unlimited -> "calling"
                     [] OTHER -> "queued"]]
    /\ tail' = IF what = "balance" THEN Append(tail, r) ELSE tail
    /\ UNCHANGED <<clock, bucket, last, starts>>

\* Defect: the bucket overflows.
RefilledUncapped == bucket + (clock - last)

Refilled == LET level == bucket + (clock - last) IN IF level > Full THEN Full ELSE level

\* acquire(): the first in the queue looks at the bucket, at once or when its
\* sleep is over, and either starts its call or sleeps until a token is due.
Acquire(r) ==
    /\ tail # <<>> /\ Head(tail) = r
    /\ read[r].at \in {"queued", "asleep"} /\ clock >= read[r].due
    /\ last' = clock
    /\ \/ /\ Refilled >= Period
          /\ bucket' = Refilled - Period
          /\ tail' = Tail(tail)
          /\ starts' = Append(starts, clock)
          /\ Turn(r, "calling", 0)
       \/ /\ Refilled < Period
          /\ bucket' = Refilled
          /\ Turn(r, "asleep", clock + (Period - Refilled))
          /\ UNCHANGED <<tail, starts>>
    /\ UNCHANGED clock

Answers(r) ==
    /\ read[r].at = "calling"
    /\ Turn(r, "done", 0)
    /\ UNCHANGED <<clock, tail, bucket, last, starts>>

Backoff(k) == IF Base * 2^(k - 1) > MaxDelay THEN MaxDelay ELSE Base * 2^(k - 1)

\* A status that cannot be read is 'pending'. The jitter takes off up to half
\* of the backoff.
Throws(r) ==
    /\ read[r].at = "calling"
    /\ CASE read[r].what = "status" -> Turn(r, "done", 0)
         [] read[r].what = "balance" /\ read[r].attempt < Attempts ->
                Turn(r, "backoff", clock + (Backoff(read[r].attempt) + 1) \div 2)
         [] OTHER -> Turn(r, "failed", 0)
    /\ UNCHANGED <<clock, tail, bucket, last, starts>>

\* Every attempt takes a token of its own, behind whoever waits by then.
Retry(r) ==
    /\ read[r].at = "backoff" /\ clock >= read[r].due
    /\ read' = [read EXCEPT ![r].at = "queued", ![r].due = 0, ![r].attempt = @ + 1]
    /\ tail' = Append(tail, r)
    /\ UNCHANGED <<clock, bucket, last, starts>>

Tick ==
    /\ clock < MaxTime
    /\ clock' = clock + 1
    /\ UNCHANGED <<read, tail, bucket, last, starts>>

ReadNext ==
    /\ task = "reads"
    /\ \/ \E r \in Reads : \/ \E what \in Kinds : Begin(r, what)
                           \/ Acquire(r) \/ Answers(r) \/ Throws(r) \/ Retry(r)
       \/ Tick
    /\ UNCHANGED <<task, paging, quote>>

-----------------------------------------------------------------------------
(* The history of an address. Transactions are numbered from the oldest, and *)
(* every indexer lists the newest first.                                     *)

NewTx ==
    /\ ledger < MaxTx
    /\ ledger' = ledger + 1
    /\ UNCHANGED walk

Newest(set) == {t \in set : Cardinality({u \in set : u >= t}) <= PageSize}

\* What an indexer makes of a cursor that is its own or none: Etherscan counts
\* pages from the newest transaction, the others go on below a transaction.
PageNo(cursor) == IF cursor = Absent THEN 1 ELSE cursor.mark

Records(kind, cursor) ==
    IF kind = "etherscan"
    THEN Newest(1..(ledger - (PageNo(cursor) - 1) * PageSize))
    ELSE Newest(IF cursor = Absent THEN 1..ledger ELSE {t \in 1..ledger : t < cursor.mark})

\* Defect: the page after the next one.
CursorSkips(kind, cursor, records) ==
    [of |-> kind, mark |-> IF kind = "etherscan" THEN PageNo(cursor) + 2 ELSE Min(records)]

CursorAfter(kind, cursor, records) ==
    [of |-> kind, mark |-> IF kind = "etherscan" THEN PageNo(cursor) + 1 ELSE Min(records)]

\* A cursor of another indexer: Etherscan takes it for a page number, or for
\* the first page when it is none; the others refuse it.
Understood(kind, cursor) ==
    IF cursor = Absent \/ cursor.of = kind THEN {cursor}
    ELSE IF kind = "etherscan" THEN {[of |-> kind, mark |-> n] : n \in 1..(MaxTx + 1)}
    ELSE {}

\* A full page implies that there may be more.
Fetch ==
    LET kind == walk.via[walk.at]
    IN  /\ ~walk.over /\ walk.at <= Len(walk.via)
        /\ \E cursor \in Understood(kind, walk.cursor) :
               LET records == Records(kind, cursor)
                   full == Cardinality(records) = PageSize
               IN  walk' = [via |-> walk.via,
                            cursor |-> IF full THEN CursorAfter(kind, cursor, records)
                                                ELSE Absent,
                            got |-> walk.got \cup records,
                            by |-> walk.by \cup {kind},
                            first |-> IF walk.by = {} THEN ledger ELSE walk.first,
                            at |-> 1, over |-> ~full]
        /\ UNCHANGED ledger

\* tryInOrder(): an indexer that throws is passed over.
Unavailable ==
    /\ ~walk.over /\ walk.at <= Len(walk.via)
    /\ walk' = [walk EXCEPT !.at = @ + 1]
    /\ UNCHANGED ledger

\* All of them failed: the reader may ask for the same page again.
AskAgain ==
    /\ walk.at > Len(walk.via)
    /\ walk' = [walk EXCEPT !.at = 1]
    /\ UNCHANGED ledger

HistoryNext ==
    /\ task = "history"
    /\ NewTx \/ Fetch \/ Unavailable \/ AskAgain
    /\ UNCHANGED <<task, reading, quote>>

-----------------------------------------------------------------------------
(* The price of a symbol.                                                    *)

Priced ==
    /\ quote.is = "asking" /\ quote.at <= Len(Prices)
    /\ quote' = [quote EXCEPT !.is = "price"]

\* A source that throws, or that does not know the symbol, is passed over; null
\* after the last one.
Declined ==
    /\ quote.is = "asking"
    /\ quote' = IF quote.at < Len(Prices) THEN [quote EXCEPT !.at = @ + 1]
                ELSE [quote EXCEPT !.is = "null"]

PriceNext ==
    /\ task = "price"
    /\ Priced \/ Declined
    /\ UNCHANGED <<task, reading, paging>>

-----------------------------------------------------------------------------
AdaptersNext == ReadNext \/ HistoryNext \/ PriceNext

AdaptersSpec == AdaptersInit /\ [][AdaptersNext]_adaptersVars

-----------------------------------------------------------------------------
(* Properties.                                                               *)

AdaptersTypeOK ==
    /\ task \in Tasks /\ clock \in 0..MaxTime
    /\ read \in [Reads -> [what : Kinds \cup {Absent}, attempt : 0..Attempts, due : Nat,
                           at : {"idle", "queued", "asleep", "calling", "backoff", "done", "failed"}]]
    /\ tail \in Seq(Reads) /\ bucket \in 0..Full /\ last \in 0..clock
    /\ starts \in Seq(Nat)
    /\ ledger \in 0..MaxTx /\ walk.got \subseteq 1..ledger
    /\ quote \in [at : 1..Len(Prices), is : {"asking", "price", "null"}]

\* Of the calls that go through the limiter no more start in any stretch of
\* time than the bucket holds and is refilled with meanwhile, whoever waits,
\* fails and asks again (rate-limit.ts, retry.ts).
RateRespected ==
    \A i, j \in DOMAIN starts :
        i <= j => (j - i + 1) * Period <= Full + (starts[j] - starts[i])

\* While one indexer answers, the pages leave out no transaction that was there
\* when the reader began: all between the oldest one read and the newest of then
\* have been read, and at the end all of them, although transactions arrive between
\* two pages and shift the page numbers (indexer.ts, nextCursor). Of those that
\* arrive meanwhile a reader by page number may get some and miss others.
PagesLeaveNoGap ==
    Cardinality(walk.by) = 1 =>
        (IF walk.over THEN 1 ELSE Min(walk.got)) .. walk.first \subseteq walk.got

\* The same of a reader that a fall-back answers. Not so: the cursor of one
\* indexer means nothing to another (README, "Departures").
PagesResume == walk.got # {} => Min(walk.got)..walk.first \subseteq walk.got

=============================================================================
