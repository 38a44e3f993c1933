--------------------------- MODULE ConnectionState ---------------------------
(***************************************************************************)
(* The per-origin allow-list of the service worker                         *)
(* (apps/extension/src/background/connection-state.ts): a map kept in      *)
(* memory, read once from chrome.storage.local and written back as a whole *)
(* after every mutation.                                                   *)
(*                                                                         *)
(* What the code leaves to time is explicit here: load() is an await       *)
(* shared by every caller, save() takes its snapshot at once and resolves  *)
(* later, a write may be refused by the browser, and the service worker    *)
(* may be killed with writes still on their way.                           *)
(*                                                                         *)
(* Writes of chrome.storage.local.set are assumed to take effect in the    *)
(* order they were issued (one extension process, one storage queue).      *)
(***************************************************************************)
EXTENDS Sequences, Naturals

CONSTANTS
    Origins,    \* web origins that may hold an entry
    Entries,    \* what an entry says: its chain and its account indices
    NoEntry,    \* "the map has no key for this origin"
    Callers,    \* whoever awaits a save(): requests and popup operations
    MaxWrites   \* bound of the model: writes that may be on their way at once

ASSUME NoEntryAssumption == NoEntry \notin Entries
ASSUME MaxWritesAssumption == MaxWrites \in Nat

VARIABLES
    conns,      \* ConnectionState.connections
    load,       \* loaded / loadPromise: "idle", "reading", "loaded", "failed"
    stored,     \* the object under wdk-connections-v1
    writes      \* snapshots handed to storage.local.set, oldest first

connVars == <<conns, load, stored, writes>>

Map == [Origins -> Entries \cup {NoEntry}]

EmptyMap == [o \in Origins |-> NoEntry]

Write == [image : Map, by : Callers]

\* Nothing is written before the list was read (assertLoaded).
ConnTypeOK ==
    /\ conns \in Map
    /\ load \in {"idle", "reading", "loaded", "failed"}
    /\ stored \in Map
    /\ writes \in Seq(Write)
    /\ load # "loaded" => writes = <<>>

ConnInit ==
    /\ conns = EmptyMap
    /\ load = "idle"
    /\ stored = EmptyMap
    /\ writes = <<>>

-----------------------------------------------------------------------------
(* load()                                                                  *)

\* The first caller creates loadPromise; later callers share it.
LoadBegin ==
    /\ load = "idle"
    /\ load' = "reading"
    /\ UNCHANGED <<conns, stored, writes>>

LoadDone ==
    /\ load = "reading"
    /\ load' = "loaded"
    /\ conns' = [o \in Origins |-> IF stored[o] = NoEntry THEN conns[o] ELSE stored[o]]
    /\ UNCHANGED <<stored, writes>>

\* storage.local.get rejects. loadPromise keeps the rejected promise: no
\* later call reads again, and `loaded` stays false.
LoadFail ==
    /\ load = "reading"
    /\ load' = "failed"
    /\ UNCHANGED <<conns, stored, writes>>

-----------------------------------------------------------------------------
(* approve(), revoke(), revokeAll(): mutate, then save() the whole map.    *)
(* Each is guarded by assertLoaded().                                      *)

\* save(): the snapshot is taken now, the caller resumes when it is written.
Save(map, c) ==
    /\ Len(writes) < MaxWrites
    /\ writes' = Append(writes, [image |-> map, by |-> c])

\* Defect: approve() without assertLoaded().
ApproveUnloaded(o, e, c) ==
    /\ conns' = [conns EXCEPT ![o] = e]
    /\ Save(conns', c)
    /\ UNCHANGED <<load, stored>>

Approve(o, e, c) ==
    /\ load = "loaded"
    /\ conns' = [conns EXCEPT ![o] = e]
    /\ Save(conns', c)
    /\ UNCHANGED <<load, stored>>

\* Defect: the snapshot is taken before the entry is deleted.
RevokeSavesFirst(o, c) ==
    /\ load = "loaded"
    /\ conns[o] # NoEntry
    /\ Save(conns, c)
    /\ conns' = [conns EXCEPT ![o] = NoEntry]
    /\ UNCHANGED <<load, stored>>

\* `if (removed) await this.save()`: for an absent origin it resolves with false,
\* without a save, whatever storage still holds.
Revoke(o, c) ==
    /\ load = "loaded"
    /\ \/ /\ conns[o] # NoEntry
          /\ conns' = [conns EXCEPT ![o] = NoEntry]
          /\ Save(conns', c)
       \/ conns[o] = NoEntry /\ UNCHANGED <<conns, writes>>
    /\ UNCHANGED <<load, stored>>

\* Defect: revokeAll() without assertLoaded().
RevokeAllUnloaded(c) ==
    /\ conns' = EmptyMap
    /\ Save(conns', c)
    /\ UNCHANGED <<load, stored>>

RevokeAll(c) ==
    /\ load = "loaded"
    /\ conns' = EmptyMap
    /\ Save(conns', c)
    /\ UNCHANGED <<load, stored>>

-----------------------------------------------------------------------------
(* The storage area answers the oldest write, and only then does the       *)
(* caller that awaits it go on.                                            *)

\* Defect: storage merges the snapshot with what it holds.
WriteMerges ==
    /\ writes # <<>>
    /\ stored' = [o \in Origins |-> IF Head(writes).image[o] = NoEntry
                                   THEN stored[o] ELSE Head(writes).image[o]]
    /\ writes' = Tail(writes)
    /\ UNCHANGED <<conns, load>>

WriteDone ==
    /\ writes # <<>>
    /\ stored' = Head(writes).image
    /\ writes' = Tail(writes)
    /\ UNCHANGED <<conns, load>>

\* storage.local.set rejects: approve() or revoke() rejects with it, after
\* the map in memory was already changed.
WriteFail ==
    /\ writes # <<>>
    /\ writes' = Tail(writes)
    /\ UNCHANGED <<conns, load, stored>>

\* Chrome kills the worker. A write that was issued may still land, and one
\* that lands has every earlier one land before it.
ConnRestart ==
    /\ conns' = EmptyMap
    /\ load' = "idle"
    /\ stored' \in {stored} \cup {writes[k].image : k \in DOMAIN writes}
    /\ writes' = <<>>

-----------------------------------------------------------------------------
\* Because save() writes the whole map, the youngest write on its way is
\* always the map in memory: when the queue drains, storage has caught up,
\* whatever happened to the writes before it (connection-state.ts save()).
LastWriteIsMemory ==
    writes # <<>> => writes[Len(writes)].image = conns

=============================================================================
