---------------------------- MODULE ReviewMapCache -----------------------------
(***************************************************************************)
(* The Review Map cache of the local server,                               *)
(* crates/ramo-server/src/cache.rs: one JSON file per cache identity in a  *)
(* directory that the server process shares with "ramo server cache        *)
(* clear", a process of its own. The mutex of ReviewMapCache orders the    *)
(* operations of one process only, so a clear runs between their steps.    *)
(*                                                                         *)
(* A file is named after its identity; a read sees it whole, for a write   *)
(* is a rename. Sizes and times are small numbers.                         *)
(***************************************************************************)
EXTENDS Integers, FiniteSets, Functions

CONSTANTS
  Identities,   \* ReviewMapCacheIdentity
  Maps,         \* Review Maps
  Sizes,        \* sizes of encoded entries
  MaxBytes,     \* CacheLimits.max_bytes
  MaxAge,       \* CacheLimits.max_age
  MaxTime,      \* bound: the clock
  Garbled,      \* a file that is not the JSON of an entry
  None

Times == 0..MaxTime

\* A CacheEntry. One that valid_entry refuses is "incompatible": written by
\* another version, for another head or with another schema.
Entries == [valid : BOOLEAN, map : Maps, last_accessed_at : Times, size : Sizes]

ASSUME CacheAssumption ==
  /\ Sizes \subseteq Nat \ {0} /\ Sizes # {}
  /\ MaxBytes \in Nat /\ MaxAge \in Nat /\ MaxTime \in Nat
  /\ None \notin Maps /\ None \notin Identities /\ None \notin Entries
  /\ Garbled \notin Entries /\ Garbled # None
  /\ None \notin {"get", "put"}

VARIABLES
  files,     \* the directory: what the file of an identity holds
  now,       \* unix_seconds
  op,        \* the operation that holds the mutex
  clearing,  \* the names "cache clear" still has to remove
  answer,    \* the last answer of get
  stored,    \* history: the last map that put wrote for each identity
  bounded    \* history: no interruption since the last operation that ended well

vars == <<files, now, op, clearing, answer, stored, bounded>>

\* entries is the list of evict_locked: name, last_accessed_at, size. tied is
\* history: another entry was last used in the second of this operation.
Idle == [kind |-> None, pc |-> "idle", identity |-> None, entry |-> None, now |-> 0,
         todo |-> {}, entries |-> {}, tied |-> FALSE]
NoAnswer == [identity |-> None, map |-> None]

Present == {i \in Identities : files[i] # None}
IsEntry(f) == f \in Entries
Readable == {i \in Present : IsEntry(files[i])}

\* Every variable holds a value of its type, and only a lookup or a store
\* that is under way holds an entry.
TypeOK ==
  /\ files \in [Identities -> Entries \cup {Garbled, None}]
  /\ now \in Times
  /\ op.pc \in {"idle", "discard", "write", "scan", "remove"}
  /\ op.kind \in {"get", "put", None}
  /\ op.identity \in Identities \cup {None}
  /\ op.entry \in Entries \cup {None}
  /\ op.now \in Times
  /\ op.todo \subseteq Identities
  /\ op.entries \subseteq [name : Identities, last_accessed_at : Times, size : Sizes]
  /\ op.tied \in BOOLEAN
  /\ \A e \in op.entries : e.name \notin op.todo
  /\ clearing \subseteq Identities
  /\ answer \in [identity : Identities \cup {None}, map : Maps \cup {None}]
  /\ stored \in [Identities -> Maps \cup {None}] /\ bounded \in BOOLEAN
  /\ op.entry # None <=> op.pc \in {"write", "scan", "remove"}

Init ==
  /\ files = [i \in Identities |-> None]
  /\ now = 0 /\ op = Idle /\ clearing = {}
  /\ answer = NoAnswer /\ bounded = TRUE
  /\ stored = [i \in Identities |-> None]

-----------------------------------------------------------------------------
\* Environment.

Tick ==
  /\ now < MaxTime
  /\ now' = now + 1
  /\ UNCHANGED <<files, op, clearing, answer, stored, bounded>>

\* Between operations an entry is damaged, or the server is replaced by one
\* that refuses it.
Damage(i) ==
  /\ op.pc = "idle"
  /\ i \in Readable
  /\ files[i].valid
  /\ files' = [files EXCEPT ![i] = Garbled] \/ files' = [files EXCEPT ![i].valid = FALSE]
  /\ UNCHANGED <<now, op, clearing, answer, stored, bounded>>

\* The server stops, or an operation of the file system fails: get and put
\* return an error at once and leave the directory as it is.
Interrupted ==
  /\ op.pc # "idle"
  /\ op' = Idle
  /\ bounded' = FALSE
  /\ UNCHANGED <<files, now, clearing, answer, stored>>

-----------------------------------------------------------------------------
\* clear, in another process.

ClearBegins ==
  /\ clearing = {} /\ Present # {}
  /\ clearing' = Present
  /\ UNCHANGED <<files, now, op, answer, stored, bounded>>

\* remove_if_present
ClearRemoves(i) ==
  /\ i \in clearing
  /\ files' = [files EXCEPT ![i] = None]
  /\ clearing' = clearing \ {i}
  /\ UNCHANGED <<now, op, answer, stored, bounded>>

-----------------------------------------------------------------------------
\* get and put.

Expired(entry, t) == t - entry.last_accessed_at > MaxAge

\* Mutant: an entry is trusted because of its file name.
AnyEntry(f) == IsEntry(f)

\* valid_entry
ValidEntry(f) == IsEntry(f) /\ f.valid

\* get reads the file. Without one it answers None.
GetMisses(i) ==
  /\ op.pc = "idle"
  /\ files[i] = None
  /\ answer' = [identity |-> i, map |-> None]
  /\ UNCHANGED <<files, now, op, clearing, stored, bounded>>

\* A file that is garbled, incompatible or expired will be removed.
GetRefuses(i) ==
  /\ op.pc = "idle"
  /\ files[i] # None
  /\ ~(ValidEntry(files[i]) /\ ~Expired(files[i], now))
  /\ op' = [Idle EXCEPT !.kind = "get", !.pc = "discard", !.identity = i]
  /\ UNCHANGED <<files, now, clearing, answer, stored, bounded>>

GetDiscards ==
  /\ op.pc = "discard"
  /\ files' = [files EXCEPT ![op.identity] = None]
  /\ answer' = [identity |-> op.identity, map |-> None]
  /\ op' = Idle
  /\ UNCHANGED <<now, clearing, stored, bounded>>

\* A hit is written back with the time of the access.
GetHits(i) ==
  /\ op.pc = "idle"
  /\ ValidEntry(files[i])
  /\ ~Expired(files[i], now)
  /\ op' = [Idle EXCEPT !.kind = "get", !.pc = "write", !.identity = i, !.now = now,
                        !.entry = [files[i] EXCEPT !.last_accessed_at = now]]
  /\ UNCHANGED <<files, now, clearing, answer, stored, bounded>>

\* put, of a map that belongs to the identity.
Put(i, map, size) ==
  /\ op.pc = "idle"
  /\ op' = [Idle EXCEPT !.kind = "put", !.pc = "write", !.identity = i, !.now = now,
              !.entry = [valid |-> TRUE, map |-> map, last_accessed_at |-> now,
                         size |-> size]]
  /\ UNCHANGED <<files, now, clearing, answer, stored, bounded>>

\* atomic_write renames the temporary file; evict_locked lists the directory.
Write ==
  /\ op.pc = "write"
  /\ files' = [files EXCEPT ![op.identity] = op.entry]
  /\ op' = [op EXCEPT !.pc = "scan", !.todo = {i \in Identities : files'[i] # None}]
  /\ stored' = IF op.kind = "put" THEN [stored EXCEPT ![op.identity] = op.entry.map]
                                  ELSE stored
  /\ UNCHANGED <<now, clearing, answer, bounded>>

\* The rest of the listing once file i was read.
FilesAfter(i) == op.todo \ {i}

\* evict_locked reads a file it listed: one that is garbled or expired is
\* removed, the others count.
Scan(i) ==
  /\ op.pc = "scan"
  /\ i \in op.todo
  /\ files[i] # None
  /\ IF IsEntry(files[i]) /\ ~Expired(files[i], op.now)
       THEN /\ op' = [op EXCEPT !.todo = FilesAfter(i),
                     !.entries = @ \cup {[name |-> i, size |-> files[i].size,
                                          last_accessed_at |-> files[i].last_accessed_at]},
                     !.tied = @ \/ (i # op.identity /\ files[i].last_accessed_at = op.now)]
            /\ UNCHANGED files
       ELSE /\ op' = [op EXCEPT !.todo = FilesAfter(i)]
            /\ files' = [files EXCEPT ![i] = None]
  /\ UNCHANGED <<now, clearing, answer, stored, bounded>>

\* A file that disappeared since it was listed fails the whole operation: get
\* returns the error instead of the map it has.
ScanFails(i) ==
  /\ op.pc = "scan"
  /\ i \in op.todo
  /\ files[i] = None
  /\ op' = Idle
  /\ bounded' = FALSE
  /\ UNCHANGED <<files, now, clearing, answer, stored>>

ScanEnds ==
  /\ op.pc = "scan" /\ op.todo = {}
  /\ op' = [op EXCEPT !.pc = "remove"]
  /\ UNCHANGED <<files, now, clearing, answer, stored, bounded>>

Total(entries) == SumFunctionOnSet([e \in entries |-> e.size], entries)

\* Mutant: the limit is compared with the number of entries.
CountExceeds == Cardinality(op.entries) > MaxBytes

\* total > max_bytes
Exceeds == Total(op.entries) > MaxBytes

\* Mutant: the newest entry goes first.
MostRecent ==
  {e \in op.entries : \A f \in op.entries : f.last_accessed_at <= e.last_accessed_at}

\* sort_by_key(last_accessed_at): one of the oldest, as the directory lists them.
LeastRecent ==
  {e \in op.entries : \A f \in op.entries : e.last_accessed_at <= f.last_accessed_at}

\* The oldest entries are removed until the rest fits.
Remove(i) ==
  /\ op.pc = "remove"
  /\ Exceeds
  /\ \E e \in LeastRecent : /\ e.name = i
                            /\ op' = [op EXCEPT !.entries = @ \ {e}]
  /\ files' = [files EXCEPT ![i] = None]
  /\ UNCHANGED <<now, clearing, answer, stored, bounded>>

\* The operation ends; get answers with the map it read.
Return ==
  /\ op.pc = "remove"
  /\ ~Exceeds
  /\ answer' = IF op.kind = "get" THEN [identity |-> op.identity, map |-> op.entry.map]
                                 ELSE answer
  /\ bounded' = TRUE
  /\ op' = Idle
  /\ UNCHANGED <<files, now, clearing, stored>>

Next ==
  \/ Tick
  \/ \E i \in Identities : Damage(i)
  \/ Interrupted
  \/ ClearBegins
  \/ \E i \in Identities : ClearRemoves(i)
  \/ \E i \in Identities : GetMisses(i)
  \/ \E i \in Identities : GetRefuses(i)
  \/ GetDiscards
  \/ \E i \in Identities : GetHits(i)
  \/ \E i \in Identities, map \in Maps, size \in Sizes : Put(i, map, size)
  \/ Write
  \/ \E i \in Identities : Scan(i)
  \/ \E i \in Identities : ScanFails(i)
  \/ ScanEnds
  \/ \E i \in Identities : Remove(i)
  \/ Return

Spec == Init /\ [][Next]_vars

-----------------------------------------------------------------------------
\* Properties.

\* docs/server.md, "age/size bounded": after an operation that was not
\* interrupted the entries fit max_bytes, although evict_locked adds up a
\* directory that another process is clearing.
SizeBounded ==
  bounded /\ op.pc = "idle" => SumFunctionOnSet([i \in Readable |-> files[i].size], Readable) <= MaxBytes

\* An operation does not evict the map it has just stored or answered with,
\* unless that map alone is too large or another was used in the same second,
\* the resolution of last_accessed_at.
JustUsedSurvives ==
  op.pc = "remove" /\ op.entry.size <= MaxBytes /\ ~op.tied =>
    \E e \in op.entries : e.name = op.identity

\* What is kept for callers: the file, or the entry a lookup holds in memory,
\* which it writes back even if the file was cleared meanwhile.
Kept ==
  [i \in Identities |->
    LET entry == IF op.kind = "get" /\ op.entry # None /\ op.identity = i THEN op.entry
                                                                       ELSE files[i]
    IN IF IsEntry(entry) /\ entry.valid THEN entry.map ELSE None]

\* The cache is a lossy map: no interleaving of lookups, stores, evictions, a
\* clear of another process, damaged files and interruptions makes it answer
\* with anything but the last map stored under the identity.
Lossy == INSTANCE LossyCache WITH kept <- Kept
ImplementsLossyCache == Lossy!Spec
=============================================================================
