-------------------------- MODULE ReviewMapCacheProofs --------------------------
(***************************************************************************)
(* The Review Map cache, for every number of identities, maps and sizes:   *)
(* it is a lossy map, it keeps what was just used, and it fits its limit.  *)
(***************************************************************************)
EXTENDS ReviewMapCache, FiniteSetTheorems, TLAPS

Pick(s) == CHOOSE x \in s : TRUE
IsSum(g, f, S) == g = [s \in SUBSET S |-> IF s = {} THEN 0 ELSE f[Pick(s)] + g[s \ {Pick(s)}]]

\* The sum of a function over a set is the solution of its recursion.
LEMMA SumIsChosen ==
  ASSUME NEW f, NEW S
  PROVE  SumFunctionOnSet(f, S) = (CHOOSE g : IsSum(g, f, S))[S]
BY DEF SumFunctionOnSet, FoldFunctionOnSet, MapThenFoldSet, IsSum, Pick

\* Induction over the subsets of a finite set: a set of them has a minimal one.
LEMMA MinimalSubset ==
  ASSUME NEW S, IsFiniteSet(S), NEW T, T \subseteq SUBSET S, T # {}
  PROVE  \E t \in T : \A u \in T : u \subseteq t => u = t
<1>1. IsWellFoundedOn(StrictSubsetOrdering(S), SUBSET S)
  BY FS_StrictSubsetOrderingWellFounded, FS_FiniteSubsetsOfFinite
<1>2. PICK t \in T : \A u \in T : ~(<<u, t>> \in StrictSubsetOrdering(S))
  BY <1>1, WFMin
<1>3. \A u \in T : u \subseteq t => u = t
  BY <1>2 DEF StrictSubsetOrdering
<1> QED BY <1>3

\* Two solutions of the recursion agree where both are defined.
LEMMA SumUnique ==
  ASSUME NEW S, IsFiniteSet(S), NEW A, NEW B, S \subseteq A, S \subseteq B,
         NEW f, NEW g, NEW h, IsSum(g, f, A), IsSum(h, f, B)
  PROVE  g[S] = h[S]
<1> DEFINE T == {s \in SUBSET S : g[s] # h[s]}
<1>1. SUFFICES ASSUME T # {} PROVE FALSE
  OBVIOUS
<1>2. PICK t \in T : \A u \in T : u \subseteq t => u = t
  <2>1. T \subseteq SUBSET S
    OBVIOUS
  <2> HIDE DEF T
  <2> QED BY <1>1, <2>1, MinimalSubset
<1>3. t # {}
  BY DEF IsSum
<1>4. Pick(t) \in t
  BY <1>3 DEF Pick
<1>5. g[t \ {Pick(t)}] = h[t \ {Pick(t)}]
  BY <1>2, <1>4
<1>6. g[t] = f[Pick(t)] + g[t \ {Pick(t)}] /\ h[t] = f[Pick(t)] + h[t \ {Pick(t)}]
  BY <1>3 DEF IsSum
<1> QED BY <1>5, <1>6

\* The recursion has a solution on the subsets of a finite set.
LEMMA SumExists ==
  ASSUME NEW S, IsFiniteSet(S), NEW f
  PROVE  \E g : IsSum(g, f, S)
<1> DEFINE T == {t \in SUBSET S : ~\E g : IsSum(g, f, t)}
           R(u) == CHOOSE h : IsSum(h, f, u)
           rest(s) == s \ {Pick(s)}
<1>1. SUFFICES ASSUME T # {} PROVE FALSE
  OBVIOUS
<1>2. PICK t \in T : \A u \in T : u \subseteq t => u = t
  <2>1. T \subseteq SUBSET S
    OBVIOUS
  <2> HIDE DEF T
  <2> QED BY <1>1, <2>1, MinimalSubset
<1>3. \A u \in SUBSET t : u # t => IsSum(R(u), f, u)
  BY <1>2
<1>4. \A s \in SUBSET t : s # {} => Pick(s) \in s /\ rest(s) \in SUBSET t /\ rest(s) # t
  BY DEF Pick
<1> DEFINE g == [s \in SUBSET t |-> IF s = {} THEN 0 ELSE f[Pick(s)] + R(rest(s))[rest(s)]]
<1>5. ASSUME NEW v \in SUBSET t, v # t
      PROVE  g[v] = R(v)[v]
  <2>1. IsSum(R(v), f, v)
    BY <1>3, <1>5
  <2>2. CASE v = {}
    BY <2>1, <2>2 DEF IsSum
  <2>3. CASE v # {}
    <3>1. R(v)[v] = f[Pick(v)] + R(v)[rest(v)]
      BY <2>1, <2>3 DEF IsSum
    <3>2. IsSum(R(rest(v)), f, rest(v)) /\ rest(v) \subseteq v
      BY <1>3, <1>4, <2>3
    <3>3. IsFiniteSet(rest(v))
      BY FS_Subset
    <3>4. R(rest(v))[rest(v)] = R(v)[rest(v)]
      <4> HIDE DEF R, rest
      <4> QED BY <2>1, <3>2, <3>3, SumUnique
    <3> QED BY <2>3, <3>1, <3>4
  <2> QED BY <2>2, <2>3
<1>6. g = [s \in SUBSET t |-> IF s = {} THEN 0 ELSE f[Pick(s)] + g[s \ {Pick(s)}]]
  <2>1. \A s \in SUBSET t : s # {} => g[rest(s)] = R(rest(s))[rest(s)]
    <3> HIDE DEF g, R
    <3> QED BY <1>4, <1>5
  <2> HIDE DEF R
  <2> QED BY <2>1
<1>7. IsSum(g, f, t)
  BY <1>6 DEF IsSum
<1> QED BY <1>7

\* So the sum of a function over a finite set is what its recursion says.
LEMMA SumStep ==
  ASSUME NEW S, IsFiniteSet(S), NEW f
  PROVE  /\ S = {} => SumFunctionOnSet(f, S) = 0
         /\ S # {} => /\ Pick(S) \in S
                      /\ SumFunctionOnSet(f, S) = f[Pick(S)] + SumFunctionOnSet(f, S \ {Pick(S)})
<1> DEFINE R(u) == CHOOSE h : IsSum(h, f, u)
           rest == S \ {Pick(S)}
<1>1. IsFiniteSet(rest)
  BY FS_Subset
<1>2. IsSum(R(S), f, S) /\ IsSum(R(rest), f, rest)
  BY <1>1, SumExists
<1>3. SumFunctionOnSet(f, S) = R(S)[S] /\ SumFunctionOnSet(f, rest) = R(rest)[rest]
  BY SumIsChosen
<1>4. R(rest)[rest] = R(S)[rest]
  <2>1. rest \subseteq S
    OBVIOUS
  <2> HIDE DEF R, rest
  <2> QED BY <1>1, <1>2, <2>1, SumUnique
<1>5. CASE S = {}
  BY <1>2, <1>3, <1>5 DEF IsSum
<1>6. CASE S # {}
  <2>1. Pick(S) \in S
    BY <1>6 DEF Pick
  <2>2. R(S)[S] = f[Pick(S)] + R(S)[rest]
    BY <1>2, <1>6 DEF IsSum
  <2> QED BY <1>3, <1>4, <1>6, <2>1, <2>2
<1> QED BY <1>5, <1>6

\* The sum of numbers is a number.
LEMMA SumType ==
  ASSUME NEW S, IsFiniteSet(S), NEW f, \A x \in S : f[x] \in Nat
  PROVE  SumFunctionOnSet(f, S) \in Nat
<1> DEFINE T == {t \in SUBSET S : SumFunctionOnSet(f, t) \notin Nat}
<1>1. SUFFICES ASSUME T # {} PROVE FALSE
  OBVIOUS
<1>2. PICK t \in T : \A u \in T : u \subseteq t => u = t
  <2>1. T \subseteq SUBSET S
    OBVIOUS
  <2> HIDE DEF T
  <2> QED BY <1>1, <2>1, MinimalSubset
<1>3. IsFiniteSet(t)
  BY FS_Subset
<1>4. Pick(t) \in t /\ SumFunctionOnSet(f, t) = f[Pick(t)] + SumFunctionOnSet(f, t \ {Pick(t)})
  <2>1. t = {} => SumFunctionOnSet(f, t) = 0
    BY <1>3, SumStep
  <2>2. t # {}
    BY <2>1
  <2> QED BY <1>3, <2>2, SumStep
<1>5. SumFunctionOnSet(f, t \ {Pick(t)}) \in Nat
  <2>1. t \ {Pick(t)} \in SUBSET S /\ t \ {Pick(t)} # t
    BY <1>4
  <2>2. t \ {Pick(t)} \notin T
    BY <1>2, <2>1
  <2> QED BY <2>1, <2>2
<1>6. f[Pick(t)] \in Nat
  BY <1>4
<1> QED BY <1>4, <1>5, <1>6

\* Any element can be taken out of a sum, not only the one the recursion picks.
LEMMA SumWithout ==
  ASSUME NEW S, IsFiniteSet(S), NEW f, \A x \in S : f[x] \in Nat, NEW y \in S
  PROVE  SumFunctionOnSet(f, S) = f[y] + SumFunctionOnSet(f, S \ {y})
<1> DEFINE Sum(s) == SumFunctionOnSet(f, s)
           T == {t \in SUBSET S : \E z \in t : Sum(t) # f[z] + Sum(t \ {z})}
<1>1. SUFFICES ASSUME T # {} PROVE FALSE
  OBVIOUS
<1>2. PICK t \in T : \A u \in T : u \subseteq t => u = t
  <2>1. T \subseteq SUBSET S
    OBVIOUS
  <2> HIDE DEF T
  <2> QED BY <1>1, <2>1, MinimalSubset
<1>3. PICK z \in t : Sum(t) # f[z] + Sum(t \ {z})
  OBVIOUS
<1> DEFINE c == Pick(t)
<1>4. c \in t /\ Sum(t) = f[c] + Sum(t \ {c})
  <2>1. IsFiniteSet(t)
    BY FS_Subset
  <2> QED BY <1>3, <2>1, SumStep
<1>5. c # z
  BY <1>3, <1>4
<1> HIDE DEF c, Sum
<1>6. Sum(t \ {c}) = f[z] + Sum((t \ {c}) \ {z}) /\ Sum(t \ {z}) = f[c] + Sum((t \ {z}) \ {c})
  <2>1. t \ {c} \notin T /\ t \ {z} \notin T
    BY <1>2, <1>3, <1>4
  <2> QED BY <1>3, <1>4, <1>5, <2>1
<1>7. (t \ {c}) \ {z} = (t \ {z}) \ {c}
  OBVIOUS
<1>8. f[c] \in Nat /\ f[z] \in Nat /\ Sum((t \ {c}) \ {z}) \in Nat
  <2>1. IsFiniteSet((t \ {c}) \ {z})
    BY FS_Subset
  <2> QED BY <1>3, <1>4, <2>1, SumType DEF Sum
<1> QED BY <1>3, <1>4, <1>6, <1>7, <1>8

\* A sum over part of the terms of another is no greater.
LEMMA SumMonotone ==
  ASSUME NEW A, IsFiniteSet(A), NEW f, \A a \in A : f[a] \in Nat,
         NEW B, IsFiniteSet(B), NEW g, \A b \in B : g[b] \in Nat,
         NEW h \in [A -> B], \A a, b \in A : h[a] = h[b] => a = b,
         \A a \in A : f[a] <= g[h[a]]
  PROVE  SumFunctionOnSet(f, A) <= SumFunctionOnSet(g, B)
<1> DEFINE image(t) == {h[a] : a \in t}
           T == {t \in SUBSET A : ~(\A C \in SUBSET B : image(t) \subseteq C =>
                                      SumFunctionOnSet(f, t) <= SumFunctionOnSet(g, C))}
<1>1. CASE T = {}
  <2>1. A \notin T
    BY <1>1
  <2>2. image(A) \subseteq B
    OBVIOUS
  <2> QED BY <2>1, <2>2
<1>2. CASE T # {}
  <2>1. PICK t \in T : \A u \in T : u \subseteq t => u = t
    <3>1. T \subseteq SUBSET A
      OBVIOUS
    <3> HIDE DEF T
    <3> QED BY <1>2, <3>1, MinimalSubset
  <2>2. PICK C \in SUBSET B : image(t) \subseteq C /\ ~(SumFunctionOnSet(f, t) <= SumFunctionOnSet(g, C))
    OBVIOUS
  <2>3. IsFiniteSet(t) /\ IsFiniteSet(C)
    BY FS_Subset
  <2>4. SumFunctionOnSet(g, C) \in Nat /\ SumFunctionOnSet(f, t) \in Nat
    BY <2>3, SumType
  <2>5. t # {}
    <3> SUFFICES ASSUME t = {} PROVE FALSE
      OBVIOUS
    <3>1. SumFunctionOnSet(f, t) = 0
      BY <2>3, SumStep
    <3> HIDE DEF T
    <3> QED BY <2>2, <2>4, <3>1
  <2>6. PICK a \in t : TRUE
    BY <2>5
  <2>7. SumFunctionOnSet(f, t) = f[a] + SumFunctionOnSet(f, t \ {a})
    BY <2>3, SumWithout
  <2>8. SumFunctionOnSet(g, C) = g[h[a]] + SumFunctionOnSet(g, C \ {h[a]})
    BY <2>2, <2>3, SumWithout
  <2>9. SumFunctionOnSet(f, t \ {a}) <= SumFunctionOnSet(g, C \ {h[a]})
    <3>1. image(t \ {a}) \subseteq C \ {h[a]}
      BY <2>2
    <3>2. t \ {a} \notin T
      BY <2>1
    <3> QED BY <3>1, <3>2
  <2>10. /\ f[a] \in Nat /\ g[h[a]] \in Nat /\ f[a] <= g[h[a]]
         /\ SumFunctionOnSet(f, t \ {a}) \in Nat /\ SumFunctionOnSet(g, C \ {h[a]}) \in Nat
    <3>1. IsFiniteSet(t \ {a}) /\ IsFiniteSet(C \ {h[a]})
      BY <2>3, FS_Subset
    <3> QED BY <3>1, SumType
  <2> HIDE DEF T
  <2> QED BY <2>2, <2>7, <2>8, <2>9, <2>10
<1> QED BY <1>1, <1>2
-----------------------------------------------------------------------------
(* The inductive invariant.                                                *)

OpStates ==
  [kind : {"get", "put", None}, pc : {"idle", "discard", "write", "scan", "remove"},
   identity : Identities \cup {None}, entry : Entries \cup {None}, now : Times,
   todo : SUBSET Identities,
   entries : SUBSET [name : Identities, last_accessed_at : Times, size : Sizes], tied : BOOLEAN]

\* An operation under way knows its identity, and what it holds is a valid
\* entry, last used when the operation began.
Held ==
  /\ op.pc = "idle" <=> op.kind = None
  /\ op.pc # "idle" => op.identity \in Identities
  /\ op.pc = "discard" => op.kind = "get"
  /\ op.entry # None => op.entry.valid /\ op.entry.last_accessed_at = op.now /\ op.now <= now

\* What a lookup holds is what its file says, as long as there is one.
HeldIsFiled ==
  op.kind = "get" /\ op.entry # None /\ files[op.identity] # None =>
    ValidEntry(files[op.identity]) /\ files[op.identity].map = op.entry.map

\* No file was used in the future, nor after the operation under way began.
NoneIsNewer ==
  \A i \in Identities : IsEntry(files[i]) =>
    /\ files[i].last_accessed_at <= now
    /\ op.entry # None => files[i].last_accessed_at <= op.now

\* evict_locked's list: one element per file, none newer than the operation
\* and none as new but its own unless tied.
Listing ==
  /\ \A e, f \in op.entries : e.name = f.name => e = f
  /\ \A e \in op.entries : /\ e.last_accessed_at <= op.now
                           /\ e.last_accessed_at = op.now => e.name = op.identity \/ op.tied
  /\ op.pc = "remove" => op.todo = {}
  /\ op.pc \notin {"scan", "remove"} => op.entries = {}

\* Every entry in the directory is in the list or still to be read.
Counted ==
  op.pc \in {"scan", "remove"} =>
    \A i \in Identities : IsEntry(files[i]) =>
      i \in op.todo \/ \E e \in op.entries : e.name = i /\ e.size = files[i].size

Own(e) == e.name = op.identity /\ e.last_accessed_at = op.now /\ e.size = op.entry.size

\* The operation's own file is in the list, still to be read, or gone.
OwnIsListed ==
  /\ op.pc = "scan" =>
       \/ op.identity \in op.todo /\ files[op.identity] \in {None, op.entry}
       \/ \E e \in op.entries : Own(e)
  /\ op.pc = "remove" /\ op.entry.size <= MaxBytes /\ ~op.tied => \E e \in op.entries : Own(e)

\* The directory and the list are finite.
AreFinite == IsFiniteSet(Present) /\ IsFiniteSet(op.entries)

\* The bound also holds while a lookup removes a file it refused.
Fits ==
  bounded /\ op.pc \in {"idle", "discard"} =>
    SumFunctionOnSet([i \in Readable |-> files[i].size], Readable) <= MaxBytes

CacheInv ==
  /\ TypeOK
  /\ op \in OpStates
  /\ Held
  /\ HeldIsFiled
  /\ NoneIsNewer
  /\ Listing
  /\ Counted
  /\ OwnIsListed
  /\ AreFinite
  /\ Fits

\* The empty cache.
LEMMA CacheInitInv == Init => CacheInv
<1> SUFFICES ASSUME Init PROVE CacheInv
  OBVIOUS
<1> USE CacheAssumption
<1>1. 0 \in Times /\ op = Idle /\ now = 0 /\ \A i \in Identities : files[i] = None
  BY DEF Init, Times
<1>2. TypeOK /\ op \in OpStates
  BY <1>1 DEF Init, TypeOK, OpStates, Idle, NoAnswer
<1>3. Held /\ HeldIsFiled /\ Listing /\ Counted /\ OwnIsListed
  BY <1>1 DEF Idle, Held, HeldIsFiled, Listing, Counted, OwnIsListed
<1>4. NoneIsNewer
  BY <1>1 DEF NoneIsNewer, IsEntry
<1>5. Present = {} /\ Readable = {} /\ op.entries = {}
  BY <1>1 DEF Present, Readable, Idle
<1>6. AreFinite
  BY <1>5, FS_EmptySet DEF AreFinite
<1>7. Fits
  <2> DEFINE f == [i \in Readable |-> files[i].size]
  <2>1. SumFunctionOnSet(f, Readable) = 0
    <3> HIDE DEF f
    <3> QED BY <1>5, FS_EmptySet, SumStep
  <2> QED BY <2>1 DEF Fits
<1> QED BY <1>2, <1>3, <1>4, <1>6, <1>7 DEF CacheInv

\* What the steps do to the operation under way, and its type.
LEMMA OpKept ==
  ASSUME CacheInv, [Next]_vars
  PROVE  /\ op' \in OpStates
         /\ op'.entry # None <=> op'.pc \in {"write", "scan", "remove"}
         /\ \A e \in op'.entries : e.name \notin op'.todo
<1> USE CacheAssumption
<1>1. /\ op \in OpStates /\ now \in Times /\ files \in [Identities -> Entries \cup {Garbled, None}]
      /\ op.entry # None <=> op.pc \in {"write", "scan", "remove"}
      /\ \A e \in op.entries : e.name \notin op.todo
      /\ op.pc \notin {"scan", "remove"} => op.entries = {}
  BY DEF CacheInv, TypeOK, Listing
<1>2. Idle \in OpStates
  BY DEF Idle, OpStates, Times
<1>3. CASE op' = op
  BY <1>1, <1>3
<1>4. CASE op' = Idle
  BY <1>2, <1>4 DEF Idle
<1>5. ASSUME NEW i \in Identities, GetRefuses(i) \/ GetHits(i)
      PROVE  op' \in OpStates /\ (op'.entry # None <=> op'.pc \in {"write", "scan", "remove"}) /\ op'.entries = {}
  <2>1. CASE GetRefuses(i)
    BY <1>2, <2>1 DEF GetRefuses, OpStates, Idle
  <2>2. CASE GetHits(i)
    <3>1. [files[i] EXCEPT !.last_accessed_at = now] \in Entries
      BY <1>1, <2>2 DEF GetHits, ValidEntry, IsEntry, Entries
    <3> QED BY <1>1, <1>2, <2>2, <3>1 DEF GetHits, OpStates, Idle
  <2> QED BY <1>5, <2>1, <2>2
<1>6. ASSUME NEW i \in Identities, NEW map \in Maps, NEW size \in Sizes, Put(i, map, size)
      PROVE  op' \in OpStates /\ (op'.entry # None <=> op'.pc \in {"write", "scan", "remove"}) /\ op'.entries = {}
  <2>1. [valid |-> TRUE, map |-> map, last_accessed_at |-> now, size |-> size] \in Entries
    BY <1>1 DEF Entries
  <2> QED BY <1>1, <1>2, <1>6, <2>1 DEF Put, OpStates, Idle
<1>7. CASE Write
  BY <1>1, <1>7 DEF Write, OpStates
<1>8. ASSUME NEW i \in Identities, Scan(i)
      PROVE  op' \in OpStates /\ op'.entry = op.entry /\ op'.pc = "scan" /\ op.pc = "scan"
             /\ \A e \in op'.entries : e.name \notin op'.todo
  <2>1. CASE IsEntry(files[i]) /\ ~Expired(files[i], op.now)
    <3> DEFINE e0 == [name |-> i, size |-> files[i].size, last_accessed_at |-> files[i].last_accessed_at]
               tie == op.tied \/ (i # op.identity /\ files[i].last_accessed_at = op.now)
    <3>1. e0 \in [name : Identities, last_accessed_at : Times, size : Sizes] /\ e0.name = i
      BY <2>1 DEF IsEntry, Entries
    <3>2. op.pc = "scan" /\ op' = [op EXCEPT !.todo = FilesAfter(i), !.entries = @ \cup {e0}, !.tied = tie]
      BY <1>8, <2>1 DEF Scan
    <3>3. tie \in BOOLEAN
      BY <1>1 DEF OpStates
    <3> HIDE DEF e0, tie
    <3> QED BY <1>1, <3>1, <3>2, <3>3 DEF OpStates, FilesAfter
  <2>2. CASE ~(IsEntry(files[i]) /\ ~Expired(files[i], op.now))
    BY <1>1, <1>8, <2>2 DEF Scan, OpStates, FilesAfter
  <2> QED BY <2>1, <2>2
<1>9. CASE ScanEnds
  BY <1>1, <1>9 DEF ScanEnds, OpStates
<1>10. ASSUME NEW i \in Identities, Remove(i)
       PROVE  op' \in OpStates /\ op'.entry = op.entry /\ op'.pc = "remove" /\ op.pc = "remove"
              /\ op'.entries \subseteq op.entries /\ op'.todo = op.todo
  BY <1>1, <1>10 DEF Remove, OpStates
<1>11. \/ op' = op \/ op' = Idle \/ Write \/ ScanEnds
       \/ \E i \in Identities : GetRefuses(i) \/ GetHits(i) \/ Scan(i) \/ Remove(i)
       \/ \E i \in Identities, map \in Maps, size \in Sizes : Put(i, map, size)
  BY DEF Next, vars, Tick, Damage, Interrupted, ClearBegins, ClearRemoves, GetMisses, GetDiscards, ScanFails, Return
<1> QED BY <1>1, <1>3, <1>4, <1>5, <1>6, <1>7, <1>8, <1>9, <1>10, <1>11

\* Types are kept.
LEMMA CacheTypes ==
  ASSUME CacheInv, [Next]_vars
  PROVE  TypeOK'
<1> USE CacheAssumption
<1>1. TypeOK /\ Held
  BY DEF CacheInv
<1>2. op' \in OpStates /\ (op'.entry # None <=> op'.pc \in {"write", "scan", "remove"})
      /\ \A e \in op'.entries : e.name \notin op'.todo
  BY OpKept
<1>3. files' \in [Identities -> Entries \cup {Garbled, None}]
  <2>1. CASE files' = files
    BY <1>1, <2>1 DEF TypeOK
  <2>2. ASSUME NEW i \in Identities, files' = [files EXCEPT ![i] = None] \/ files' = [files EXCEPT ![i] = Garbled]
        PROVE  files' \in [Identities -> Entries \cup {Garbled, None}]
    BY <1>1, <2>2 DEF TypeOK
  <2>3. ASSUME NEW i \in Identities, Damage(i)
        PROVE  files' \in [Identities -> Entries \cup {Garbled, None}]
    <3>1. [files[i] EXCEPT !.valid = FALSE] \in Entries
      BY <2>3 DEF Damage, Readable, IsEntry, Entries
    <3> QED BY <1>1, <2>3, <3>1 DEF Damage, TypeOK
  <2>4. CASE Write
    BY <1>1, <2>4 DEF Write, TypeOK, Held
  <2>5. CASE GetDiscards
    BY <1>1, <2>5 DEF GetDiscards, TypeOK, Held
  <2>6. \/ files' = files \/ Write \/ GetDiscards
        \/ \E i \in Identities : Damage(i) \/ files' = [files EXCEPT ![i] = None]
    BY DEF Next, vars, Tick, Interrupted, ClearBegins, ClearRemoves, GetMisses, GetRefuses,
           GetHits, Put, Scan, ScanFails, ScanEnds, Remove, Return
  <2> QED BY <2>1, <2>2, <2>3, <2>4, <2>5, <2>6
<1>4. now' \in Times /\ clearing' \subseteq Identities /\ bounded' \in BOOLEAN
  <2>1. \/ now' = now \/ (now < MaxTime /\ now' = now + 1)
    BY DEF Next, vars, Tick, Damage, Interrupted, ClearBegins, ClearRemoves, GetMisses, GetRefuses,
           GetHits, Put, Write, GetDiscards, Scan, ScanFails, ScanEnds, Remove, Return
  <2>2. clearing' = Present \/ clearing' \subseteq clearing
    BY DEF Next, vars, Tick, Damage, Interrupted, ClearBegins, ClearRemoves, GetMisses, GetRefuses,
           GetHits, Put, Write, GetDiscards, Scan, ScanFails, ScanEnds, Remove, Return
  <2>3. bounded' = bounded \/ bounded' = TRUE \/ bounded' = FALSE
    BY DEF Next, vars, Tick, Damage, Interrupted, ClearBegins, ClearRemoves, GetMisses, GetRefuses,
           GetHits, Put, Write, GetDiscards, Scan, ScanFails, ScanEnds, Remove, Return
  <2>4. now' \in Times
    BY <1>1, <2>1 DEF TypeOK, Times
  <2>5. clearing' \subseteq Identities
    BY <1>1, <2>2 DEF TypeOK, Present
  <2>6. bounded \in BOOLEAN
    BY <1>1 DEF TypeOK
  <2> QED BY <2>3, <2>4, <2>5, <2>6
<1>5. answer' \in [identity : Identities \cup {None}, map : Maps \cup {None}]
  <2>1. CASE answer' = answer
    BY <1>1, <2>1 DEF TypeOK
  <2>2. ASSUME NEW i \in Identities, GetMisses(i)
        PROVE  answer' \in [identity : Identities \cup {None}, map : Maps \cup {None}]
    BY <2>2 DEF GetMisses
  <2>3. CASE GetDiscards
    BY <1>1, <2>3 DEF GetDiscards, Held
  <2>4. CASE Return
    BY <1>1, <2>4 DEF Return, TypeOK, Entries
  <2>5. answer' = answer \/ GetDiscards \/ Return \/ \E i \in Identities : GetMisses(i)
    BY DEF Next, vars, Tick, Damage, Interrupted, ClearBegins, ClearRemoves, GetRefuses,
           GetHits, Put, Write, Scan, ScanFails, ScanEnds, Remove
  <2> QED BY <2>1, <2>2, <2>3, <2>4, <2>5
<1>6. stored' \in [Identities -> Maps \cup {None}]
  <2>1. CASE Write
    BY <1>1, <2>1 DEF Write, TypeOK, Held, Entries
  <2>2. Write \/ stored' = stored
    BY DEF Next, vars, Tick, Damage, Interrupted, ClearBegins, ClearRemoves, GetMisses, GetRefuses,
           GetHits, Put, GetDiscards, Scan, ScanFails, ScanEnds, Remove, Return
  <2> QED BY <1>1, <2>1, <2>2 DEF TypeOK
<1> QED BY <1>2, <1>3, <1>4, <1>5, <1>6 DEF TypeOK, OpStates

\* What a step does to a file: nothing, it removes it, or an idle cache finds
\* it damaged, or the operation writes its entry.
LEMMA FileStep ==
  ASSUME CacheInv, [Next]_vars, NEW i \in Identities
  PROVE  \/ files'[i] \in {files[i], None}
         \/ /\ op.pc = "idle" /\ op' = op /\ bounded' = bounded /\ now' = now /\ IsEntry(files[i])
            /\ files'[i] = Garbled \/ files'[i] = [files[i] EXCEPT !.valid = FALSE]
         \/ Write /\ i = op.identity /\ files'[i] = op.entry
<1>1. files \in [Identities -> Entries \cup {Garbled, None}]
  BY DEF CacheInv, TypeOK
<1>2. ASSUME NEW j \in Identities, Damage(j)
      PROVE  \/ files'[i] \in {files[i], None}
             \/ /\ op.pc = "idle" /\ op' = op /\ bounded' = bounded /\ now' = now /\ IsEntry(files[i])
                /\ files'[i] = Garbled \/ files'[i] = [files[i] EXCEPT !.valid = FALSE]
  BY <1>1, <1>2 DEF Damage, Readable
<1>3. CASE Write
  BY <1>1, <1>3 DEF Write
<1>4. ASSUME NEW j, files' = [files EXCEPT ![j] = None]
      PROVE  files'[i] \in {files[i], None}
  BY <1>1, <1>4
<1>5. \/ files' = files \/ Write
      \/ \E j \in Identities : Damage(j)
      \/ \E j : files' = [files EXCEPT ![j] = None]
  BY DEF Next, vars, Tick, Interrupted, ClearBegins, ClearRemoves, GetMisses, GetRefuses, GetDiscards,
         GetHits, Put, Scan, ScanFails, ScanEnds, Remove, Return
<1> QED BY <1>2, <1>3, <1>4, <1>5

\* What a step does to the operation under way.
LEMMA OpStep ==
  ASSUME CacheInv, [Next]_vars
  PROVE  \/ op' = op
         \/ op' = Idle
         \/ /\ op.pc = "idle" /\ op'.pc = "discard" /\ op'.kind = "get" /\ op'.identity \in Identities
            /\ op'.entry = None /\ op'.entries = {}
         \/ /\ op.pc = "idle" /\ op'.pc = "write" /\ op'.kind \in {"get", "put"} /\ op'.identity \in Identities
            /\ op'.now = now /\ op'.entries = {} /\ op'.entry.valid /\ op'.entry.last_accessed_at = now
            /\ UNCHANGED <<files, now, bounded>>
            /\ op'.kind = "get" => ValidEntry(files[op'.identity]) /\ files[op'.identity].map = op'.entry.map
         \/ Write \/ ScanEnds \/ (\E i \in Identities : Scan(i) \/ Remove(i))
<1> USE CacheAssumption
<1>1. op \in OpStates /\ files \in [Identities -> Entries \cup {Garbled, None}]
  BY DEF CacheInv, TypeOK
<1>2. Idle \in OpStates
  BY DEF Idle, OpStates, Times
<1>3. ASSUME NEW i \in Identities, GetRefuses(i)
      PROVE  /\ op.pc = "idle" /\ op'.pc = "discard" /\ op'.kind = "get" /\ op'.identity \in Identities
             /\ op'.entry = None /\ op'.entries = {}
  BY <1>2, <1>3 DEF GetRefuses, Idle
<1>4. ASSUME NEW i \in Identities, GetHits(i)
      PROVE  /\ op.pc = "idle" /\ op'.pc = "write" /\ op'.kind \in {"get", "put"} /\ op'.identity \in Identities
             /\ op'.now = now /\ op'.entries = {} /\ op'.entry.valid /\ op'.entry.last_accessed_at = now
             /\ UNCHANGED <<files, now, bounded>>
             /\ op'.kind = "get" => ValidEntry(files[op'.identity]) /\ files[op'.identity].map = op'.entry.map
  <2>1. files[i] \in Entries /\ files[i].valid
    BY <1>4 DEF GetHits, ValidEntry, IsEntry
  <2> DEFINE e0 == [files[i] EXCEPT !.last_accessed_at = now]
  <2>2. e0.valid /\ e0.map = files[i].map /\ e0.last_accessed_at = now
    BY <2>1 DEF Entries
  <2>3. op' = [Idle EXCEPT !.kind = "get", !.pc = "write", !.identity = i, !.now = now, !.entry = e0]
    BY <1>4 DEF GetHits
  <2> HIDE DEF e0
  <2>4. op'.kind = "get" /\ op'.pc = "write" /\ op'.identity = i /\ op'.now = now /\ op'.entry = e0 /\ op'.entries = {}
    BY <2>3 DEF Idle
  <2> QED BY <1>4, <2>2, <2>4 DEF GetHits
<1>5. ASSUME NEW i \in Identities, NEW map \in Maps, NEW size \in Sizes, Put(i, map, size)
      PROVE  /\ op.pc = "idle" /\ op'.pc = "write" /\ op'.kind \in {"get", "put"} /\ op'.identity \in Identities
             /\ op'.now = now /\ op'.entries = {} /\ op'.entry.valid /\ op'.entry.last_accessed_at = now
             /\ UNCHANGED <<files, now, bounded>>
             /\ op'.kind # "get"
  BY <1>5 DEF Put, Idle
<1>6. \/ op' = op \/ op' = Idle \/ Write \/ ScanEnds
      \/ \E i \in Identities : GetRefuses(i) \/ GetHits(i) \/ Scan(i) \/ Remove(i)
      \/ \E i \in Identities, map \in Maps, size \in Sizes : Put(i, map, size)
  BY DEF Next, vars, Tick, Damage, Interrupted, ClearBegins, ClearRemoves, GetMisses, GetDiscards, ScanFails, Return
<1> QED BY <1>3, <1>4, <1>5, <1>6

\* What the steps of an operation that holds an entry leave alone.
LEMMA OpGoesOn ==
  ASSUME CacheInv, Write \/ ScanEnds \/ (\E i \in Identities : Scan(i) \/ Remove(i))
  PROVE  /\ op'.kind = op.kind /\ op'.identity = op.identity /\ op'.entry = op.entry /\ op'.now = op.now
         /\ op.pc \in {"write", "scan", "remove"} /\ op'.pc \in {"scan", "remove"}
         /\ UNCHANGED <<now, bounded>>
<1>1. op \in OpStates
  BY DEF CacheInv
<1>2. CASE Write \/ ScanEnds
  BY <1>1, <1>2 DEF Write, ScanEnds, OpStates
<1>3. ASSUME NEW i \in Identities, Scan(i)
      PROVE  /\ op'.kind = op.kind /\ op'.identity = op.identity /\ op'.entry = op.entry /\ op'.now = op.now
             /\ op.pc = "scan" /\ op'.pc = "scan" /\ UNCHANGED <<now, bounded>>
  BY <1>1, <1>3 DEF Scan, OpStates
<1>4. ASSUME NEW i \in Identities, Remove(i)
      PROVE  /\ op'.kind = op.kind /\ op'.identity = op.identity /\ op'.entry = op.entry /\ op'.now = op.now
             /\ op.pc = "remove" /\ op'.pc = "remove" /\ UNCHANGED <<now, bounded>>
  BY <1>1, <1>4 DEF Remove, OpStates
<1> QED BY <1>2, <1>3, <1>4

\* The entry an operation holds.
LEMMA HeldKept ==
  ASSUME CacheInv, [Next]_vars
  PROVE  Held' /\ HeldIsFiled' /\ NoneIsNewer'
<1> USE CacheAssumption
<1>1. /\ Held /\ HeldIsFiled /\ NoneIsNewer /\ op \in OpStates /\ now \in Times /\ now' \in Times
      /\ op.entry # None <=> op.pc \in {"write", "scan", "remove"}
      /\ op'.entry # None <=> op'.pc \in {"write", "scan", "remove"}
      /\ files \in [Identities -> Entries \cup {Garbled, None}]
  BY CacheTypes DEF CacheInv, TypeOK
<1>2. now' = now \/ now' = now + 1
  BY DEF Next, vars, Tick, Damage, Interrupted, ClearBegins, ClearRemoves, GetMisses, GetRefuses,
         GetHits, Put, Write, GetDiscards, Scan, ScanFails, ScanEnds, Remove, Return
<1>3. now \in Int /\ op.now \in Int
  BY <1>1 DEF Times, OpStates
<1>4. Held'
  <2>1. CASE op' = op
    BY <1>1, <1>2, <1>3, <2>1 DEF Held
  <2>2. CASE op' = Idle
    BY <2>2 DEF Held, Idle
  <2>3. CASE Write \/ ScanEnds \/ (\E i \in Identities : Scan(i) \/ Remove(i))
    <3>1. /\ op'.kind = op.kind /\ op'.identity = op.identity /\ op'.entry = op.entry /\ op'.now = op.now
          /\ op.pc \in {"write", "scan", "remove"} /\ op'.pc \in {"scan", "remove"} /\ now' = now
      BY <2>3, OpGoesOn
    <3> QED BY <1>1, <3>1 DEF Held
  <2> QED BY <1>1, <1>3, <2>1, <2>2, <2>3, OpStep DEF Held
<1>5. HeldIsFiled'
  <2> SUFFICES ASSUME op'.kind = "get", op'.entry # None, files'[op'.identity] # None
               PROVE  ValidEntry(files'[op'.identity]) /\ files'[op'.identity].map = op'.entry.map
    BY DEF HeldIsFiled, ValidEntry, IsEntry
  <2>1. op'.identity \in Identities
    BY <1>1, <1>4 DEF Held
  <2>2. CASE op' = op
    <3>1. op.pc # "idle"
      BY <1>1, <2>2 DEF Held
    <3>2. files'[op.identity] \in {files[op.identity], None} \/ files'[op.identity] = op.entry
      BY <2>1, <2>2, <3>1, FileStep
    <3>3. op.entry \in Entries /\ op.entry.valid
      BY <1>1, <2>2 DEF OpStates, Held
    <3> QED BY <1>1, <2>2, <3>2, <3>3 DEF HeldIsFiled, ValidEntry, IsEntry
  <2>3. CASE op' = Idle
    BY <2>3 DEF Idle
  <2>4. CASE Write \/ ScanEnds \/ (\E i \in Identities : Scan(i) \/ Remove(i))
    <3>1. op'.kind = op.kind /\ op'.identity = op.identity /\ op'.entry = op.entry /\ op.pc # "idle"
      BY <2>4, OpGoesOn
    <3>2. files'[op.identity] \in {files[op.identity], None} \/ files'[op.identity] = op.entry
      BY <2>1, <3>1, FileStep
    <3>3. op.entry \in Entries /\ op.entry.valid
      BY <1>1, <3>1 DEF OpStates, Held
    <3> QED BY <1>1, <3>1, <3>2, <3>3 DEF HeldIsFiled, ValidEntry, IsEntry
  <2> QED BY <1>1, <2>1, <2>2, <2>3, <2>4, OpStep
<1>6. NoneIsNewer'
  <2> SUFFICES ASSUME NEW i \in Identities, IsEntry(files'[i])
               PROVE  /\ files'[i].last_accessed_at <= now'
                      /\ op'.entry # None => files'[i].last_accessed_at <= op'.now
    BY DEF NoneIsNewer, IsEntry
  <2>1. CASE Write /\ i = op.identity /\ files'[i] = op.entry
    <3>1. op'.now = op.now /\ op.pc = "write" /\ now' = now
      BY <2>1, OpGoesOn DEF Write
    <3> QED BY <1>1, <1>3, <2>1, <3>1 DEF Held
  <2>2. ASSUME IsEntry(files[i]), files'[i].last_accessed_at = files[i].last_accessed_at
        PROVE  /\ files'[i].last_accessed_at <= now'
               /\ op'.entry # None => files'[i].last_accessed_at <= op'.now
    <3>1. /\ files[i].last_accessed_at <= now /\ files[i].last_accessed_at \in Int
          /\ op.entry # None => files[i].last_accessed_at <= op.now
      BY <1>1, <2>2 DEF NoneIsNewer, IsEntry, Entries, Times
    <3>2. CASE op' = op
      BY <1>2, <1>3, <2>2, <3>1, <3>2
    <3>3. CASE op' = Idle
      BY <1>2, <1>3, <2>2, <3>1, <3>3 DEF Idle
    <3>4. CASE Write \/ ScanEnds \/ (\E j \in Identities : Scan(j) \/ Remove(j))
      BY <1>1, <1>2, <1>3, <2>2, <3>1, <3>4, OpGoesOn
    <3> QED BY <1>1, <1>2, <1>3, <2>2, <3>1, <3>2, <3>3, <3>4, OpStep
  <2>3. \/ Write /\ i = op.identity /\ files'[i] = op.entry
        \/ IsEntry(files[i]) /\ files'[i].last_accessed_at = files[i].last_accessed_at
    <3>1. CASE files'[i] \in {files[i], None}
      BY <3>1 DEF IsEntry
    <3>2. CASE IsEntry(files[i]) /\ files'[i] = [files[i] EXCEPT !.valid = FALSE]
      BY <3>2 DEF IsEntry, Entries
    <3>3. files'[i] # Garbled
      BY DEF IsEntry
    <3> QED BY <3>1, <3>2, <3>3, FileStep
  <2> QED BY <2>1, <2>2, <2>3
<1> QED BY <1>4, <1>5, <1>6

\* Reading a file that counts adds its element to the list.
LEMMA ScanCounts ==
  ASSUME CacheInv, NEW i \in Identities, Scan(i), IsEntry(files[i]) /\ ~Expired(files[i], op.now)
  PROVE  /\ files' = files
         /\ op'.tied <=> op.tied \/ (i # op.identity /\ files[i].last_accessed_at = op.now)
         /\ \E e0 : /\ op'.entries = op.entries \cup {e0} /\ e0.name = i /\ e0.size = files[i].size
                    /\ e0.last_accessed_at = files[i].last_accessed_at
<1> DEFINE e0 == [name |-> i, size |-> files[i].size, last_accessed_at |-> files[i].last_accessed_at]
           tie == op.tied \/ (i # op.identity /\ files[i].last_accessed_at = op.now)
<1>1. op' = [op EXCEPT !.todo = FilesAfter(i), !.entries = @ \cup {e0}, !.tied = tie] /\ files' = files
  BY DEF Scan
<1>2. e0.name = i /\ e0.size = files[i].size /\ e0.last_accessed_at = files[i].last_accessed_at
  OBVIOUS
<1>3. op'.entries = op.entries \cup {e0} /\ op'.tied = tie
  <2> HIDE DEF e0, tie
  <2> QED BY <1>1 DEF CacheInv, OpStates
<1>4. \E d : /\ op'.entries = op.entries \cup {d} /\ d.name = i /\ d.size = files[i].size
             /\ d.last_accessed_at = files[i].last_accessed_at
  BY <1>2, <1>3
<1> QED BY <1>1, <1>3, <1>4

\* The list evict_locked makes: its own entry is in it, and every entry of the
\* directory once the scan has ended.
LEMMA ListingKept ==
  ASSUME CacheInv, [Next]_vars
  PROVE  Listing' /\ Counted'
<1> USE CacheAssumption
<1>1. /\ Held /\ NoneIsNewer /\ Listing /\ Counted /\ op \in OpStates /\ TypeOK
      /\ op.entry # None <=> op.pc \in {"write", "scan", "remove"}
      /\ files \in [Identities -> Entries \cup {Garbled, None}]
      /\ \A e \in op.entries : e.name \notin op.todo
  BY DEF CacheInv, TypeOK
<1>2. CASE op' = op
  <2>1. Listing'
    BY <1>1, <1>2 DEF Listing
  <2>2. op.pc \in {"scan", "remove"} => ~Write
    BY DEF Write
  <2>3. \A i \in Identities : op.pc \in {"scan", "remove"} /\ IsEntry(files'[i]) => files'[i] = files[i]
    BY <2>2, FileStep DEF IsEntry
  <2>4. Counted'
    BY <1>1, <1>2, <2>3 DEF Counted, IsEntry
  <2> QED BY <2>1, <2>4
<1>3. CASE op' = Idle
  BY <1>3 DEF Idle, Listing, Counted
<1>4. CASE op'.entries = {} /\ op'.pc \in {"discard", "write"}
  BY <1>4 DEF Listing, Counted
<1>5. CASE Write
  <2>1. op'.entries = {} /\ op'.pc = "scan" /\ op'.todo = {i \in Identities : files'[i] # None}
    BY <1>1, <1>5 DEF Write, Listing, OpStates
  <2> QED BY <2>1 DEF Listing, Counted, IsEntry
<1>6. ASSUME NEW i \in Identities, Scan(i)
      PROVE  Listing' /\ Counted'
  <2>1. /\ op'.pc = "scan" /\ op'.now = op.now /\ op'.identity = op.identity
        /\ op'.todo = op.todo \ {i} /\ op.pc = "scan" /\ i \in op.todo
    BY <1>1, <1>6 DEF Scan, OpStates, FilesAfter
  <2>2. CASE IsEntry(files[i]) /\ ~Expired(files[i], op.now)
    <3>1. PICK e0 : /\ op'.entries = op.entries \cup {e0} /\ e0.name = i /\ e0.size = files[i].size
                    /\ e0.last_accessed_at = files[i].last_accessed_at
      BY <1>6, <2>2, ScanCounts
    <3>2. /\ op'.tied <=> op.tied \/ (i # op.identity /\ files[i].last_accessed_at = op.now)
          /\ files' = files
      BY <1>6, <2>2, ScanCounts
    <3>3. e0.last_accessed_at <= op.now /\ (e0.last_accessed_at = op.now => i = op.identity \/ op'.tied)
      BY <1>1, <2>1, <2>2, <3>1, <3>2 DEF NoneIsNewer
    <3>6. Listing'
      BY <1>1, <2>1, <3>1, <3>2, <3>3 DEF Listing
    <3>7. Counted'
      BY <1>1, <2>1, <3>1, <3>2 DEF Counted
    <3> QED BY <3>6, <3>7
  <2>3. CASE ~(IsEntry(files[i]) /\ ~Expired(files[i], op.now))
    <3>1. op'.entries = op.entries /\ op'.tied = op.tied /\ files' = [files EXCEPT ![i] = None]
      BY <1>1, <1>6, <2>3 DEF Scan, OpStates
    <3>2. Listing'
      BY <1>1, <2>1, <3>1 DEF Listing
    <3>3. Counted'
      BY <1>1, <2>1, <3>1 DEF Counted, IsEntry
    <3> QED BY <3>2, <3>3
  <2> QED BY <2>2, <2>3
<1>7. CASE ScanEnds
  <2>1. /\ op'.entries = op.entries /\ op'.tied = op.tied /\ op'.todo = op.todo /\ op.todo = {} /\ op'.pc = "remove"
        /\ op.pc = "scan" /\ op'.now = op.now /\ op'.identity = op.identity /\ files' = files
    BY <1>1, <1>7 DEF ScanEnds, OpStates
  <2> QED BY <1>1, <2>1 DEF Listing, Counted, IsEntry
<1>8. ASSUME NEW i \in Identities, Remove(i)
      PROVE  Listing' /\ Counted'
  <2>1. PICK e \in LeastRecent : e.name = i /\ op' = [op EXCEPT !.entries = @ \ {e}]
    BY <1>8 DEF Remove
  <2>2. /\ op'.entries = op.entries \ {e} /\ op'.tied = op.tied /\ op'.todo = op.todo /\ op'.pc = "remove"
        /\ op.pc = "remove" /\ op'.now = op.now /\ op'.identity = op.identity
        /\ files' = [files EXCEPT ![i] = None] /\ e \in op.entries
    BY <1>1, <1>8, <2>1 DEF Remove, OpStates, LeastRecent
  <2>3. Listing'
    BY <1>1, <2>2 DEF Listing
  <2>4. Counted'
    BY <1>1, <2>1, <2>2 DEF Counted, IsEntry
  <2> QED BY <2>3, <2>4
<1> QED BY <1>2, <1>3, <1>4, <1>5, <1>6, <1>7, <1>8, OpStep

\* A list with one element weighs what that element does.
LEMMA TotalOfOne ==
  ASSUME NEW e, e.size \in Nat
  PROVE  Total({e}) = e.size
<1> DEFINE f == [d \in {e} |-> d.size]
<1>1. f[e] = e.size
  OBVIOUS
<1> HIDE DEF f
<1>2. IsFiniteSet({e}) /\ IsFiniteSet({})
  BY FS_Singleton, FS_EmptySet
<1>3. Pick({e}) \in {e} /\ SumFunctionOnSet(f, {e}) = f[Pick({e})] + SumFunctionOnSet(f, {e} \ {Pick({e})})
  BY <1>2, SumStep
<1>4. Pick({e}) = e /\ {e} \ {Pick({e})} = {}
  BY <1>3
<1>5. SumFunctionOnSet(f, {}) = 0
  BY <1>2, SumStep
<1>6. SumFunctionOnSet(f, {e}) = e.size
  BY <1>1, <1>3, <1>4, <1>5
<1> QED BY <1>6 DEF Total, f

\* The operation's own entry is listed, and not evicted.
LEMMA OwnKept ==
  ASSUME CacheInv, [Next]_vars
  PROVE  OwnIsListed'
<1> USE CacheAssumption
<1>1. /\ Held /\ NoneIsNewer /\ Listing /\ OwnIsListed /\ op \in OpStates
      /\ op.entry # None <=> op.pc \in {"write", "scan", "remove"}
      /\ files \in [Identities -> Entries \cup {Garbled, None}]
  BY DEF CacheInv, TypeOK
<1>2. CASE op' = op
  <2>1. op.pc = "scan" => files'[op.identity] \in {files[op.identity], None}
    <3> SUFFICES ASSUME op.pc = "scan" PROVE files'[op.identity] \in {files[op.identity], None}
      OBVIOUS
    <3>1. op.identity \in Identities /\ ~Write
      BY <1>1 DEF Held, Write
    <3> QED BY <3>1, FileStep
  <2> QED BY <1>1, <1>2, <2>1 DEF OwnIsListed, Own
<1>3. CASE op' = Idle
  BY <1>3 DEF Idle, OwnIsListed
<1>4. CASE op'.pc \in {"discard", "write"}
  BY <1>4 DEF OwnIsListed
<1>5. CASE Write
  <2>1. /\ op.identity \in Identities /\ op.entry # None
    BY <1>1, <1>5 DEF Write, Held
  <2>2. /\ op'.pc = "scan" /\ op'.identity = op.identity /\ op'.entry = op.entry
        /\ op'.todo = {i \in Identities : files'[i] # None} /\ files'[op.identity] = op.entry
    BY <1>1, <1>5, <2>1 DEF Write, OpStates
  <2> QED BY <2>1, <2>2 DEF OwnIsListed
<1>6. ASSUME NEW i \in Identities, Scan(i)
      PROVE  OwnIsListed'
  <2>1. /\ op'.pc = "scan" /\ op'.now = op.now /\ op'.identity = op.identity /\ op'.entry = op.entry
        /\ op'.todo = op.todo \ {i} /\ op.pc = "scan" /\ i \in op.todo /\ files[i] # None
    BY <1>1, <1>6 DEF Scan, OpStates, FilesAfter
  <2>2. op.entries \subseteq op'.entries
    <3>1. CASE IsEntry(files[i]) /\ ~Expired(files[i], op.now)
      BY <1>6, <3>1, ScanCounts
    <3>2. CASE ~(IsEntry(files[i]) /\ ~Expired(files[i], op.now))
      BY <1>1, <1>6, <3>2 DEF Scan, OpStates
    <3> QED BY <3>1, <3>2
  <2>3. CASE \E e \in op.entries : Own(e)
    BY <2>1, <2>2, <2>3 DEF OwnIsListed, Own
  <2>4. CASE op.identity \in op.todo /\ files[op.identity] \in {None, op.entry} /\ i # op.identity
    <3>1. files'[op.identity] \in {files[op.identity], None}
      <4>1. op.identity \in Identities /\ ~Write
        BY <1>1, <2>1 DEF Held, Write
      <4> QED BY <2>1, <4>1, FileStep
    <3> QED BY <2>1, <2>4, <3>1 DEF OwnIsListed
  <2>5. CASE i = op.identity /\ files[op.identity] \in {None, op.entry}
    <3>1. files[i] = op.entry /\ op.entry \in Entries /\ op.entry.last_accessed_at = op.now /\ op.now \in Nat
      BY <1>1, <2>1, <2>5 DEF Held, OpStates, Times
    <3>2. IsEntry(files[i]) /\ ~Expired(files[i], op.now)
      BY <3>1 DEF IsEntry, Expired
    <3>3. PICK e0 : /\ op'.entries = op.entries \cup {e0} /\ e0.name = i /\ e0.size = files[i].size
                    /\ e0.last_accessed_at = files[i].last_accessed_at
      BY <1>6, <3>2, ScanCounts
    <3> QED BY <2>1, <2>5, <3>1, <3>3 DEF OwnIsListed, Own
  <2> QED BY <1>1, <2>1, <2>3, <2>4, <2>5 DEF OwnIsListed
<1>7. CASE ScanEnds
  <2>1. /\ op'.entries = op.entries /\ op.todo = {} /\ op'.pc = "remove" /\ op.pc = "scan"
        /\ op'.now = op.now /\ op'.identity = op.identity /\ op'.entry = op.entry
    BY <1>1, <1>7 DEF ScanEnds, OpStates
  <2> QED BY <1>1, <2>1 DEF OwnIsListed, Own
<1>8. ASSUME NEW i \in Identities, Remove(i)
      PROVE  OwnIsListed'
  <2>1. PICK e \in LeastRecent : e.name = i /\ op' = [op EXCEPT !.entries = @ \ {e}]
    BY <1>8 DEF Remove
  <2>2. /\ op'.entries = op.entries \ {e} /\ op'.tied = op.tied /\ op'.pc = "remove" /\ op.pc = "remove"
        /\ op'.now = op.now /\ op'.identity = op.identity /\ op'.entry = op.entry /\ e \in op.entries
        /\ \A f \in op.entries : e.last_accessed_at <= f.last_accessed_at
        /\ Total(op.entries) > MaxBytes
    BY <1>1, <1>8, <2>1 DEF Remove, OpStates, LeastRecent, Exceeds
  <2> SUFFICES ASSUME op.entry.size <= MaxBytes, ~op.tied
               PROVE  \E d \in op.entries \ {e} : Own(d)
    BY <2>2 DEF OwnIsListed, Own
  <2>3. PICK d \in op.entries : Own(d)
    BY <1>1, <2>2 DEF OwnIsListed
  <2>4. CASE d # e
    BY <2>3, <2>4
  <2>5. CASE d = e
    <3>1. \A f \in op.entries : f = e
      <4> SUFFICES ASSUME NEW f \in op.entries PROVE f = e
        OBVIOUS
      <4>1. e.last_accessed_at = op.now /\ e.name = op.identity
        BY <2>3, <2>5 DEF Own
      <4>2. f.last_accessed_at \in Int /\ op.now \in Int
        BY <1>1 DEF OpStates, Times
      <4>3. f.last_accessed_at = op.now
        BY <1>1, <2>2, <4>1, <4>2 DEF Listing
      <4>4. f.name = op.identity
        BY <1>1, <4>3 DEF Listing
      <4> QED BY <1>1, <2>2, <4>1, <4>4 DEF Listing
    <3>2. op.entries = {e}
      BY <2>2, <3>1
    <3>3. e.size \in Nat /\ e.size = op.entry.size
      BY <1>1, <2>2, <2>3, <2>5 DEF OpStates, Own
    <3>4. Total(op.entries) = op.entry.size
      BY <3>2, <3>3, TotalOfOne
    <3> QED BY <2>2, <3>3, <3>4
  <2> QED BY <2>4, <2>5
<1> QED BY <1>2, <1>3, <1>4, <1>5, <1>6, <1>7, <1>8, OpStep

\* The directory and the list stay finite: an operation adds one file, and
\* lists one file at a time.
LEMMA FiniteKept ==
  ASSUME CacheInv, [Next]_vars
  PROVE  AreFinite'
<1> USE CacheAssumption
<1>1. AreFinite /\ op \in OpStates /\ Listing
  BY DEF CacheInv
<1>2. IsFiniteSet(Present')
  <2>1. Present' \subseteq Present \cup {op.identity}
    <3> SUFFICES ASSUME NEW i \in Identities, files'[i] # None, i # op.identity
                 PROVE  files[i] # None
      BY DEF Present
    <3> QED BY FileStep DEF IsEntry
  <2>2. IsFiniteSet(Present \cup {op.identity})
    BY <1>1, FS_AddElement DEF AreFinite
  <2> QED BY <2>1, <2>2, FS_Subset
<1>3. IsFiniteSet(op'.entries)
  <2>1. CASE op'.entries \subseteq op.entries
    BY <1>1, <2>1, FS_Subset DEF AreFinite
  <2>2. CASE \E e0 : op'.entries = op.entries \cup {e0}
    BY <1>1, <2>2, FS_AddElement DEF AreFinite
  <2>3. ASSUME NEW i \in Identities, Scan(i)
        PROVE  op'.entries = op.entries \/ \E e0 : op'.entries = op.entries \cup {e0}
    <3>1. CASE IsEntry(files[i]) /\ ~Expired(files[i], op.now)
      BY <2>3, <3>1, ScanCounts
    <3>2. CASE ~(IsEntry(files[i]) /\ ~Expired(files[i], op.now))
      BY <1>1, <2>3, <3>2 DEF Scan, OpStates
    <3> QED BY <3>1, <3>2
  <2>4. CASE Write \/ ScanEnds
    BY <1>1, <2>1, <2>4 DEF Write, ScanEnds, OpStates
  <2>5. ASSUME NEW i \in Identities, Remove(i)
        PROVE  op'.entries \subseteq op.entries
    BY <1>1, <2>5 DEF Remove, OpStates
  <2>6. op' = Idle => op'.entries = {}
    BY DEF Idle
  <2> QED BY <2>1, <2>2, <2>3, <2>4, <2>5, <2>6, OpStep
<1> QED BY <1>2, <1>3 DEF AreFinite

Bytes == SumFunctionOnSet([i \in Readable |-> files[i].size], Readable)

\* An operation that ends well has counted every entry of the directory.
LEMMA ReturnFits ==
  ASSUME CacheInv, Return
  PROVE  Bytes <= MaxBytes
<1> USE CacheAssumption
<1>1. /\ Counted /\ Listing /\ AreFinite /\ op \in OpStates /\ op.pc = "remove" /\ ~Exceeds
      /\ files \in [Identities -> Entries \cup {Garbled, None}]
  BY DEF CacheInv, TypeOK, Return
<1> DEFINE f == [i \in Readable |-> files[i].size]
           g == [e \in op.entries |-> e.size]
           h == [i \in Readable |-> CHOOSE e \in op.entries : e.name = i /\ e.size = files[i].size]
<1>2. \A i \in Readable : i \in Identities /\ files[i] \in Entries
  BY DEF Readable, Present, IsEntry
<1>3. \A i \in Readable : \E e \in op.entries : e.name = i /\ e.size = files[i].size
  BY <1>1, <1>2 DEF Counted, Listing, IsEntry
<1>4. \A i \in Readable : h[i] \in op.entries /\ h[i].name = i /\ h[i].size = files[i].size
  BY <1>3
<1>5. h \in [Readable -> op.entries] /\ \A i, j \in Readable : h[i] = h[j] => i = j
  <2>1. h = [i \in Readable |-> h[i]]
    OBVIOUS
  <2> HIDE DEF h
  <2> QED BY <1>4, <2>1
<1>6. /\ \A i \in Readable : f[i] \in Nat
      /\ \A e \in op.entries : g[e] \in Nat
      /\ \A i \in Readable : f[i] <= g[h[i]]
  <2>1. \A i \in Readable : f[i] = files[i].size /\ f[i] \in Nat
    BY <1>2 DEF Entries
  <2>2. \A e \in op.entries : g[e] = e.size /\ g[e] \in Nat
    BY <1>1 DEF OpStates
  <2> HIDE DEF f, g, h
  <2> QED BY <1>4, <2>1, <2>2
<1>7. IsFiniteSet(Readable) /\ IsFiniteSet(op.entries)
  BY <1>1, FS_Subset DEF AreFinite, Readable
<1>8. SumFunctionOnSet(f, Readable) <= SumFunctionOnSet(g, op.entries)
  <2> HIDE DEF f, g, h
  <2> QED BY <1>5, <1>6, <1>7, SumMonotone
<1>9. SumFunctionOnSet(f, Readable) \in Nat /\ SumFunctionOnSet(g, op.entries) \in Nat
  <2> HIDE DEF f, g
  <2> QED BY <1>6, <1>7, SumType
<1>10. SumFunctionOnSet(g, op.entries) <= MaxBytes
  BY <1>1, <1>9 DEF Exceeds, Total
<1>11. SumFunctionOnSet(f, Readable) <= MaxBytes
  <2> HIDE DEF f, g
  <2> QED BY <1>8, <1>9, <1>10
<1> QED BY <1>11 DEF Bytes

\* Losing files, or finding them damaged, does not add bytes.
LEMMA LosingFits ==
  ASSUME CacheInv, TypeOK', \A i \in Identities : IsEntry(files'[i]) => IsEntry(files[i]) /\ files'[i].size = files[i].size
  PROVE  Bytes' <= Bytes
<1> USE CacheAssumption
<1> DEFINE f == [i \in Readable |-> files[i].size]
           f1 == [i \in Readable' |-> files'[i].size]
           h == [i \in Readable' |-> i]
<1>1. Readable' \subseteq Readable
  BY DEF Readable, Present, IsEntry
<1>2. /\ \A i \in Readable : files[i].size \in Nat
      /\ \A i \in Readable' : files'[i].size = files[i].size /\ files'[i].size \in Nat
  BY DEF Readable, Present, IsEntry, Entries
<1>3. IsFiniteSet(Readable) /\ IsFiniteSet(Readable')
  <2>1. IsFiniteSet(Readable)
    BY FS_Subset DEF CacheInv, AreFinite, Readable
  <2> QED BY <1>1, <2>1, FS_Subset
<1>4. /\ \A i \in Readable' : f1[i] \in Nat /\ f1[i] <= f[h[i]]
      /\ \A i \in Readable : f[i] \in Nat
      /\ h \in [Readable' -> Readable] /\ \A i, j \in Readable' : h[i] = h[j] => i = j
  BY <1>1, <1>2
<1>5. SumFunctionOnSet(f1, Readable') <= SumFunctionOnSet(f, Readable)
  <2> HIDE DEF f, f1, h
  <2> QED BY <1>3, <1>4, SumMonotone
<1> QED BY <1>5 DEF Bytes

\* The bound on bytes is kept.
LEMMA FitsKept ==
  ASSUME CacheInv, [Next]_vars
  PROVE  Fits'
<1> USE CacheAssumption
<1>1. Fits /\ op \in OpStates /\ TypeOK'
  BY CacheTypes DEF CacheInv
<1> SUFFICES ASSUME bounded', op'.pc \in {"idle", "discard"}
             PROVE  Bytes' <= MaxBytes
  BY DEF Fits, Bytes
<1>2. CASE Return
  <2>1. files' = files
    BY <1>2 DEF Return
  <2>2. Bytes' = Bytes
    BY <2>1 DEF Bytes, Readable, Present
  <2> QED BY <1>2, <2>2, ReturnFits
<1>3. CASE bounded /\ op.pc \in {"idle", "discard"}
  <2>1. Bytes <= MaxBytes
    BY <1>1, <1>3 DEF Fits, Bytes
  <2>2. \A i \in Identities : IsEntry(files'[i]) => IsEntry(files[i]) /\ files'[i].size = files[i].size
    <3> SUFFICES ASSUME NEW i \in Identities, IsEntry(files'[i])
                 PROVE  IsEntry(files[i]) /\ files'[i].size = files[i].size
      OBVIOUS
    <3>1. ~Write
      BY <1>3 DEF Write
    <3>2. CASE files'[i] \in {files[i], None}
      BY <3>2 DEF IsEntry
    <3>3. CASE IsEntry(files[i]) /\ files'[i] = [files[i] EXCEPT !.valid = FALSE]
      BY <3>3 DEF IsEntry, Entries
    <3>4. files'[i] # Garbled
      BY DEF IsEntry
    <3> QED BY <3>1, <3>2, <3>3, <3>4, FileStep
  <2>3. Bytes' <= Bytes
    BY <1>1, <2>2, LosingFits
  <2>4. Bytes \in Nat /\ Bytes' \in Nat
    <3>1. \A i \in Readable : files[i].size \in Nat
      BY DEF Readable, IsEntry, Entries
    <3>2. \A i \in Readable' : files'[i].size \in Nat
      BY DEF Readable, IsEntry, Entries
    <3>3. IsFiniteSet(Readable) /\ IsFiniteSet(Readable')
      BY FiniteKept, FS_Subset DEF CacheInv, AreFinite, Readable
    <3> DEFINE f == [i \in Readable |-> files[i].size]
               f1 == [i \in Readable' |-> files'[i].size]
    <3>4. (\A i \in Readable : f[i] \in Nat) /\ (\A i \in Readable' : f1[i] \in Nat)
      BY <3>1, <3>2
    <3>5. SumFunctionOnSet(f, Readable) \in Nat /\ SumFunctionOnSet(f1, Readable') \in Nat
      <4> HIDE DEF f, f1
      <4> QED BY <3>3, <3>4, SumType
    <3> QED BY <3>5 DEF Bytes
  <2> QED BY <2>1, <2>3, <2>4
<1>4. Return \/ (bounded /\ op.pc \in {"idle", "discard"})
  <2>1. ~Interrupted /\ ~\E i \in Identities : ScanFails(i)
    BY DEF Interrupted, ScanFails
  <2>2. Return \/ bounded' = bounded
    BY <2>1 DEF Next, vars, Tick, Damage, ClearBegins, ClearRemoves, GetMisses, GetRefuses,
           GetHits, Put, Write, GetDiscards, Scan, ScanEnds, Remove
  <2>3. ~Write /\ ~ScanEnds /\ \A i \in Identities : ~Scan(i) /\ ~Remove(i)
    BY OpGoesOn
  <2>4. Return \/ op.pc \in {"idle", "discard"}
    <3>1. \/ op' = op \/ GetDiscards \/ Return
          \/ \E i \in Identities : GetRefuses(i) \/ GetHits(i)
          \/ \E i \in Identities, map \in Maps, size \in Sizes : Put(i, map, size)
      BY <2>1, <2>3 DEF Next, vars, Tick, Damage, ClearBegins, ClearRemoves, GetMisses
    <3> QED BY <3>1 DEF GetDiscards, GetRefuses, GetHits, Put
  <2> QED BY <2>2, <2>4
<1> QED BY <1>2, <1>3, <1>4

\* Every step keeps the invariant.
LEMMA CacheNextInv == CacheInv /\ [Next]_vars => CacheInv'
BY OpKept, CacheTypes, HeldKept, ListingKept, OwnKept, FiniteKept, FitsKept DEF CacheInv

\* After an operation that was not interrupted the entries fit max_bytes, however
\* a clear of another process and the steps of evict_locked interleave.
THEOREM CacheFits == Spec => []SizeBounded
<1>1. CacheInv => SizeBounded
  BY DEF CacheInv, Fits, SizeBounded
<1> QED BY <1>1, CacheInitInv, CacheNextInv, PTL DEF Spec

\* evict_locked never removes the map just stored or answered with, unless that
\* map alone is too large or another was used in the same second.
THEOREM CacheKeepsJustUsed == Spec => []JustUsedSurvives
<1>1. CacheInv => JustUsedSurvives
  BY DEF CacheInv, OwnIsListed, Own, JustUsedSurvives
<1> QED BY <1>1, CacheInitInv, CacheNextInv, PTL DEF Spec
-----------------------------------------------------------------------------
(* The cache is a lossy map.                                               *)

\* What is kept under an identity: the valid entry a lookup holds, or the file's.
KeptOf(f) == IF ValidEntry(f) THEN f.map ELSE None

\* What the cache keeps under an identity, also while a read is under way.
LEMMA KeptIs ==
  ASSUME CacheInv, NEW i \in Identities
  PROVE  Kept[i] = IF op.kind = "get" /\ op.entry # None /\ op.identity = i THEN op.entry.map
                                                                         ELSE KeptOf(files[i])
BY DEF CacheInv, OpStates, Held, Kept, KeptOf, ValidEntry, IsEntry

\* A step may only lose what is kept, unless it stores.
LEMMA KeptStep ==
  ASSUME CacheInv, CacheInv', [Next]_vars, ~(Write /\ op.kind = "put"), NEW i \in Identities
  PROVE  Kept'[i] \in {Kept[i], None}
<1> USE CacheAssumption
<1>1. /\ Kept[i] = IF op.kind = "get" /\ op.entry # None /\ op.identity = i THEN op.entry.map
                                                                         ELSE KeptOf(files[i])
      /\ Kept'[i] = IF op'.kind = "get" /\ op'.entry # None /\ op'.identity = i THEN op'.entry.map
                                                                             ELSE KeptOf(files'[i])
  <2>1. \A j \in Identities : Kept'[j] = IF op'.kind = "get" /\ op'.entry # None /\ op'.identity = j THEN op'.entry.map
                                                                             ELSE KeptOf(files'[j])
    BY DEF CacheInv, OpStates, Held, Kept, KeptOf, ValidEntry, IsEntry
  <2> QED BY <2>1, KeptIs
<1>2. HeldIsFiled /\ Held /\ HeldIsFiled' /\ Held' /\ op \in OpStates
  BY DEF CacheInv
<1>3. KeptOf(files'[i]) \in {KeptOf(files[i]), None} \/ (Write /\ i = op.identity)
  <2>1. CASE files'[i] \in {files[i], None}
    BY <2>1 DEF KeptOf, ValidEntry, IsEntry
  <2>2. CASE IsEntry(files[i]) /\ files'[i] = [files[i] EXCEPT !.valid = FALSE]
    BY <2>2 DEF KeptOf, ValidEntry, IsEntry, Entries
  <2>3. CASE files'[i] = Garbled
    BY <2>3 DEF KeptOf, ValidEntry, IsEntry
  <2> QED BY <2>1, <2>2, <2>3, FileStep
<1>4. op.kind = "get" /\ op.entry # None /\ op.identity = i => KeptOf(files[i]) \in {op.entry.map, None}
  BY <1>2 DEF HeldIsFiled, KeptOf, ValidEntry, IsEntry
<1>5. CASE op' = op
  <2>1. ~Write
    BY <1>2, <1>5 DEF Write, OpStates
  <2> QED BY <1>1, <1>3, <1>5, <2>1
<1>6. CASE op' = Idle
  BY <1>1, <1>3, <1>4, <1>6 DEF Write, Idle
<1>7. CASE Write \/ ScanEnds \/ (\E j \in Identities : Scan(j) \/ Remove(j))
  <2>1. op'.kind = op.kind /\ op'.identity = op.identity /\ op'.entry = op.entry /\ op.entry # None
    BY <1>7, OpGoesOn DEF CacheInv, TypeOK
  <2>2. op.kind \in {"get", "put"}
    BY <1>2, <1>7, OpGoesOn DEF Held, OpStates
  <2>3. (Write /\ i = op.identity) => op.kind = "get"
    BY <2>2
  <2> QED BY <1>1, <1>3, <2>1, <2>3
<1>8. CASE op.pc = "idle" /\ op'.pc = "discard" /\ op'.entry = None
  BY <1>1, <1>2, <1>3, <1>8 DEF Write, Held
<1>9. CASE /\ op.pc = "idle" /\ UNCHANGED files
           /\ op'.kind = "get" => ValidEntry(files[op'.identity]) /\ files[op'.identity].map = op'.entry.map
  BY <1>1, <1>2, <1>9 DEF Held, KeptOf
<1> QED BY <1>5, <1>6, <1>7, <1>8, <1>9, OpStep

\* Losing some of what is kept is a step of the lossy map.
LEMMA LosingIsLossy ==
  ASSUME \A i \in Identities : Kept'[i] \in {Kept[i], None}, UNCHANGED <<stored, answer>>
  PROVE  Lossy!Next
<1> DEFINE S == {i \in Identities : Kept'[i] = None}
<1>1. Kept' = [i \in Identities |-> IF i \in S THEN None ELSE Kept[i]]
  <2>1. Kept' = [i \in Identities |-> Kept'[i]]
    BY DEF Kept
  <2>2. \A i \in Identities : Kept'[i] = IF i \in S THEN None ELSE Kept[i]
    OBVIOUS
  <2> HIDE DEF S
  <2> QED BY <2>1, <2>2
<1>2. S \in SUBSET Identities
  OBVIOUS
<1> HIDE DEF S
<1> QED BY <1>1, <1>2 DEF Lossy!Next, Lossy!Lose

\* Every step of the cache is one of the lossy map, or none.
LEMMA StepIsLossy ==
  ASSUME CacheInv, CacheInv', [Next]_vars
  PROVE  [Lossy!Next]_<<stored, Kept, answer>>
<1> USE CacheAssumption
<1>1. /\ Held /\ op \in OpStates /\ TypeOK
      /\ op.entry # None <=> op.pc \in {"write", "scan", "remove"}
  BY DEF CacheInv, TypeOK
<1>2. CASE UNCHANGED <<stored, answer>> /\ ~(Write /\ op.kind = "put")
  BY <1>2, KeptStep, LosingIsLossy
<1>3. CASE Write /\ op.kind = "put"
  <2> DEFINE i == op.identity
             m == op.entry.map
  <2>1. i \in Identities /\ m \in Maps /\ op.entry \in Entries /\ op.entry.valid
    BY <1>1, <1>3 DEF Write, Held, OpStates, Entries
  <2>2. stored' = [stored EXCEPT ![i] = m] /\ UNCHANGED answer
    BY <1>3 DEF Write
  <2>3. /\ op'.kind = "put" /\ files' = [files EXCEPT ![i] = op.entry]
        /\ files \in [Identities -> Entries \cup {Garbled, None}]
    BY <1>1, <1>3 DEF Write, OpStates, TypeOK
  <2>4. Kept = [j \in Identities |-> KeptOf(files[j])]
    BY <1>3 DEF Kept, KeptOf, ValidEntry
  <2>5. Kept' = [j \in Identities |-> KeptOf(files'[j])]
    BY <2>3 DEF Kept, KeptOf, ValidEntry
  <2>6. KeptOf(op.entry) = m
    BY <2>1 DEF KeptOf, ValidEntry, IsEntry
  <2>7. Kept' = [Kept EXCEPT ![i] = m]
    <3> HIDE DEF i, m
    <3> QED BY <2>1, <2>3, <2>4, <2>5, <2>6 DEF i
  <2> HIDE DEF i, m
  <2> QED BY <2>1, <2>2, <2>7 DEF Lossy!Next, Lossy!Store
<1>4. ASSUME NEW i \in Identities, NEW m \in {Kept[i], None}, m \in Maps \cup {None},
             answer' = [identity |-> i, map |-> m],
             stored' = stored, \A j \in Identities \ {i} : Kept'[j] = Kept[j], Kept'[i] \in {Kept[i], None}
      PROVE  Lossy!Next
  <2>1. Kept' = [j \in Identities |-> Kept'[j]] /\ Kept = [j \in Identities |-> Kept[j]]
    BY DEF Kept
  <2>2. Kept' \in {Kept, [Kept EXCEPT ![i] = None]}
    BY <1>4, <2>1
  <2> QED BY <1>4, <2>2 DEF Lossy!Next, Lossy!Answer
<1>5. ASSUME NEW i \in Identities, GetMisses(i)
      PROVE  Lossy!Next
  <2>1. UNCHANGED <<files, op, stored>> /\ answer' = [identity |-> i, map |-> None]
    BY <1>5 DEF GetMisses
  <2>2. Kept' = Kept
    BY <2>1 DEF Kept
  <2> QED BY <1>4, <2>1, <2>2
<1>6. CASE GetDiscards
  <2>1. /\ op.identity \in Identities /\ op' = Idle /\ stored' = stored /\ op.entry = None
        /\ files' = [files EXCEPT ![op.identity] = None] /\ answer' = [identity |-> op.identity, map |-> None]
    BY <1>1, <1>6 DEF GetDiscards, Held
  <2>2. \A j \in Identities : Kept'[j] \in {Kept[j], None}
    BY <1>6, KeptStep DEF Write, GetDiscards
  <2>3. \A j \in Identities \ {op.identity} : Kept'[j] = Kept[j]
    BY <1>1, <2>1 DEF Kept, Idle, TypeOK
  <2> QED BY <1>4, <2>1, <2>2, <2>3
<1>7. CASE Return /\ op.kind = "get"
  <2>1. /\ op.identity \in Identities /\ op' = Idle /\ stored' = stored /\ files' = files /\ op.entry \in Entries
        /\ answer' = [identity |-> op.identity, map |-> op.entry.map]
    BY <1>1, <1>7 DEF Return, Held, OpStates
  <2>2. \A j \in Identities : Kept'[j] \in {Kept[j], None}
    BY <1>7, KeptStep DEF Write, Return
  <2>3. \A j \in Identities \ {op.identity} : Kept'[j] = Kept[j]
    BY <1>1, <2>1 DEF Kept, Idle
  <2>4. Kept[op.identity] = op.entry.map /\ op.entry.map \in Maps
    BY <1>1, <1>7, <2>1, KeptIs DEF Entries
  <2> QED BY <1>4, <2>1, <2>2, <2>3, <2>4
<1>8. \/ UNCHANGED <<stored, answer>> /\ ~(Write /\ op.kind = "put")
      \/ Write /\ op.kind = "put"
      \/ GetDiscards \/ (Return /\ op.kind = "get") \/ \E i \in Identities : GetMisses(i)
  BY DEF Next, vars, Tick, Damage, Interrupted, ClearBegins, ClearRemoves, GetRefuses,
         GetHits, Put, Write, Scan, ScanFails, ScanEnds, Remove, Return
<1> QED BY <1>2, <1>3, <1>5, <1>6, <1>7, <1>8

\* ReviewMapCache implements LossyCache: no interleaving of lookups, stores,
\* evictions, a clear of another process, damaged files and interruptions makes
\* it answer with anything but the last map stored under the identity.
THEOREM CacheIsLossyMap == Spec => ImplementsLossyCache
<1>1. Init => Lossy!Init
  <2> SUFFICES ASSUME Init PROVE Lossy!Init
    OBVIOUS
  <2>1. \A i \in Identities : files[i] = None
    BY DEF Init
  <2>2. Kept = [i \in Identities |-> None]
    BY <2>1, CacheAssumption DEF Init, Kept, Idle, IsEntry
  <2> QED BY <2>2 DEF Init, Lossy!Init, NoAnswer, Lossy!NoAnswer
<1>2. CacheInv /\ CacheInv' /\ [Next]_vars => [Lossy!Next]_<<stored, Kept, answer>>
  BY StepIsLossy
<1> QED BY <1>1, <1>2, CacheInitInv, CacheNextInv, PTL DEF Spec, ImplementsLossyCache, Lossy!Spec
=============================================================================
