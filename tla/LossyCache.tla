------------------------------ MODULE LossyCache -------------------------------
(***************************************************************************)
(* What ReviewMapCache promises its callers: a map from cache identities   *)
(* to Review Maps that may lose entries at any moment but never answers    *)
(* with a map that was not the last one stored under that identity.        *)
(* AnalysisCoordinator relies on no more than this.                        *)
(***************************************************************************)
CONSTANTS Identities, Maps, None

VARIABLES
  stored,  \* the last map stored under each identity, or None
  kept,    \* the map kept under each identity, or None
  answer   \* the last answer: the identity asked for and a map or None

NoAnswer == [identity |-> None, map |-> None]

Init ==
  /\ stored = [i \in Identities |-> None]
  /\ kept = [i \in Identities |-> None]
  /\ answer = NoAnswer

\* A map is stored; the cache may drop others, or the map itself, later.
Store(i, m) ==
  /\ stored' = [stored EXCEPT ![i] = m]
  /\ kept' = [kept EXCEPT ![i] = m]
  /\ UNCHANGED answer

\* Entries are lost.
Lose(S) ==
  /\ kept' = [i \in Identities |-> IF i \in S THEN None ELSE kept[i]]
  /\ UNCHANGED <<stored, answer>>

\* A lookup answers with what is kept, or with nothing, and may lose it.
Answer(i, m) ==
  /\ m \in {kept[i], None}
  /\ answer' = [identity |-> i, map |-> m]
  /\ kept' \in {kept, [kept EXCEPT ![i] = None]}
  /\ UNCHANGED stored

Next ==
  \/ \E i \in Identities, m \in Maps : Store(i, m)
  \/ \E S \in SUBSET Identities : Lose(S)
  \/ \E i \in Identities, m \in Maps \cup {None} : Answer(i, m)

Spec == Init /\ [][Next]_<<stored, kept, answer>>
=============================================================================
