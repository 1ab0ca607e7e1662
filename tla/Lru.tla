-------------------------------- MODULE Lru --------------------------------
(***************************************************************************)
(* What a least-recently-used cache promises: the keys it holds are kept in *)
(* order of their last use, a value larger than the limit is never stored,  *)
(* and a cache above its limit does nothing but drop its least recently     *)
(* used keys until it is within the limit again.                            *)
(***************************************************************************)
EXTENDS Sums, SequencesExt

CONSTANTS
  Keys,
  Values,
  Cap,       \* Cap[v]: what v counts for
  MaxSize    \* the limit; no limit when it is zero or negative

VARIABLES
  order,     \* the keys held, the most recently used first
  held,      \* held[k]: the value of k
  reply      \* the key and the value a lookup has found, <<>> between lookups

lruVars == <<order, held, reply>>

Held == ToSet(order)

Total == SumOver([k \in Held |-> Cap[held[k]]], Held)

Over == MaxSize > 0 /\ Total > MaxSize

\* The order once k has been used.
Used(k) == <<k>> \o RemoveFirst(order, k)

LruInit ==
  /\ order = <<>>
  /\ held = [k \in {} |-> 0]
  /\ reply = <<>>

\* A lookup finds k, which becomes the most recently used key.
Touch(k) ==
  /\ ~Over
  /\ k \in Held
  /\ order' = Used(k)
  /\ reply' = <<k, held[k]>>
  /\ UNCHANGED held

\* The lookup is over.
Answer ==
  /\ reply # <<>>
  /\ reply' = <<>>
  /\ UNCHANGED <<order, held>>

\* v is stored under k, in place of what k held.
Put(k, v) ==
  /\ ~Over
  /\ MaxSize > 0 => Cap[v] <= MaxSize
  /\ order' = Used(k)
  /\ held' = [j \in Held \cup {k} |-> IF j = k THEN v ELSE held[j]]
  /\ UNCHANGED reply

\* The least recently used key goes.
Drop ==
  /\ Over
  /\ order' = Front(order)
  /\ held' = [j \in Held \ {Last(order)} |-> held[j]]
  /\ UNCHANGED reply

LruNext ==
  \/ \E k \in Keys : Touch(k)
  \/ \E k \in Keys, v \in Values : Put(k, v)
  \/ Answer
  \/ Drop

LruSpec == LruInit /\ [][LruNext]_lruVars

\* The cache does not stay above its limit.
LruProgress == WF_lruVars(Drop)

=============================================================================
