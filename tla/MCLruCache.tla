---------------------------- MODULE MCLruCache ----------------------------
(***************************************************************************)
(* LruCache for TLC: a value is a key with a capacity, and the creator of a *)
(* key makes its own values, of every capacity.                             *)
(***************************************************************************)
EXTENDS LruCache, TLC

CONSTANT Caps   \* the capacities of the values

MCValues == Keys \X Caps
MCCap == [v \in MCValues |-> v[2]]
MCMade == [k \in Keys |-> {k} \X Caps]

\* Goroutines, keys and elements are interchangeable.
Symmetric == Permutations(Goroutines) \cup Permutations(Keys) \cup Permutations(Nodes)

=============================================================================
