--------------------------- MODULE LruRefinement ---------------------------
(***************************************************************************)
(* As long as no two lookups hold the lock together, the cache of LruCache  *)
(* is the cache of Lru: the order of use is what the next pointers of the   *)
(* ring spell.  An element that MoveToFront is moving counts as moved       *)
(* before its first assignment.                                             *)
(***************************************************************************)
EXTENDS LruCache, SequencesExt

ASSUME FiniteNodesAssumption == IsFiniteSet(Nodes)

\* What stands at place i of a ring whose elements are s: the sentinel closes it.
At(s, i) == IF i \in 1 .. Len(s) THEN s[i] ELSE Root

\* The next pointers lead from the sentinel through s and back; the prev pointers
\* do so the other way round.
Spells(f, s) == \A i \in 0 .. Len(s) : f[At(s, i)] = At(s, i + 1)
SpellsBack(f, s) == \A i \in 1 .. Len(s) + 1 : f[At(s, i)] = At(s, i - 1)

\* Walk(f)[i]: the i-th address after the sentinel, along the pointers f, until
\* they are back at the sentinel.
Walk(f) ==
  LET walk[i \in 0 .. Cardinality(Nodes) + 1] ==
        IF i = 0 THEN Root
        ELSE LET before == walk[i - 1]
             IN  IF i > 1 /\ before = Root THEN Root ELSE f[before]
  IN  walk

\* The elements of a ring, in the order in which the pointers f lead to them.
RingOf(f) ==
  LET walk == Walk(f)
      length == CHOOSE i \in 0 .. Cardinality(Nodes) :
                  walk[i + 1] = Root /\ \A j \in 1 .. i : walk[j] # Root
  IN  [i \in 1 .. length |-> walk[i]]

\* The elements of the list, from the front to the back.
Ring == RingOf(next)

Moving == {element[key[g]] : g \in {h \in Goroutines : pc[h] = "move"}}

KeysOf(nodes) == [i \in 1 .. Len(nodes) |-> keyOf[nodes[i]]]

Order ==
  IF Moving = {}
  THEN KeysOf(Ring)
  ELSE LET e == CHOOSE n \in Moving : TRUE
       IN  KeysOf(<<e>> \o RemoveFirst(Ring, e))

\* The readers that have found their key.
Found == {g \in readers : pc[g] \in {"move", "hit"}}

\* What such a reader is about to return.
Reply ==
  IF Found = {}
  THEN <<>>
  ELSE LET g == CHOOSE h \in Found : TRUE IN <<key[g], value[key[g]]>>

\* The value of every key of the map.
Contents == [k \in {j \in Keys : element[j] # Nil} |-> value[k]]

Abstract == INSTANCE Lru WITH order <- Order, held <- Contents, reply <- Reply

\* Every lookup that finds its key makes it the most recently used one, every
\* store puts its key there, the key that goes is the least recently used one,
\* and a cache above its limit does nothing but evict.
IsLru == Abstract!LruSpec

\* No store leaves the cache above its limit for good.
ReturnsToLimit == Abstract!LruProgress

\* Between two moves the prev pointers spell the same ring backwards, and the
\* ring holds the elements of the map, each once: Back is the last of Ring.
RingOfMap ==
  Moving = {} =>
    /\ Spells(next, Ring) /\ SpellsBack(prev, Ring)
    /\ ToSet(Ring) = linked /\ IsInjective(Ring)
    /\ linked = {element[k] : k \in Keys} \ {Nil}

=============================================================================
