----------------------------- MODULE LinkedList -----------------------------
(***************************************************************************)
(* Go's container/list, as internal/ath/cache.go uses it: a ring of         *)
(* elements closed by the sentinel Root, each with a next and a prev        *)
(* pointer.  MoveToFront is given as the six assignments of List.move,        *)
(* because lruCache.Load runs it while other goroutines may do the same;    *)
(* PushFront and Unlink only ever run alone, and are single steps.          *)
(***************************************************************************)
EXTENDS FiniteSets

CONSTANTS
  Nodes,   \* the list.Element objects (a bound on the elements alive at once)
  Root,    \* the sentinel &l.root
  Nil      \* the nil pointer

ASSUME NodesAssumption == Root \notin Nodes /\ Nil \notin Nodes \cup {Root}

VARIABLES
  next,     \* next[n]: the next pointer of n
  prev,     \* prev[n]: the prev pointer of n
  linked    \* the elements whose `list` field points to this list

listVars == <<next, prev, linked>>

Address == Nodes \cup {Root}
Pointer == Address \cup {Nil}

ListTypeOK ==
  /\ next \in [Address -> Pointer]
  /\ prev \in [Address -> Pointer]
  /\ linked \in SUBSET Nodes

\* list.New(): an empty ring; no element has been allocated.
ListInit ==
  /\ next = [n \in Address |-> IF n = Root THEN Root ELSE Nil]
  /\ prev = [n \in Address |-> IF n = Root THEN Root ELSE Nil]
  /\ linked = {}

-----------------------------------------------------------------------------
\* One assignment to a pointer field: node.field = target.
Assignment == [field : {"next", "prev"}, node : Pointer, target : Pointer]

(***************************************************************************)
(* The six assignments of move(e, &l.root), in program order, with their    *)
(* operands as the memory is when they are evaluated.  The compiler may     *)
(* still have e.prev in a register when it evaluates the fifth (the third   *)
(* stored Root there), so under a race that operand is either value.        *)
(***************************************************************************)
MoveAssignments(i, e) ==
  CASE i = 1 -> {[field |-> "next", node |-> prev[e], target |-> next[e]]}
    [] i = 2 -> {[field |-> "prev", node |-> next[e], target |-> prev[e]]}
    [] i = 3 -> {[field |-> "prev", node |-> e, target |-> Root]}
    [] i = 4 -> {[field |-> "next", node |-> e, target |-> next[Root]]}
    [] i = 5 -> {[field |-> "next", node |-> n, target |-> e] : n \in {prev[e], Root}}
    [] i = 6 -> {[field |-> "prev", node |-> next[e], target |-> e]}

MoveLength == 6

\* The store of one assignment.
Assign(a) ==
  /\ next' = IF a.field = "next" THEN [next EXCEPT ![a.node] = a.target] ELSE next
  /\ prev' = IF a.field = "prev" THEN [prev EXCEPT ![a.node] = a.target] ELSE prev
  /\ UNCHANGED linked

\* MoveToFront returns at once for an element of another list or at the front.
AtFront(e) == e \notin linked \/ next[Root] = e

\* Mutant of PushFront: the new element does not point back.
PushFrontHalf(n) ==
  /\ next' = [next EXCEPT ![n] = next[Root], ![Root] = n]
  /\ prev' = [prev EXCEPT ![next[Root]] = n]
  /\ linked' = linked \cup {n}

\* PushFront stores a new element n at the front.
PushFront(n) ==
  /\ next' = [next EXCEPT ![n] = next[Root], ![Root] = n]
  /\ prev' = [prev EXCEPT ![n] = Root, ![next[Root]] = n]
  /\ linked' = linked \cup {n}

\* Back: the last element; nil when the list is empty.
Back == IF linked = {} THEN Nil ELSE prev[Root]

\* list.Remove unlinks n and clears its pointers, unless it is of no list any more.
Unlink(n) ==
  IF n \in linked
  THEN /\ next' = [next EXCEPT ![prev[n]] = next[n], ![n] = Nil]
       /\ prev' = [prev EXCEPT ![next[n]] = prev[n], ![n] = Nil]
       /\ linked' = linked \ {n}
  ELSE UNCHANGED listVars

\* n is garbage: nothing refers to it, so PushFront may be given its memory.
Unreferenced(n) ==
  /\ n \notin linked
  /\ \A m \in Address : next[m] # n /\ prev[m] # n

=============================================================================
