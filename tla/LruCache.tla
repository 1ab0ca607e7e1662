------------------------------ MODULE LruCache ------------------------------
(***************************************************************************)
(* The in-memory cache of internal/ath/cache.go: an lruCache shared by the  *)
(* goroutines that serve requests and fill the cache.  The goroutines call  *)
(* Get, Load and Store.  Lookups share the read side of the lock, and yet   *)
(* move the element they hit to the front of the recency list: each pointer *)
(* assignment of that move is therefore a step that interleaves with those  *)
(* of other lookups.  Everything done under the write side runs alone.      *)
(*                                                                          *)
(* c.data[k] is the pair element[k], value[k]; a key is in the map exactly  *)
(* when element[k] is not Nil.  A value is an abstract byte slice: Cap      *)
(* gives its capacity.                                                      *)
(***************************************************************************)
EXTENDS Integers, Sums, RWMutex, LinkedList

CONSTANTS
  Methods,   \* the methods of the cache that are called: "get", "load", "store"
  Keys,      \* cache keys: file paths with the extension of a compression
  Values,    \* the byte slices a cache can hold
  Cap,       \* Cap[v]: the capacity of v, what it counts for in c.size
  Made,      \* Made[k]: the values the creator of k may produce
  MaxSize    \* c.maxSize: no limit when it is zero or negative

ASSUME MethodsAssumption == Methods \subseteq {"get", "load", "store"}
ASSUME KeysAssumption == IsFiniteSet(Keys)
ASSUME CapAssumption == Cap \in [Values -> Nat]
ASSUME MadeAssumption == Made \in [Keys -> SUBSET Values]
ASSUME MaxSizeAssumption == MaxSize \in Int
ASSUME NilAssumption == Nil \notin Keys \cup Values

VARIABLES
  element,    \* c.data[k].element, Nil when k is not in c.data
  value,      \* c.data[k].value, Nil when k is not in c.data
  size,       \* c.size
  keyOf,      \* keyOf[n]: the Value field of list element n
  pc,         \* where each goroutine is in the code
  op,         \* the method it runs
  key,        \* the key it was called with
  val,        \* the value it stores or returns
  ret,        \* how the call ended
  stmt,       \* the assignment of MoveToFront it has reached
  store,      \* the evaluated assignment it is about to make
  panicked    \* TRUE once some call has panicked (history)

dataVars == <<element, value, size, keyOf>>
callVars == <<op, key, val, ret>>
moveVars == <<stmt, store>>
vars == <<rwVars, listVars, dataVars, pc, callVars, moveVars, panicked>>

NoAssignment == [field |-> "next", node |-> Nil, target |-> Nil]

Locations == {"idle", "rlock", "rwait", "load", "move", "hit", "miss", "lock",
              "drain", "recheck", "create", "store", "evict", "unlock", "done"}

TypeOK ==
  /\ RWTypeOK
  /\ ListTypeOK
  /\ element \in [Keys -> Nodes \cup {Nil}]
  /\ value \in [Keys -> Values \cup {Nil}]
  /\ size \in Int
  /\ keyOf \in [Nodes -> Keys \cup {Nil}]
  /\ pc \in [Goroutines -> Locations]
  /\ op \in [Goroutines -> {"none", "get", "load", "store"}]
  /\ key \in [Goroutines -> Keys \cup {Nil}]
  /\ val \in [Goroutines -> Values \cup {Nil}]
  /\ ret \in [Goroutines -> {"none", "ok", "miss", "error", "panic"}]
  /\ stmt \in [Goroutines -> 0 .. MoveLength]
  /\ store \in [Goroutines -> Assignment]
  /\ panicked \in BOOLEAN

\* NewCache
Init ==
  /\ RWInit
  /\ ListInit
  /\ element = [k \in Keys |-> Nil]
  /\ value = [k \in Keys |-> Nil]
  /\ size = 0
  /\ keyOf = [n \in Nodes |-> Nil]
  /\ pc = [g \in Goroutines |-> "idle"]
  /\ op = [g \in Goroutines |-> "none"]
  /\ key = [g \in Goroutines |-> Nil]
  /\ val = [g \in Goroutines |-> Nil]
  /\ ret = [g \in Goroutines |-> "none"]
  /\ stmt = [g \in Goroutines |-> 0]
  /\ store = [g \in Goroutines |-> NoAssignment]
  /\ panicked = FALSE

-----------------------------------------------------------------------------
(* Helpers *)

Goto(g, l) == pc' = [pc EXCEPT ![g] = l]

\* The capacity of what the map holds under k.
HeldCap(k) == IF value[k] = Nil THEN 0 ELSE Cap[value[k]]

\* Mutants of OverLimit: zero taken for a limit; a limit that is off by one.
OverLimitZero == size > MaxSize
OverLimitLate == MaxSize > 0 /\ size > MaxSize + 1

\* Whether a limit is set and the cache is above it: the loop's condition.
OverLimit == MaxSize > 0 /\ size > MaxSize

\* The capacity is tested before anything else in store.
TooBig(v) == MaxSize > 0 /\ Cap[v] > MaxSize

-----------------------------------------------------------------------------
(* A call begins and ends *)

\* Get, or Load alone.
CallRead(g, m, k) ==
  /\ pc[g] = "idle"
  /\ Goto(g, "rlock")
  /\ op' = [op EXCEPT ![g] = m]
  /\ key' = [key EXCEPT ![g] = k]
  /\ UNCHANGED <<rwVars, listVars, dataVars, val, ret, moveVars, panicked>>

CallStore(g, k, v) ==
  /\ pc[g] = "idle"
  /\ "store" \in Methods
  /\ Goto(g, "lock")
  /\ op' = [op EXCEPT ![g] = "store"]
  /\ key' = [key EXCEPT ![g] = k]
  /\ val' = [val EXCEPT ![g] = v]
  /\ ret' = [ret EXCEPT ![g] = "ok"]
  /\ UNCHANGED <<rwVars, listVars, dataVars, moveVars, panicked>>

\* The call has returned, or its panic was recovered by net/http.
Return(g) ==
  /\ pc[g] = "done"
  /\ Goto(g, "idle")
  /\ op' = [op EXCEPT ![g] = "none"]
  /\ key' = [key EXCEPT ![g] = Nil]
  /\ val' = [val EXCEPT ![g] = Nil]
  /\ ret' = [ret EXCEPT ![g] = "none"]
  /\ UNCHANGED <<rwVars, listVars, dataVars, moveVars, panicked>>

-----------------------------------------------------------------------------
(* Load: under the read side of the lock *)

LoadLock(g) ==
  /\ pc[g] = "rlock"
  /\ RLock(g)
  /\ Goto(g, "load")
  /\ UNCHANGED <<listVars, dataVars, callVars, moveVars, panicked>>

LoadBlocked(g) ==
  /\ pc[g] = "rlock"
  /\ RLockBlocked(g)
  /\ Goto(g, "rwait")
  /\ UNCHANGED <<listVars, dataVars, callVars, moveVars, panicked>>

\* Where an element e that must come to the front goes next: straight to
\* `rest` when MoveToFront has nothing to do.
StartMove(g, e, rest) ==
  /\ Goto(g, IF AtFront(e) THEN rest ELSE "move")
  /\ stmt' = [stmt EXCEPT ![g] = IF AtFront(e) THEN 0 ELSE 1]

\* Mutant of Lookup: a hit does not count as a use (first in, first out).
LookupUntouched(g) ==
  /\ pc[g] = "load"
  /\ Goto(g, IF element[key[g]] = Nil THEN "miss" ELSE "hit")
  /\ UNCHANGED <<rwVars, listVars, dataVars, callVars, moveVars, panicked>>

\* load: look the key up in the map, and touch the element of a hit.
Lookup(g) ==
  /\ pc[g] = "load"
  /\ IF element[key[g]] = Nil
     THEN Goto(g, "miss") /\ UNCHANGED stmt
     ELSE StartMove(g, element[key[g]], "hit")
  /\ UNCHANGED <<rwVars, listVars, dataVars, callVars, store, panicked>>

LoadHit(g) ==
  /\ pc[g] = "hit"
  /\ RUnlock(g)
  /\ Goto(g, "done")
  /\ IF ret[g] = "panic"
     THEN UNCHANGED <<val, ret>>
     ELSE /\ val' = [val EXCEPT ![g] = value[key[g]]]
          /\ ret' = [ret EXCEPT ![g] = "ok"]
  /\ UNCHANGED <<listVars, dataVars, op, key, moveVars, panicked>>

LoadMiss(g) ==
  /\ pc[g] = "miss"
  /\ RUnlock(g)
  /\ Goto(g, IF op[g] = "get" THEN "lock" ELSE "done")
  /\ ret' = [ret EXCEPT ![g] = IF op[g] = "get" THEN "none" ELSE "miss"]
  /\ UNCHANGED <<listVars, dataVars, op, key, val, moveVars, panicked>>

-----------------------------------------------------------------------------
(* MoveToFront: one assignment at a time, its operands first *)

\* Where the goroutine goes when its MoveToFront is over.
AfterMove(g) == IF g \in readers THEN "hit" ELSE "evict"

\* Assigning to a field of a nil node panics: the deferred calls still run.
MoveEvaluate(g) ==
  /\ pc[g] = "move"
  /\ store[g] = NoAssignment
  /\ \E a \in MoveAssignments(stmt[g], element[key[g]]) :
       IF a.node = Nil
       THEN /\ panicked' = TRUE
            /\ ret' = [ret EXCEPT ![g] = "panic"]
            /\ Goto(g, AfterMove(g))
            /\ stmt' = [stmt EXCEPT ![g] = 0]
            /\ UNCHANGED store
       ELSE /\ store' = [store EXCEPT ![g] = a]
            /\ UNCHANGED <<pc, ret, stmt, panicked>>
  /\ UNCHANGED <<rwVars, listVars, dataVars, op, key, val>>

\* Mutant of MoveAssign: one turn too many.
MoveAssignPast(g) ==
  /\ pc[g] = "move"
  /\ store[g] # NoAssignment
  /\ Assign(store[g])
  /\ store' = [store EXCEPT ![g] = NoAssignment]
  /\ IF stmt[g] > MoveLength
     THEN Goto(g, AfterMove(g)) /\ stmt' = [stmt EXCEPT ![g] = 0]
     ELSE UNCHANGED pc /\ stmt' = [stmt EXCEPT ![g] = @ + 1]
  /\ UNCHANGED <<rwVars, dataVars, callVars, panicked>>

MoveAssign(g) ==
  /\ pc[g] = "move"
  /\ store[g] # NoAssignment
  /\ Assign(store[g])
  /\ store' = [store EXCEPT ![g] = NoAssignment]
  /\ IF stmt[g] = MoveLength
     THEN Goto(g, AfterMove(g)) /\ stmt' = [stmt EXCEPT ![g] = 0]
     ELSE UNCHANGED pc /\ stmt' = [stmt EXCEPT ![g] = @ + 1]
  /\ UNCHANGED <<rwVars, dataVars, callVars, panicked>>

-----------------------------------------------------------------------------
(* Get after a miss, and Store: under the write side of the lock *)

LockWanted(g) ==
  /\ pc[g] = "lock"
  /\ LockAnnounce(g)
  /\ Goto(g, "drain")
  /\ UNCHANGED <<listVars, dataVars, callVars, moveVars, panicked>>

LockHeld(g) ==
  /\ pc[g] = "drain"
  /\ LockGranted(g)
  /\ Goto(g, IF op[g] = "store" THEN "store" ELSE "recheck")
  /\ UNCHANGED <<rwVars, listVars, dataVars, callVars, moveVars, panicked>>

\* Mutant of Recheck: the miss of Load is taken for granted.
RecheckSkipped(g) ==
  /\ pc[g] = "recheck"
  /\ Goto(g, "create")
  /\ UNCHANGED <<rwVars, listVars, dataVars, callVars, moveVars, panicked>>

\* Another goroutine may have created the value between RUnlock and Lock.
\* This hit leaves the recency list as it is.
Recheck(g) ==
  /\ pc[g] = "recheck"
  /\ IF element[key[g]] = Nil
     THEN Goto(g, "create") /\ UNCHANGED <<val, ret>>
     ELSE /\ val' = [val EXCEPT ![g] = value[key[g]]]
          /\ ret' = [ret EXCEPT ![g] = "ok"]
          /\ Goto(g, "unlock")
  /\ UNCHANGED <<rwVars, listVars, dataVars, op, key, moveVars, panicked>>

Create(g) ==
  /\ pc[g] = "create"
  /\ \E v \in Made[key[g]] : val' = [val EXCEPT ![g] = v]
  /\ ret' = [ret EXCEPT ![g] = "ok"]
  /\ Goto(g, "store")
  /\ UNCHANGED <<rwVars, listVars, dataVars, op, key, moveVars, panicked>>

\* Mutant of CreateFailed: an early return that forgets the lock.
CreateFailedLocked(g) ==
  /\ pc[g] = "create"
  /\ ret' = [ret EXCEPT ![g] = "error"]
  /\ Goto(g, "done")
  /\ UNCHANGED <<rwVars, listVars, dataVars, op, key, val, moveVars, panicked>>

CreateFailed(g) ==
  /\ pc[g] = "create"
  /\ ret' = [ret EXCEPT ![g] = "error"]
  /\ Goto(g, "unlock")
  /\ UNCHANGED <<rwVars, listVars, dataVars, op, key, val, moveVars, panicked>>

\* Mutant of StoreTooBig: the early return forgets the lock.
StoreTooBigLocked(g) ==
  /\ pc[g] = "store"
  /\ TooBig(val[g])
  /\ Goto(g, "done")
  /\ UNCHANGED <<rwVars, listVars, dataVars, callVars, moveVars, panicked>>

\* store gives up before the eviction is deferred.
StoreTooBig(g) ==
  /\ pc[g] = "store"
  /\ TooBig(val[g])
  /\ Goto(g, "unlock")
  /\ UNCHANGED <<rwVars, listVars, dataVars, callVars, moveVars, panicked>>

\* Mutant of StoreReplace: the capacity of the replaced value stays counted.
StoreReplaceAdds(g) ==
  /\ pc[g] = "store"
  /\ ~TooBig(val[g])
  /\ element[key[g]] # Nil
  /\ size' = size + Cap[val[g]]
  /\ value' = [value EXCEPT ![key[g]] = val[g]]
  /\ StartMove(g, element[key[g]], "evict")
  /\ UNCHANGED <<rwVars, listVars, element, keyOf, callVars, store, panicked>>

StoreReplace(g) ==
  /\ pc[g] = "store"
  /\ ~TooBig(val[g])
  /\ element[key[g]] # Nil
  /\ size' = size + (Cap[val[g]] - HeldCap(key[g]))
  /\ value' = [value EXCEPT ![key[g]] = val[g]]
  /\ StartMove(g, element[key[g]], "evict")
  /\ UNCHANGED <<rwVars, listVars, element, keyOf, callVars, store, panicked>>

StoreNew(g) ==
  /\ pc[g] = "store"
  /\ ~TooBig(val[g])
  /\ element[key[g]] = Nil
  /\ \E n \in Nodes :
       /\ Unreferenced(n)
       /\ PushFront(n)
       /\ keyOf' = [keyOf EXCEPT ![n] = key[g]]
       /\ element' = [element EXCEPT ![key[g]] = n]
  /\ value' = [value EXCEPT ![key[g]] = val[g]]
  /\ size' = size + Cap[val[g]]
  /\ Goto(g, "evict")
  /\ UNCHANGED <<rwVars, callVars, moveVars, panicked>>

-----------------------------------------------------------------------------
(* evictLeastRecent, deferred by store *)

EvictDone(g) ==
  /\ pc[g] = "evict"
  /\ ~OverLimit
  /\ Goto(g, "unlock")
  /\ UNCHANGED <<rwVars, listVars, dataVars, callVars, moveVars, panicked>>

\* The panic unwinds through Get or Store: the deferred Unlock runs.
EvictPanic(g) ==
  /\ panicked' = TRUE
  /\ ret' = [ret EXCEPT ![g] = "panic"]
  /\ Goto(g, "unlock")
  /\ UNCHANGED <<element, value, size>>

\* Mutant of EvictOne: the element of the key stays in the list.
EvictOneLinked(g) ==
  /\ pc[g] = "evict"
  /\ OverLimit
  /\ IF Back \notin Nodes
     THEN EvictPanic(g)
     ELSE LET k == keyOf[Back] IN
          IF element[k] = Nil
          THEN EvictPanic(g)
          ELSE /\ size' = size - HeldCap(k)
               /\ element' = [element EXCEPT ![k] = Nil]
               /\ value' = [value EXCEPT ![k] = Nil]
               /\ UNCHANGED <<pc, ret, panicked>>
  /\ UNCHANGED <<rwVars, listVars, keyOf, op, key, val, moveVars>>

\* One turn of the loop.  The sentinel holds no key, so back.Value.(string)
\* panics on it, as back.Value does on nil.  The map may no longer hold the
\* key of an element that a corrupted ring still reaches: stored is then nil.
EvictOne(g) ==
  /\ pc[g] = "evict"
  /\ OverLimit
  /\ IF Back \notin Nodes
     THEN EvictPanic(g) /\ UNCHANGED listVars
     ELSE /\ Unlink(Back)
          /\ LET k == keyOf[Back] IN
               IF element[k] = Nil
               THEN EvictPanic(g)
               ELSE /\ size' = size - HeldCap(k)
                    /\ element' = [element EXCEPT ![k] = Nil]
                    /\ value' = [value EXCEPT ![k] = Nil]
                    /\ UNCHANGED <<pc, ret, panicked>>
  /\ UNCHANGED <<rwVars, keyOf, op, key, val, moveVars>>

Release(g) ==
  /\ pc[g] = "unlock"
  /\ Unlock(g)
  /\ pc' = [h \in Goroutines |->
              IF h = g THEN "done" ELSE IF h \in waiting THEN "load" ELSE pc[h]]
  /\ UNCHANGED <<listVars, dataVars, callVars, moveVars, panicked>>

-----------------------------------------------------------------------------
(* Specification *)

LoadStep(g) ==
  \/ LoadLock(g)
  \/ LoadBlocked(g)
  \/ Lookup(g)
  \/ LoadHit(g)
  \/ LoadMiss(g)

MoveStep(g) ==
  \/ MoveEvaluate(g)
  \/ MoveAssign(g)

StoreStep(g) ==
  \/ LockWanted(g)
  \/ LockHeld(g)
  \/ Recheck(g)
  \/ Create(g)
  \/ CreateFailed(g)
  \/ StoreTooBig(g)
  \/ StoreReplace(g)
  \/ StoreNew(g)
  \/ EvictDone(g)
  \/ EvictOne(g)
  \/ Release(g)

Step(g) == LoadStep(g) \/ MoveStep(g) \/ StoreStep(g) \/ Return(g)

Call(g) ==
  \/ \E m \in Methods \ {"store"}, k \in Keys : CallRead(g, m, k)
  \/ \E k \in Keys : \E v \in Made[k] : CallStore(g, k, v)

Next == \E g \in Goroutines : Call(g) \/ Step(g)

Spec == Init /\ [][Next]_vars

\* The scheduler runs every goroutine that can run, and a sync.Mutex that has
\* starved a goroutine hands itself over to it.  Nobody has to call the cache.
Fairness ==
  \A g \in Goroutines : WF_vars(Step(g)) /\ SF_vars(LockWanted(g))

FairSpec == Spec /\ Fairness

-----------------------------------------------------------------------------
(* What makes the cache correct *)

\* The creator of a key runs (it reads and compresses a whole file) only while
\* the key is absent: two goroutines that both missed do not both create it.
CreateOnlyWhenAbsent ==
  \A g \in Goroutines : pc[g] = "create" => element[key[g]] = Nil

\* c.size is the capacity of what the map holds, whatever the interleaving,
\* and also after a panic has cut a store short.
SizeAccounts == size = SumOver([k \in Keys |-> HeldCap(k)], Keys)

\* Size() may run: nobody is under the write side of the lock.
SizeReadable == writer = NoGoroutine \/ pc[writer] = "drain"

\* Whoever can read the size of a limited cache finds it within the limit.
MemoryBound == MaxSize > 0 /\ SizeReadable => size <= MaxSize

\* The same, until a call has panicked: nothing else lets the cache outgrow
\* its limit, whatever the racing moves did to the list.
MemoryBoundUnlessPanic == panicked \/ MemoryBound

\* A cache with no limit never panics, though its list can be corrupted.
PermanentNeverPanics == MaxSize <= 0 => ~panicked

\* A cache with no limit keeps what it holds: a key that was created is never
\* lost and, with Get alone, its value never changes.
PermanentKeeps ==
  [][MaxSize <= 0 /\ Methods = {"get"} =>
       \A k \in Keys : element[k] # Nil =>
         element'[k] = element[k] /\ value'[k] = value[k]]_vars

\* Every call returns: readers and writers do not lock each other out, and the
\* eviction loop ends.
CallsReturn ==
  \A g \in Goroutines : pc[g] \in {"rlock", "lock"} ~> pc[g] = "idle"

=============================================================================
