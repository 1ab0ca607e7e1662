--------------------------- MODULE LruCacheProofs ---------------------------
(***************************************************************************)
(* Proofs about LruCache, for every set of goroutines, keys and values and  *)
(* for every limit.                                                         *)
(***************************************************************************)
EXTENDS LruCache, SumsProofs, TLAPS

-----------------------------------------------------------------------------
(* The inductive invariant *)

Reading == {"load", "hit", "miss", "move"}
Writing == {"recheck", "create", "store", "evict", "unlock", "move"}

\* Who holds the lock is where the code needs it, and a writer that has been
\* granted the lock is alone with it.
LockInv ==
  /\ \A g \in Goroutines : pc[g] \in {"load", "hit", "miss"} => g \in readers
  /\ \A g \in Goroutines :
       pc[g] \in {"drain", "recheck", "create", "store", "evict", "unlock"} => writer = g
  /\ \A g \in Goroutines : pc[g] = "move" => g \in readers \/ writer = g
  /\ \A g \in readers : pc[g] \in Reading
  /\ \A g \in waiting : pc[g] = "rwait"
  /\ writer # NoGoroutine => pc[writer] \in Writing \cup {"drain"}
  /\ readers # {} => writer = NoGoroutine \/ pc[writer] = "drain"

\* The elements that PushFront has made, and the sentinel.
Known == {n \in Nodes : keyOf[n] \in Keys} \cup {Root}

\* No race makes a list pointer wild: the pointers of linked elements lead to
\* elements, and the map refers to linked elements of its own keys.
PointerInv ==
  /\ linked \subseteq Known
  /\ \A n \in linked \cup {Root} : next[n] \in Known /\ prev[n] \in Known
  /\ \A n \in Address : next[n] \in Known \cup {Nil} /\ prev[n] \in Known \cup {Nil}
  /\ \A k \in Keys : element[k] # Nil => element[k] \in linked /\ keyOf[element[k]] = k
  /\ \A g \in Goroutines :
       store[g] # NoAssignment =>
         pc[g] = "move" /\ store[g].node \in Known /\ store[g].target \in Known

\* What a goroutine carries through a call.
CallInv ==
  \A g \in Goroutines :
    /\ pc[g] # "idle" => key[g] \in Keys
    /\ pc[g] \in {"lock", "drain"} /\ op[g] = "store" => val[g] \in Values
    /\ pc[g] = "store" => val[g] \in Values
    /\ pc[g] = "move" => element[key[g]] # Nil /\ stmt[g] \in 1 .. MoveLength

\* While nobody has panicked, only a store that has yet to evict leaves the
\* cache above its limit.
SizeInv ==
  OverLimit /\ ~panicked =>
    writer # NoGoroutine /\ pc[writer] \in {"evict", "move"}

\* A Get that stores found its key absent under the lock it still holds, and
\* Store is called only if it is one of Methods.
AbsentInv ==
  /\ CreateOnlyWhenAbsent
  /\ \A g \in Goroutines :
       /\ op[g] = "store" => "store" \in Methods
       /\ pc[g] = "store" /\ op[g] # "store" => element[key[g]] = Nil

\* c.size is what the map holds, and the entries that are not in the map hold
\* nothing: a key that is stored anew adds its capacity and takes none away.
AccountInv ==
  /\ SizeAccounts
  /\ \A k \in Keys : element[k] = Nil => value[k] = Nil

IInv == TypeOK /\ LockInv /\ PointerInv /\ CallInv

-----------------------------------------------------------------------------
(* The operands of MoveToFront *)

\* Whatever other moves have done to the ring, the operands of an assignment of
\* MoveToFront are the sentinel or elements that exist: none is nil.
LEMMA MoveOperands ==
  ASSUME TypeOK, PointerInv, NEW e \in linked, NEW i \in 1 .. MoveLength,
         NEW a \in MoveAssignments(i, e)
  PROVE  a \in [field : {"next", "prev"}, node : Known, target : Known]
<1>1. {e, Root, next[e], prev[e], next[Root], prev[Root]} \subseteq Known
  BY DEF PointerInv, Known
<1>2. i \in {1, 2, 3, 4, 5, 6}
  BY DEF MoveLength
<1>3. QED
  BY <1>1, <1>2 DEF MoveAssignments

\* What MoveEvaluate does: it keeps an assignment of known operands.
LEMMA MoveEvaluates ==
  ASSUME IInv, NEW g \in Goroutines, MoveEvaluate(g)
  PROVE  /\ \E a \in [field : {"next", "prev"}, node : Known, target : Known] :
              store' = [store EXCEPT ![g] = a]
         /\ UNCHANGED <<rwVars, listVars, dataVars, pc, callVars, stmt, panicked>>
<1>1. PICK a \in MoveAssignments(stmt[g], element[key[g]]) :
        IF a.node = Nil
        THEN panicked' = TRUE
        ELSE /\ store' = [store EXCEPT ![g] = a]
             /\ UNCHANGED <<pc, ret, stmt, panicked>>
  BY DEF MoveEvaluate
<1>2. element[key[g]] \in linked /\ stmt[g] \in 1 .. MoveLength
  BY DEF MoveEvaluate, IInv, CallInv, PointerInv
<1>3. a \in [field : {"next", "prev"}, node : Known, target : Known]
  BY <1>1, <1>2, MoveOperands DEF IInv
<1>4. a.node # Nil
  BY <1>3, NodesAssumption DEF Known
<1>5. QED
  BY <1>1, <1>3, <1>4 DEF MoveEvaluate, callVars

-----------------------------------------------------------------------------
(* Each step preserves each part *)

\* RLock, Lock and their releases keep the lock with whom the code needs it.
LEMMA LockStep ==
  ASSUME TypeOK, LockInv, [Next]_vars
  PROVE  LockInv'
<1> USE DEF TypeOK, RWTypeOK, LockInv, Reading, Writing, rwVars
<1>1. CASE UNCHANGED vars
  BY <1>1 DEF vars
<1>2. ASSUME NEW g \in Goroutines, Call(g) \/ Step(g)
      PROVE  LockInv'
  <2>1. ASSUME NEW m \in Methods \ {"store"}, NEW k \in Keys, CallRead(g, m, k)
        PROVE  LockInv'
    BY <2>1 DEF CallRead, Goto
  <2>2. ASSUME NEW k \in Keys, NEW v \in Made[k], CallStore(g, k, v)
        PROVE  LockInv'
    BY <2>2 DEF CallStore, Goto
  <2>3. CASE LoadLock(g)
    BY <2>3 DEF LoadLock, Goto, RLock
  <2>4. CASE LoadBlocked(g)
    BY <2>4 DEF LoadBlocked, Goto, RLockBlocked
  <2>5. CASE Lookup(g)
    BY <2>5 DEF Lookup, Goto, StartMove
  <2>6. CASE LoadHit(g)
    BY <2>6 DEF LoadHit, Goto, RUnlock
  <2>7. CASE LoadMiss(g)
    BY <2>7 DEF LoadMiss, Goto, RUnlock
  <2>8. CASE MoveEvaluate(g)
    BY <2>8 DEF MoveEvaluate, Goto, AfterMove
  <2>9. CASE MoveAssign(g)
    BY <2>9 DEF MoveAssign, Goto, AfterMove, Assign
  <2>10. CASE LockWanted(g)
    BY <2>10, NoGoroutineAssumption DEF LockWanted, Goto, LockAnnounce
  <2>11. CASE LockHeld(g)
    BY <2>11 DEF LockHeld, Goto, LockGranted
  <2>12. CASE Recheck(g)
    BY <2>12 DEF Recheck, Goto
  <2>13. CASE Create(g)
    BY <2>13 DEF Create, Goto
  <2>14. CASE CreateFailed(g)
    BY <2>14 DEF CreateFailed, Goto
  <2>15. CASE StoreTooBig(g)
    BY <2>15 DEF StoreTooBig, Goto
  <2>16. CASE StoreReplace(g)
    BY <2>16 DEF StoreReplace, Goto, StartMove
  <2>17. CASE StoreNew(g)
    BY <2>17 DEF StoreNew, Goto, PushFront
  <2>18. CASE EvictDone(g)
    BY <2>18 DEF EvictDone, Goto
  <2>19. CASE EvictOne(g)
    BY <2>19 DEF EvictOne, Goto, Unlink, EvictPanic
  <2>20. CASE Release(g)
    BY <2>20 DEF Release, Unlock
  <2>21. CASE Return(g)
    BY <2>21 DEF Return, Goto
  <2> QED
    BY <1>2, <2>1, <2>2, <2>3, <2>4, <2>5, <2>6, <2>7, <2>8, <2>9, <2>10, <2>11, <2>12,
       <2>13, <2>14, <2>15, <2>16, <2>17, <2>18, <2>19, <2>20, <2>21
    DEF Call, Step, LoadStep, MoveStep, StoreStep
<1>3. QED
  BY <1>1, <1>2 DEF Next

\* Every step keeps the types: the writes of MoveToFront rest on PointerInv, and
\* the key of an evicted element on its being an element that PushFront made.
LEMMA TypeStep ==
  ASSUME IInv, [Next]_vars
  PROVE  TypeOK'
<1> USE DEF IInv, TypeOK, RWTypeOK, ListTypeOK, Locations, rwVars, listVars, dataVars,
   callVars, moveVars
<1>1. CASE UNCHANGED vars
  BY <1>1 DEF vars
<1>2. ASSUME NEW g \in Goroutines, Call(g) \/ Step(g)
      PROVE  TypeOK'
  <2>1. ASSUME NEW m \in Methods \ {"store"}, NEW k \in Keys, CallRead(g, m, k)
        PROVE  TypeOK'
    BY <2>1, MethodsAssumption DEF CallRead, Goto
  <2>2. ASSUME NEW k \in Keys, NEW v \in Made[k], CallStore(g, k, v)
        PROVE  TypeOK'
    BY <2>2, MadeAssumption DEF CallStore, Goto
  <2>3. CASE LoadLock(g)
    BY <2>3 DEF LoadLock, Goto, RLock
  <2>4. CASE LoadBlocked(g)
    BY <2>4 DEF LoadBlocked, Goto, RLockBlocked
  <2>5. CASE Lookup(g)
    BY <2>5 DEF Lookup, Goto, StartMove, MoveLength
  <2>6. CASE LoadHit(g)
    BY <2>6 DEF LoadHit, Goto, RUnlock, CallInv
  <2>7. CASE LoadMiss(g)
    BY <2>7 DEF LoadMiss, Goto, RUnlock
  <2>8. CASE MoveEvaluate(g)
    <3>1. PICK a \in [field : {"next", "prev"}, node : Known, target : Known] :
            store' = [store EXCEPT ![g] = a]
      BY <2>8, MoveEvaluates
    <3>2. a \in Assignment
      BY <3>1 DEF Known, Assignment, Pointer, Address
    <3> QED
      BY <2>8, <3>1, <3>2, MoveEvaluates
  <2>9. CASE MoveAssign(g)
    <3>1. store[g].target \in Pointer /\ store[g].field \in {"next", "prev"}
      BY DEF Assignment
    <3>2. next' \in [Address -> Pointer] /\ prev' \in [Address -> Pointer]
      BY <2>9, <3>1 DEF MoveAssign, Assign
    <3>3. NoAssignment \in Assignment
      BY DEF NoAssignment, Assignment, Pointer
    <3>4. stmt' \in [Goroutines -> 0 .. MoveLength]
      BY <2>9 DEF MoveAssign, MoveLength
    <3>5. pc' \in [Goroutines -> Locations]
      BY <2>9 DEF MoveAssign, Goto, AfterMove
    <3> QED
      BY <2>9, <3>2, <3>3, <3>4, <3>5 DEF MoveAssign, Assign
  <2>10. CASE LockWanted(g)
    BY <2>10 DEF LockWanted, Goto, LockAnnounce
  <2>11. CASE LockHeld(g)
    BY <2>11 DEF LockHeld, Goto, LockGranted
  <2>12. CASE Recheck(g)
    BY <2>12 DEF Recheck, Goto, CallInv
  <2>13. CASE Create(g)
    BY <2>13, MadeAssumption DEF Create, Goto, CallInv
  <2>14. CASE CreateFailed(g)
    BY <2>14 DEF CreateFailed, Goto
  <2>15. CASE StoreTooBig(g)
    BY <2>15 DEF StoreTooBig, Goto
  <2>16. CASE StoreReplace(g)
    <3>1. key[g] \in Keys /\ val[g] \in Values /\ value[key[g]] \in Values \cup {Nil}
      BY <2>16 DEF StoreReplace, CallInv
    <3>2. size' \in Int
      BY <2>16, <3>1, CapAssumption DEF StoreReplace, HeldCap
    <3>3. value' \in [Keys -> Values \cup {Nil}]
      BY <2>16, <3>1 DEF StoreReplace
    <3>4. stmt' \in [Goroutines -> 0 .. MoveLength] /\ pc' \in [Goroutines -> Locations]
      BY <2>16 DEF StoreReplace, StartMove, Goto, MoveLength
    <3> QED
      BY <2>16, <3>2, <3>3, <3>4 DEF StoreReplace
  <2>17. CASE StoreNew(g)
    <3>1. key[g] \in Keys /\ val[g] \in Values
      BY <2>17 DEF StoreNew, CallInv
    <3>2. size' \in Int
      BY <2>17, <3>1, CapAssumption DEF StoreNew
    <3>3. PICK n \in Nodes : /\ PushFront(n)
                           /\ keyOf' = [keyOf EXCEPT ![n] = key[g]]
                           /\ element' = [element EXCEPT ![key[g]] = n]
      BY <2>17 DEF StoreNew
    <3>4. next' \in [Address -> Pointer] /\ prev' \in [Address -> Pointer] /\ linked' \in SUBSET Nodes
      BY <3>3 DEF PushFront, Address, Pointer
    <3>5. keyOf' \in [Nodes -> Keys \cup {Nil}] /\ element' \in [Keys -> Nodes \cup {Nil}]
      BY <3>1, <3>3
    <3>6. value' \in [Keys -> Values \cup {Nil}] /\ pc' \in [Goroutines -> Locations]
      BY <2>17, <3>1 DEF StoreNew, Goto
    <3> QED
      BY <2>17, <3>2, <3>4, <3>5, <3>6 DEF StoreNew
  <2>18. CASE EvictDone(g)
    BY <2>18 DEF EvictDone, Goto
  <2>19. CASE EvictOne(g)
    <3>1. ASSUME Back \notin Nodes
          PROVE  TypeOK'
      BY <2>19, <3>1 DEF EvictOne, EvictPanic, Goto
    <3>2. ASSUME Back \in Nodes
          PROVE  TypeOK'
      <4>1. keyOf[Back] \in Keys
        BY <3>2, NodesAssumption DEF Back, PointerInv, Known, Address
      <4>2. next' \in [Address -> Pointer] /\ prev' \in [Address -> Pointer] /\ linked' \in SUBSET Nodes
        BY <2>19, <3>2 DEF EvictOne, Unlink, Address, Pointer
      <4>3. ASSUME element[keyOf[Back]] = Nil
            PROVE  TypeOK'
        BY <2>19, <3>2, <4>2, <4>3 DEF EvictOne, EvictPanic, Goto
      <4>4. ASSUME element[keyOf[Back]] # Nil
            PROVE  TypeOK'
        <5>1. HeldCap(keyOf[Back]) \in Int
          BY <4>1, CapAssumption DEF HeldCap
        <5> QED
          BY <2>19, <3>2, <4>1, <4>2, <4>4, <5>1 DEF EvictOne
      <4> QED
        BY <4>3, <4>4
    <3> QED
      BY <3>1, <3>2
  <2>20. CASE Release(g)
    BY <2>20 DEF Release, Unlock
  <2>21. CASE Return(g)
    BY <2>21 DEF Return, Goto
  <2> QED
    BY <1>2, <2>1, <2>2, <2>3, <2>4, <2>5, <2>6, <2>7, <2>8, <2>9, <2>10, <2>11, <2>12,
       <2>13, <2>14, <2>15, <2>16, <2>17, <2>18, <2>19, <2>20, <2>21
    DEF Call, Step, LoadStep, MoveStep, StoreStep
<1>3. QED
  BY <1>1, <1>2 DEF Next

\* PointerInv looks at the list and the map only, and at who is moving.
LEMMA PointersKept ==
  ASSUME PointerInv, UNCHANGED <<listVars, element, keyOf, store>>,
         \A h \in Goroutines : store[h] # NoAssignment => pc'[h] = "move"
  PROVE  PointerInv'
<1>1. Known' = Known
  BY DEF Known
<1>2. QED
  BY <1>1 DEF PointerInv, listVars, Address

\* Racing assignments may cross the pointers of the ring, but only among elements
\* that exist, and eviction clears the pointers of elements no longer linked.
LEMMA PointerStep ==
  ASSUME IInv, [Next]_vars
  PROVE  PointerInv'
<1> USE DEF IInv, TypeOK, RWTypeOK, ListTypeOK, PointerInv, rwVars, listVars, dataVars,
   callVars, moveVars
<1>1. CASE UNCHANGED vars
  BY <1>1, PointersKept DEF vars
<1>2. ASSUME NEW g \in Goroutines, Call(g) \/ Step(g)
      PROVE  PointerInv'
  <2>1. ASSUME UNCHANGED <<listVars, element, keyOf, store>>
        PROVE  PointerInv'
    <3>1. ASSUME NEW h \in Goroutines, store[h] # NoAssignment
          PROVE  pc'[h] = "move"
      <4>1. pc[h] = "move" /\ store'[h] # NoAssignment
        BY <2>1, <3>1
      <4>2. CASE Call(g) \/ LoadStep(g) \/ Return(g)
        BY <4>1, <4>2 DEF Call, CallRead, CallStore, LoadStep, LoadLock, LoadBlocked,
           Lookup, LoadHit, LoadMiss, Return, Goto, StartMove
      <4>3. CASE MoveEvaluate(g)
        BY <4>1, <4>3, MoveEvaluates
      <4>4. CASE MoveAssign(g)
        BY <4>1, <4>4 DEF MoveAssign, Goto
      <4>5. CASE StoreStep(g) /\ ~Release(g)
        BY <4>1, <4>5 DEF StoreStep, LockWanted, LockHeld, Recheck, Create, CreateFailed,
           StoreTooBig, StoreReplace, StoreNew, EvictDone, EvictOne, EvictPanic, Goto, StartMove
      <4>6. CASE Release(g)
        BY <4>1, <4>6 DEF Release, LockInv
      <4> QED
        BY <1>2, <4>2, <4>3, <4>4, <4>5, <4>6 DEF Step, MoveStep
    <3> QED
      BY <2>1, <3>1, PointersKept
  <2>2. CASE MoveEvaluate(g)
    <3>1. PICK a \in [field : {"next", "prev"}, node : Known, target : Known] :
            store' = [store EXCEPT ![g] = a]
      BY <2>2, MoveEvaluates
    <3>2. Known' = Known
      BY <2>2, MoveEvaluates DEF Known
    <3> QED
      BY <2>2, <3>1, <3>2, MoveEvaluates DEF MoveEvaluate
  <2>3. CASE MoveAssign(g)
    BY <2>3 DEF MoveAssign, Goto, Assign, Known, Address
  <2>4. CASE StoreNew(g)
    <3>1. PICK n \in Nodes : /\ n \notin linked
                           /\ PushFront(n)
                           /\ keyOf' = [keyOf EXCEPT ![n] = key[g]]
                           /\ element' = [element EXCEPT ![key[g]] = n]
      BY <2>4 DEF StoreNew, Unreferenced
    <3>2. key[g] \in Keys
      BY <2>4 DEF StoreNew, CallInv
    <3>3. Known' = Known \cup {n}
      BY <3>1, <3>2 DEF Known
    <3>4. linked' \subseteq Known'
      BY <3>1, <3>3 DEF PushFront
    <3>5. \A m \in linked' \cup {Root} : next'[m] \in Known' /\ prev'[m] \in Known'
      BY <3>1, <3>3 DEF PushFront, Address, Known
    <3>6. \A m \in Address : next'[m] \in Known' \cup {Nil} /\ prev'[m] \in Known' \cup {Nil}
      BY <3>1, <3>3 DEF PushFront, Address, Known
    <3>7. \A k \in Keys :
            element'[k] # Nil => element'[k] \in linked' /\ keyOf'[element'[k]] = k
      BY <3>1, <3>2 DEF PushFront
    <3>8. \A h \in Goroutines :
            store'[h] # NoAssignment =>
              pc'[h] = "move" /\ store'[h].node \in Known' /\ store'[h].target \in Known'
      BY <2>4, <3>3 DEF StoreNew, Goto
    <3> QED
      BY <3>4, <3>5, <3>6, <3>7, <3>8
  <2>5. CASE EvictOne(g)
    <3>1. Known' = Known
      BY <2>5 DEF EvictOne, Known
    <3>2. \A h \in Goroutines :
            store'[h] # NoAssignment =>
              pc'[h] = "move" /\ store'[h].node \in Known' /\ store'[h].target \in Known'
      BY <2>5, <3>1 DEF EvictOne, EvictPanic, Goto
    <3>3. CASE Back \notin Nodes
      BY <2>5, <3>1, <3>2, <3>3 DEF EvictOne, EvictPanic
    <3>4. CASE Back \in Nodes
      <4>1. Unlink(Back)
        BY <2>5, <3>4 DEF EvictOne
      <4>2. linked' \subseteq Known'
        BY <3>1, <4>1 DEF Unlink
      <4>3. \A m \in linked' \cup {Root} : next'[m] \in Known' /\ prev'[m] \in Known'
        BY <3>1, <4>1, <3>4, NodesAssumption DEF Unlink, Address, Known
      <4>4. \A m \in Address : next'[m] \in Known' \cup {Nil} /\ prev'[m] \in Known' \cup {Nil}
        BY <3>1, <4>1 DEF Unlink, Address
      <4>5. element' = [element EXCEPT ![keyOf[Back]] = Nil]
        BY <2>5, <3>4 DEF EvictOne, EvictPanic
      <4>6. \A k \in Keys :
              element'[k] # Nil => element'[k] \in linked' /\ keyOf'[element'[k]] = k
        BY <2>5, <4>1, <4>5 DEF EvictOne, Unlink
      <4> QED
        BY <3>2, <4>2, <4>3, <4>4, <4>6
    <3> QED
      BY <3>3, <3>4
  <2>6. CASE Call(g)
    BY <2>1, <2>6 DEF Call, CallRead, CallStore
  <2>7. CASE LoadStep(g) \/ Return(g)
    BY <2>1, <2>7 DEF LoadStep, LoadLock, LoadBlocked, Lookup, LoadHit, LoadMiss, Return
  <2>8. CASE StoreStep(g) /\ ~StoreNew(g) /\ ~EvictOne(g)
    BY <2>1, <2>8 DEF StoreStep, LockWanted, LockHeld, Recheck, Create, CreateFailed,
       StoreTooBig, StoreReplace, EvictDone, Release
  <2> QED
    BY <1>2, <2>2, <2>3, <2>4, <2>5, <2>6, <2>7, <2>8 DEF Step, MoveStep, StoreStep
<1>3. QED
  BY <1>1, <1>2 DEF Next

\* A goroutine keeps its key through the call, and a value once it has one to store.
LEMMA CallStep ==
  ASSUME IInv, [Next]_vars
  PROVE  CallInv'
<1> USE DEF IInv, TypeOK, RWTypeOK, ListTypeOK, LockInv, CallInv, rwVars, listVars,
   dataVars, callVars, moveVars, MoveLength
<1>1. CASE UNCHANGED vars
  BY <1>1 DEF vars
<1>2. ASSUME NEW g \in Goroutines, Call(g) \/ Step(g)
      PROVE  CallInv'
  <2>1. ASSUME NEW m \in Methods \ {"store"}, NEW k \in Keys, CallRead(g, m, k)
        PROVE  CallInv'
    BY <2>1 DEF CallRead, Goto
  <2>2. ASSUME NEW k \in Keys, NEW v \in Made[k], CallStore(g, k, v)
        PROVE  CallInv'
    BY <2>2, MadeAssumption DEF CallStore, Goto
  <2>3. CASE LoadLock(g)
    BY <2>3 DEF LoadLock, Goto, RLock
  <2>4. CASE LoadBlocked(g)
    BY <2>4 DEF LoadBlocked, Goto, RLockBlocked
  <2>5. CASE Lookup(g)
    BY <2>5 DEF Lookup, Goto, StartMove
  <2>6. CASE LoadHit(g)
    BY <2>6 DEF LoadHit, Goto, RUnlock
  <2>7. CASE LoadMiss(g)
    BY <2>7 DEF LoadMiss, Goto, RUnlock
  <2>8. CASE MoveEvaluate(g)
    BY <2>8, MoveEvaluates
  <2>9. CASE MoveAssign(g)
    BY <2>9 DEF MoveAssign, Goto, AfterMove, Assign
  <2>10. CASE LockWanted(g)
    BY <2>10 DEF LockWanted, Goto, LockAnnounce
  <2>11. CASE LockHeld(g)
    BY <2>11 DEF LockHeld, Goto, LockGranted
  <2>12. CASE Recheck(g)
    BY <2>12 DEF Recheck, Goto
  <2>13. CASE Create(g)
    BY <2>13, MadeAssumption DEF Create, Goto
  <2>14. CASE CreateFailed(g)
    BY <2>14 DEF CreateFailed, Goto
  <2>15. CASE StoreTooBig(g)
    BY <2>15 DEF StoreTooBig, Goto
  <2>16. CASE StoreReplace(g)
    BY <2>16 DEF StoreReplace, Goto, StartMove
  <2>17. CASE StoreNew(g)
    BY <2>17 DEF StoreNew, Goto, PushFront
  <2>18. CASE EvictDone(g)
    BY <2>18 DEF EvictDone, Goto
  <2>19. CASE EvictOne(g)
    <3>1. \A h \in Goroutines : pc[h] # "move"
      BY <2>19, NoGoroutineAssumption DEF EvictOne
    <3>2. \A h \in Goroutines \ {g} : pc'[h] = pc[h]
      BY <2>19 DEF EvictOne, EvictPanic, Goto
    <3>3. pc'[g] \in {"evict", "unlock"}
      BY <2>19 DEF EvictOne, EvictPanic, Goto
    <3> QED
      BY <2>19, <3>1, <3>2, <3>3 DEF EvictOne
  <2>20. CASE Release(g)
    BY <2>20 DEF Release, Unlock
  <2>21. CASE Return(g)
    BY <2>21 DEF Return, Goto
  <2> QED
    BY <1>2, <2>1, <2>2, <2>3, <2>4, <2>5, <2>6, <2>7, <2>8, <2>9, <2>10, <2>11, <2>12,
       <2>13, <2>14, <2>15, <2>16, <2>17, <2>18, <2>19, <2>20, <2>21
    DEF Call, Step, LoadStep, MoveStep, StoreStep
<1>3. QED
  BY <1>1, <1>2 DEF Next

\* A store that leaves the cache above its limit goes on to evict, and leaves that
\* loop within the limit or by a panic.
LEMMA SizeStep ==
  ASSUME IInv, SizeInv, [Next]_vars
  PROVE  SizeInv'
<1> USE DEF IInv, TypeOK, RWTypeOK, LockInv, SizeInv, OverLimit, rwVars, listVars,
   dataVars, callVars, moveVars, Reading, Writing
<1>1. CASE UNCHANGED vars
  BY <1>1 DEF vars
<1>2. ASSUME NEW g \in Goroutines, Call(g) \/ Step(g)
      PROVE  SizeInv'
  <2>1. ASSUME NEW m \in Methods \ {"store"}, NEW k \in Keys, CallRead(g, m, k)
        PROVE  SizeInv'
    BY <2>1 DEF CallRead, Goto
  <2>2. ASSUME NEW k \in Keys, NEW v \in Made[k], CallStore(g, k, v)
        PROVE  SizeInv'
    BY <2>2 DEF CallStore, Goto
  <2>3. CASE LoadLock(g)
    BY <2>3 DEF LoadLock, Goto, RLock
  <2>4. CASE LoadBlocked(g)
    BY <2>4 DEF LoadBlocked, Goto, RLockBlocked
  <2>5. CASE Lookup(g)
    BY <2>5 DEF Lookup, Goto, StartMove
  <2>6. CASE LoadHit(g)
    BY <2>6 DEF LoadHit, Goto, RUnlock
  <2>7. CASE LoadMiss(g)
    BY <2>7 DEF LoadMiss, Goto, RUnlock
  <2>8. CASE MoveEvaluate(g)
    BY <2>8, MoveEvaluates
  <2>9. CASE MoveAssign(g)
    BY <2>9 DEF MoveAssign, Goto, AfterMove, Assign
  <2>10. CASE LockWanted(g)
    BY <2>10 DEF LockWanted, Goto, LockAnnounce
  <2>11. CASE LockHeld(g)
    BY <2>11 DEF LockHeld, Goto, LockGranted
  <2>12. CASE Recheck(g)
    BY <2>12 DEF Recheck, Goto
  <2>13. CASE Create(g)
    BY <2>13 DEF Create, Goto
  <2>14. CASE CreateFailed(g)
    BY <2>14 DEF CreateFailed, Goto
  <2>15. CASE StoreTooBig(g)
    BY <2>15 DEF StoreTooBig, Goto
  <2>16. CASE StoreReplace(g)
    BY <2>16, NoGoroutineAssumption DEF StoreReplace, Goto, StartMove
  <2>17. CASE StoreNew(g)
    BY <2>17, NoGoroutineAssumption DEF StoreNew, Goto, PushFront
  <2>18. CASE EvictDone(g)
    BY <2>18 DEF EvictDone, Goto
  <2>19. CASE EvictOne(g)
    BY <2>19 DEF EvictOne, Goto, Unlink, EvictPanic
  <2>20. CASE Release(g)
    BY <2>20 DEF Release, Unlock
  <2>21. CASE Return(g)
    BY <2>21 DEF Return, Goto
  <2> QED
    BY <1>2, <2>1, <2>2, <2>3, <2>4, <2>5, <2>6, <2>7, <2>8, <2>9, <2>10, <2>11, <2>12,
       <2>13, <2>14, <2>15, <2>16, <2>17, <2>18, <2>19, <2>20, <2>21
    DEF Call, Step, LoadStep, MoveStep, StoreStep
<1>3. QED
  BY <1>1, <1>2 DEF Next

\* Only the holder of the write lock adds a key: what it found absent stays absent.
LEMMA AbsentStep ==
  ASSUME IInv, AbsentInv, [Next]_vars
  PROVE  AbsentInv'
<1> USE DEF IInv, TypeOK, RWTypeOK, LockInv, AbsentInv, CreateOnlyWhenAbsent, rwVars,
   listVars, dataVars, callVars, moveVars
<1>1. CASE UNCHANGED vars
  BY <1>1 DEF vars
<1>2. ASSUME NEW g \in Goroutines, Call(g) \/ Step(g)
      PROVE  AbsentInv'
  <2>1. ASSUME NEW m \in Methods \ {"store"}, NEW k \in Keys, CallRead(g, m, k)
        PROVE  AbsentInv'
    BY <2>1 DEF CallRead, Goto
  <2>2. ASSUME NEW k \in Keys, NEW v \in Made[k], CallStore(g, k, v)
        PROVE  AbsentInv'
    BY <2>2 DEF CallStore, Goto
  <2>3. CASE LoadLock(g)
    BY <2>3 DEF LoadLock, Goto, RLock
  <2>4. CASE LoadBlocked(g)
    BY <2>4 DEF LoadBlocked, Goto, RLockBlocked
  <2>5. CASE Lookup(g)
    BY <2>5 DEF Lookup, Goto, StartMove
  <2>6. CASE LoadHit(g)
    BY <2>6 DEF LoadHit, Goto, RUnlock
  <2>7. CASE LoadMiss(g)
    BY <2>7 DEF LoadMiss, Goto, RUnlock
  <2>8. CASE MoveEvaluate(g)
    BY <2>8, MoveEvaluates
  <2>9. CASE MoveAssign(g)
    BY <2>9 DEF MoveAssign, Goto, AfterMove, Assign
  <2>10. CASE LockWanted(g)
    BY <2>10 DEF LockWanted, Goto, LockAnnounce
  <2>11. CASE LockHeld(g)
    BY <2>11 DEF LockHeld, Goto, LockGranted
  <2>12. CASE Recheck(g)
    BY <2>12 DEF Recheck, Goto
  <2>13. CASE Create(g)
    BY <2>13 DEF Create, Goto
  <2>14. CASE CreateFailed(g)
    BY <2>14 DEF CreateFailed, Goto
  <2>15. CASE StoreTooBig(g)
    BY <2>15 DEF StoreTooBig, Goto
  <2>16. CASE StoreReplace(g)
    BY <2>16 DEF StoreReplace, Goto, StartMove
  <2>17. CASE StoreNew(g)
    BY <2>17 DEF StoreNew, Goto, PushFront
  <2>18. CASE EvictDone(g)
    BY <2>18 DEF EvictDone, Goto
  <2>19. CASE EvictOne(g)
    BY <2>19 DEF EvictOne, Goto, Unlink, EvictPanic
  <2>20. CASE Release(g)
    BY <2>20 DEF Release, Unlock
  <2>21. CASE Return(g)
    BY <2>21 DEF Return, Goto
  <2> QED
    BY <1>2, <2>1, <2>2, <2>3, <2>4, <2>5, <2>6, <2>7, <2>8, <2>9, <2>10, <2>11, <2>12,
       <2>13, <2>14, <2>15, <2>16, <2>17, <2>18, <2>19, <2>20, <2>21
    DEF Call, Step, LoadStep, MoveStep, StoreStep
<1>3. QED
  BY <1>1, <1>2 DEF Next

\* Neither the loop of evictLeastRecent nor a nil pointer is reached without a limit.
LEMMA PanicStep ==
  ASSUME IInv, PermanentNeverPanics, [Next]_vars
  PROVE  PermanentNeverPanics'
<1> USE DEF IInv, TypeOK, PermanentNeverPanics
<1>1. CASE UNCHANGED vars
  BY <1>1 DEF vars
<1>2. ASSUME NEW g \in Goroutines, Call(g) \/ Step(g)
      PROVE  PermanentNeverPanics'
  <2>1. ASSUME NEW m \in Methods \ {"store"}, NEW k \in Keys, CallRead(g, m, k)
        PROVE  PermanentNeverPanics'
    BY <2>1 DEF CallRead, Goto
  <2>2. ASSUME NEW k \in Keys, NEW v \in Made[k], CallStore(g, k, v)
        PROVE  PermanentNeverPanics'
    BY <2>2 DEF CallStore, Goto
  <2>3. CASE LoadLock(g)
    BY <2>3 DEF LoadLock, Goto, RLock
  <2>4. CASE LoadBlocked(g)
    BY <2>4 DEF LoadBlocked, Goto, RLockBlocked
  <2>5. CASE Lookup(g)
    BY <2>5 DEF Lookup, Goto, StartMove
  <2>6. CASE LoadHit(g)
    BY <2>6 DEF LoadHit, Goto, RUnlock
  <2>7. CASE LoadMiss(g)
    BY <2>7 DEF LoadMiss, Goto, RUnlock
  <2>8. CASE MoveEvaluate(g)
    BY <2>8, MoveEvaluates
  <2>9. CASE MoveAssign(g)
    BY <2>9 DEF MoveAssign, Goto, AfterMove, Assign
  <2>10. CASE LockWanted(g)
    BY <2>10 DEF LockWanted, Goto, LockAnnounce
  <2>11. CASE LockHeld(g)
    BY <2>11 DEF LockHeld, Goto, LockGranted
  <2>12. CASE Recheck(g)
    BY <2>12 DEF Recheck, Goto
  <2>13. CASE Create(g)
    BY <2>13 DEF Create, Goto
  <2>14. CASE CreateFailed(g)
    BY <2>14 DEF CreateFailed, Goto
  <2>15. CASE StoreTooBig(g)
    BY <2>15 DEF StoreTooBig, Goto
  <2>16. CASE StoreReplace(g)
    BY <2>16 DEF StoreReplace, Goto, StartMove
  <2>17. CASE StoreNew(g)
    BY <2>17 DEF StoreNew, Goto, PushFront
  <2>18. CASE EvictDone(g)
    BY <2>18 DEF EvictDone, Goto
  <2>19. CASE EvictOne(g)
    BY <2>19, MaxSizeAssumption DEF EvictOne, OverLimit
  <2>20. CASE Release(g)
    BY <2>20 DEF Release, Unlock
  <2>21. CASE Return(g)
    BY <2>21 DEF Return, Goto
  <2> QED
    BY <1>2, <2>1, <2>2, <2>3, <2>4, <2>5, <2>6, <2>7, <2>8, <2>9, <2>10, <2>11, <2>12,
       <2>13, <2>14, <2>15, <2>16, <2>17, <2>18, <2>19, <2>20, <2>21
    DEF Call, Step, LoadStep, MoveStep, StoreStep
<1>3. QED
  BY <1>1, <1>2 DEF Next

\* Every key with the capacity of what the map holds under it.
Held == [k \in Keys |-> HeldCap(k)]

\* A capacity is a natural number, and nil has none.
LEMMA HeldType ==
  ASSUME TypeOK
  PROVE  Held \in [Keys -> Int]
BY CapAssumption DEF TypeOK, Held, HeldCap

\* When one entry of the map changes, and c.size by the difference of the
\* capacities, c.size still is the sum.
LEMMA EntryChanges ==
  ASSUME TypeOK, SizeAccounts, NEW k \in Keys, NEW v \in Values \cup {Nil},
         value' = [value EXCEPT ![k] = v],
         size' = size + ((IF v = Nil THEN 0 ELSE Cap[v]) - HeldCap(k))
  PROVE  SizeAccounts'
<1> DEFINE c == IF v = Nil THEN 0 ELSE Cap[v]
<1>1. c \in Int
  BY CapAssumption
<1>2. Held' = [Held EXCEPT ![k] = c]
  BY DEF TypeOK, Held, HeldCap
<1>3. SumOver([Held EXCEPT ![k] = c], Keys) = SumOver(Held, Keys) + (c - Held[k])
  BY <1>1, HeldType, KeysAssumption, SumExcept
<1>4. Held[k] = HeldCap(k)
  BY DEF Held
<1>5. size = SumOver(Held, Keys)
  BY DEF SizeAccounts, Held
<1>6. size' = SumOver(Held', Keys)
  BY <1>2, <1>3, <1>4, <1>5
<1>7. QED
  BY <1>6 DEF SizeAccounts, Held

\* store and evictLeastRecent count what they put into the map and take out of
\* it, and nothing else changes the map or c.size.
LEMMA AccountStep ==
  ASSUME IInv, AccountInv, [Next]_vars
  PROVE  AccountInv'
<1> USE DEF AccountInv, dataVars
<1>1. CASE UNCHANGED <<element, value, size>>
  BY <1>1 DEF SizeAccounts, HeldCap
<1>2. ASSUME NEW g \in Goroutines, Call(g) \/ Step(g)
      PROVE  AccountInv'
  <2>1. CASE Call(g) \/ LoadStep(g) \/ Return(g)
    BY <1>1, <2>1 DEF Call, CallRead, CallStore, LoadStep, LoadLock, LoadBlocked, Lookup,
       LoadHit, LoadMiss, Return
  <2>2. CASE MoveStep(g)
    BY <1>1, <2>2 DEF MoveStep, MoveEvaluate, MoveAssign
  <2>3. CASE StoreReplace(g)
    <3>1. key[g] \in Keys /\ val[g] \in Values /\ val[g] # Nil
      BY <2>3, NilAssumption DEF StoreReplace, IInv, CallInv
    <3>2. SizeAccounts'
      BY <2>3, <3>1, EntryChanges DEF StoreReplace, IInv
    <3>3. QED
      BY <2>3, <3>2 DEF StoreReplace, IInv, TypeOK
  <2>4. CASE StoreNew(g)
    <3>1. key[g] \in Keys /\ val[g] \in Values /\ val[g] # Nil
      BY <2>4, NilAssumption DEF StoreNew, IInv, CallInv
    <3>2. PICK n \in Nodes : element' = [element EXCEPT ![key[g]] = n]
      BY <2>4 DEF StoreNew
    <3>3. HeldCap(key[g]) = 0
      BY <2>4, <3>1 DEF StoreNew, HeldCap
    <3>4. Cap[val[g]] \in Int /\ size \in Int
      BY <3>1, CapAssumption DEF IInv, TypeOK
    <3>5. /\ value' = [value EXCEPT ![key[g]] = val[g]]
          /\ size' = size + (Cap[val[g]] - HeldCap(key[g]))
      BY <2>4, <3>3, <3>4 DEF StoreNew
    <3>6. SizeAccounts'
      BY <3>1, <3>5, EntryChanges DEF IInv
    <3>7. n # Nil
      BY NodesAssumption
    <3>8. QED
      BY <3>1, <3>2, <3>5, <3>6, <3>7 DEF IInv, TypeOK
  <2>5. CASE EvictOne(g)
    <3>1. CASE UNCHANGED <<element, value, size>>
      BY <1>1, <3>1
    <3>2. CASE ~UNCHANGED <<element, value, size>>
      <4> DEFINE k == keyOf[Back]
      <4>1. /\ Back \in Nodes
            /\ size' = size - HeldCap(k)
            /\ element' = [element EXCEPT ![k] = Nil]
            /\ value' = [value EXCEPT ![k] = Nil]
        BY <2>5, <3>2 DEF EvictOne, EvictPanic
      <4>2. k \in Keys
        BY <4>1, NodesAssumption DEF IInv, PointerInv, Known, Back
      <4> HIDE DEF k
      <4>3. HeldCap(k) \in Int /\ size \in Int
        BY <4>2, HeldType DEF IInv, TypeOK, Held
      <4>4. size' = size + (0 - HeldCap(k))
        BY <4>1, <4>3
      <4>5. SizeAccounts'
        BY <4>1, <4>2, <4>4, EntryChanges DEF IInv
      <4>6. QED
        BY <4>1, <4>2, <4>5 DEF IInv, TypeOK
    <3>3. QED
      BY <3>1, <3>2
  <2>6. CASE StoreStep(g) /\ ~StoreReplace(g) /\ ~StoreNew(g) /\ ~EvictOne(g)
    BY <1>1, <2>6 DEF StoreStep, LockWanted, LockHeld, Recheck, Create, CreateFailed,
       StoreTooBig, EvictDone, Release
  <2>7. QED
    BY <1>2, <2>1, <2>2, <2>3, <2>4, <2>5, <2>6 DEF Step
<1>3. QED
  BY <1>1, <1>2 DEF Next, vars

-----------------------------------------------------------------------------
(* The invariant holds *)

\* NewCache satisfies every part of the invariant.
LEMMA Initially == Init => IInv /\ SizeInv /\ AbsentInv /\ PermanentNeverPanics
<1> SUFFICES ASSUME Init PROVE IInv /\ SizeInv /\ AbsentInv /\ PermanentNeverPanics
  OBVIOUS
<1> USE DEF Init, RWInit, ListInit
<1>1. NoAssignment \in Assignment
  BY DEF NoAssignment, Assignment, Pointer
<1>2. TypeOK
  <2>1. RWTypeOK
    BY DEF RWTypeOK
  <2>2. ListTypeOK
    BY DEF ListTypeOK, Address, Pointer
  <2>3. pc \in [Goroutines -> Locations] /\ stmt \in [Goroutines -> 0 .. MoveLength]
    BY DEF Locations, MoveLength
  <2>4. element \in [Keys -> Nodes \cup {Nil}] /\ value \in [Keys -> Values \cup {Nil}]
    OBVIOUS
  <2>5. size \in Int /\ keyOf \in [Nodes -> Keys \cup {Nil}]
    OBVIOUS
  <2>6. /\ op \in [Goroutines -> {"none", "get", "load", "store"}]
        /\ ret \in [Goroutines -> {"none", "ok", "miss", "error", "panic"}]
    OBVIOUS
  <2>7. key \in [Goroutines -> Keys \cup {Nil}] /\ val \in [Goroutines -> Values \cup {Nil}]
    OBVIOUS
  <2>8. store \in [Goroutines -> Assignment] /\ panicked \in BOOLEAN
    BY <1>1
  <2> QED
    BY <2>1, <2>2, <2>3, <2>4, <2>5, <2>6, <2>7, <2>8, Zenon DEF TypeOK
<1>3. LockInv
  BY DEF LockInv
<1>4. PointerInv
  BY DEF PointerInv, Known, Address
<1>5. CallInv /\ AbsentInv /\ CreateOnlyWhenAbsent
  BY DEF CallInv, AbsentInv, CreateOnlyWhenAbsent
<1>6. SizeInv /\ PermanentNeverPanics
  BY MaxSizeAssumption DEF SizeInv, OverLimit, PermanentNeverPanics
<1>7. QED
  BY <1>2, <1>3, <1>4, <1>5, <1>6 DEF IInv

\* The lock, the pointers and what each goroutine carries are always as IInv says.
LEMMA Invariance == Spec => []IInv
<1>1. Init => IInv
  BY Initially
<1>2. IInv /\ [Next]_vars => IInv'
  BY LockStep, TypeStep, PointerStep, CallStep DEF IInv
<1>3. QED
  BY <1>1, <1>2, PTL DEF Spec

\* So is c.size as long as nobody has panicked.
LEMMA SizeInvariance == Spec => []SizeInv
<1>1. Init => SizeInv
  BY Initially
<1>2. IInv /\ SizeInv /\ [Next]_vars => SizeInv'
  BY SizeStep
<1>3. QED
  BY <1>1, <1>2, Invariance, PTL DEF Spec

\* So is the sum that c.size is compared with.
LEMMA AccountInvariance == Spec => []AccountInv
<1>1. Init => AccountInv
  <2> SUFFICES ASSUME Init PROVE AccountInv
    OBVIOUS
  <2>1. \A k \in Keys : Held[k] = 0
    BY DEF Init, Held, HeldCap
  <2>2. SumOver(Held, Keys) = 0
    BY <2>1, KeysAssumption, SumOfNoughts
  <2>3. size = SumOver(Held, Keys)
    BY <2>2 DEF Init
  <2>4. SizeAccounts
    BY <2>3 DEF SizeAccounts, Held
  <2>5. QED
    BY <2>4 DEF Init, AccountInv
<1>2. IInv /\ AccountInv /\ [Next]_vars => AccountInv'
  BY AccountStep
<1>3. QED
  BY <1>1, <1>2, Invariance, PTL DEF Spec

-----------------------------------------------------------------------------
(* Theorems *)

\* The variables of the cache, of its list and of its lock keep their types: a
\* racing MoveToFront writes no pointer but to a field of an element.
THEOREM TypeCorrect == Spec => []TypeOK
<1>1. IInv => TypeOK
  BY DEF IInv
<1>2. QED
  BY <1>1, Invariance, PTL

\* Nobody finds a limited cache above its limit before some call has panicked:
\* the race of MoveToFront does no other harm to the limit.
THEOREM BoundedUnlessPanic == Spec => []MemoryBoundUnlessPanic
<1>1. IInv /\ SizeInv => MemoryBoundUnlessPanic
  BY MaxSizeAssumption DEF IInv, TypeOK, RWTypeOK, SizeInv, OverLimit,
     MemoryBoundUnlessPanic, MemoryBound, SizeReadable
<1>2. QED
  BY <1>1, Invariance, SizeInvariance, PTL

\* No creator runs for a key that is in the cache, for any number of goroutines
\* that missed it together.
THEOREM CreatedOnlyWhenAbsent == Spec => []CreateOnlyWhenAbsent
<1>1. Init => AbsentInv
  BY Initially
<1>2. IInv /\ AbsentInv /\ [Next]_vars => AbsentInv'
  BY AbsentStep
<1>3. AbsentInv => CreateOnlyWhenAbsent
  BY DEF AbsentInv
<1>4. QED
  BY <1>1, <1>2, <1>3, Invariance, PTL DEF Spec

\* MoveToFront never assigns to a field of a nil node: however many lookups move
\* elements at once, a lookup that finds its key returns its value.
MoveNeverPanics ==
  \A g \in Goroutines : pc[g] = "move" =>
    \A a \in MoveAssignments(stmt[g], element[key[g]]) : a.node # Nil

\* The race of MoveToFront never makes MoveToFront itself panic (cache.go:44).
THEOREM MovesAreSafe == Spec => []MoveNeverPanics
<1>1. IInv => MoveNeverPanics
  <2> SUFFICES ASSUME IInv, NEW g \in Goroutines, pc[g] = "move",
                      NEW a \in MoveAssignments(stmt[g], element[key[g]])
               PROVE  a.node # Nil
    BY DEF MoveNeverPanics
  <2>1. element[key[g]] \in linked /\ stmt[g] \in 1 .. MoveLength
    BY DEF IInv, CallInv, PointerInv
  <2>2. a.node \in Known
    BY <2>1, MoveOperands DEF IInv
  <2> QED
    BY <2>2, NodesAssumption DEF Known
<1>2. QED
  BY <1>1, Invariance, PTL

\* The permanent cache never panics: its list may be corrupted, but no race
\* makes a pointer nil, and nothing is ever evicted.
THEOREM PermanentIsSafe == Spec => []PermanentNeverPanics
<1>1. Init => PermanentNeverPanics
  BY Initially
<1>2. IInv /\ PermanentNeverPanics /\ [Next]_vars => PermanentNeverPanics'
  BY PanicStep
<1>3. QED
  BY <1>1, <1>2, Invariance, PTL DEF Spec

\* The permanent cache keeps every key it holds, with its value.
THEOREM PermanentIsKept == Spec => PermanentKeeps
<1> DEFINE Kept ==
      MaxSize <= 0 /\ Methods = {"get"} =>
        \A k \in Keys : element[k] # Nil => element'[k] = element[k] /\ value'[k] = value[k]
<1>1. Init => AbsentInv
  BY Initially
<1>2. IInv /\ AbsentInv /\ [Next]_vars => AbsentInv'
  BY AbsentStep
<1>3. IInv /\ AbsentInv /\ [Next]_vars => [Kept]_vars
  <2> SUFFICES ASSUME IInv, AbsentInv, MaxSize <= 0, Methods = {"get"},
                      NEW k \in Keys, element[k] # Nil,
                      NEW g \in Goroutines, Call(g) \/ Step(g)
               PROVE  element'[k] = element[k] /\ value'[k] = value[k]
    BY DEF Next
  <2> USE DEF dataVars
  <2>1. CASE Call(g) \/ LoadStep(g) \/ Return(g)
    BY <2>1 DEF Call, CallRead, CallStore, LoadStep, LoadLock, LoadBlocked, Lookup,
       LoadHit, LoadMiss, Return
  <2>2. CASE MoveStep(g)
    BY <2>2 DEF MoveStep, MoveEvaluate, MoveAssign
  <2>3. CASE StoreReplace(g)
    BY <2>3 DEF StoreReplace, AbsentInv
  <2>4. CASE StoreNew(g)
    <3>1. PICK n \in Nodes : element' = [element EXCEPT ![key[g]] = n]
      BY <2>4 DEF StoreNew
    <3>2. element[key[g]] = Nil /\ value' = [value EXCEPT ![key[g]] = val[g]]
      BY <2>4 DEF StoreNew
    <3> QED
      BY <3>1, <3>2 DEF IInv, TypeOK
  <2>5. CASE EvictOne(g)
    BY <2>5, MaxSizeAssumption DEF EvictOne, OverLimit
  <2>6. CASE StoreStep(g) /\ ~StoreReplace(g) /\ ~StoreNew(g) /\ ~EvictOne(g)
    BY <2>6 DEF StoreStep, LockWanted, LockHeld, Recheck, Create, CreateFailed, StoreTooBig,
       EvictDone, Release
  <2> QED
    BY <2>1, <2>2, <2>3, <2>4, <2>5, <2>6 DEF Step
<1>4. QED
  BY <1>1, <1>2, <1>3, Invariance, PTL DEF Spec, PermanentKeeps

\* Whatever the interleaving, and also once a call has panicked, c.size is the
\* capacity of what the map holds: the limit is compared with the right number.
THEOREM SizeIsAccounted == Spec => []SizeAccounts
<1>1. AccountInv => SizeAccounts
  BY DEF AccountInv
<1>2. QED
  BY <1>1, AccountInvariance, PTL

=============================================================================
