------------------------------ MODULE RWMutex ------------------------------
(***************************************************************************)
(* Go's sync.RWMutex, as internal/ath/cache.go uses it: the lock `mx` of an *)
(* lruCache.  Any number of goroutines share the read side; the write side  *)
(* is exclusive.  A writer that has called Lock keeps new readers out while *)
(* it waits for the current ones, and the readers it kept out all enter     *)
(* when it calls Unlock.                                                    *)
(***************************************************************************)
CONSTANTS
  Goroutines,   \* the goroutines that share the lock
  NoGoroutine   \* the owner of a lock nobody wants to write under

ASSUME NoGoroutineAssumption == NoGoroutine \notin Goroutines

VARIABLES
  readers,   \* the goroutines that hold the read side
  waiting,   \* the goroutines that a writer keeps out of the read side
  writer     \* the goroutine that holds the write side or waits for it

rwVars == <<readers, waiting, writer>>

RWTypeOK ==
  /\ readers \in SUBSET Goroutines
  /\ waiting \in SUBSET Goroutines
  /\ writer \in Goroutines \cup {NoGoroutine}

RWInit ==
  /\ readers = {}
  /\ waiting = {}
  /\ writer = NoGoroutine

-----------------------------------------------------------------------------
\* RLock that succeeds at once: no writer holds the lock or waits for it.
RLock(g) ==
  /\ writer = NoGoroutine
  /\ readers' = readers \cup {g}
  /\ UNCHANGED <<waiting, writer>>

\* RLock that blocks behind a writer: the matching Unlock lets g in.
RLockBlocked(g) ==
  /\ writer # NoGoroutine
  /\ waiting' = waiting \cup {g}
  /\ UNCHANGED <<readers, writer>>

RUnlock(g) ==
  /\ readers' = readers \ {g}
  /\ UNCHANGED <<waiting, writer>>

\* The first half of Lock: g becomes the writer, and new readers block.
LockAnnounce(g) ==
  /\ writer = NoGoroutine
  /\ writer' = g
  /\ UNCHANGED <<readers, waiting>>

\* The second half of Lock returns once the readers g found have all left.
LockGranted(g) ==
  /\ writer = g
  /\ readers = {}

Unlock(g) ==
  /\ writer' = NoGoroutine
  /\ readers' = readers \cup waiting
  /\ waiting' = {}

=============================================================================
