---------------------------- MODULE StartupProofs ----------------------------
(***************************************************************************)
(* Proofs about Startup, for any number of routes of any sizes, and any     *)
(* terminal of two rows or more.                                            *)
(***************************************************************************)
EXTENDS Startup, SumsProofs, TLAPS

-----------------------------------------------------------------------------
(* The inductive invariants *)

\* The goroutines that the WaitGroup waits for.
Working == {i \in 1 .. N : worker[i] \notin {"none", "done"}}

\* What each route has added to the total.
Added == [i \in 1 .. N |-> IF worker[i] \in {"none", "precache", "add"} THEN 0 ELSE count[i]]

\* The loop of printRoutes starts the goroutines in order, and ends after the last.
LoopInv ==
  /\ main \in {"flags", "logger", "telemetry", "build", "spawn"} => printer = "none"
  /\ printer = "none" => next = 1
  /\ printer \in {"wait", "done"} => next = N + 1
  /\ \A i \in 1 .. N : worker[i] = "none" <=> next <= i

\* On a terminal, the mutex is with the loop or with the goroutine that is at its
\* line.
MutexInv ==
  /\ tty /\ printer = "loop" => mx = 0
  /\ \A i \in 1 .. N :
       /\ worker[i] \in {"lock", "update", "unlock"} => tty
       /\ worker[i] \in {"update", "unlock"} => mx = i

\* The counters are those of the goroutines that work and of those that have added.
CountInv ==
  /\ wg = Cardinality(Working)
  /\ total = SumOver(Added, 1 .. N)
  /\ printer = "done" => \A i \in 1 .. N : worker[i] = "done"

\* The row that line l of the report has when the cursor first comes to it.
RowOf(l) == IF first + l - 1 < rows THEN first + l - 1 ELSE rows

\* The last route has been printed again, with room below: the cursor is a line too low.
Slipped == tty /\ first + N < rows /\ N # 0 /\ worker[N] \in {"unlock", "done"}

\* The cursor is where the next line belongs, or one line below.
CursorInv ==
  printer # "done" => cursor = IF Slipped THEN At(N + 2, first + N + 1) ELSE At(next, RowOf(next))

\* What a line may show.
LineInv(l) ==
  LET shown == screen[l] IN
  shown.route # 0 =>
    /\ shown.size # -1 =>
         /\ tty /\ worker[shown.route] \in {"unlock", "done"}
         /\ shown.size = count[shown.route]
    /\ N < rows => shown.route \in {l - 1, l}
    /\ Undisturbed => shown.route = l

\* The lines that were listed show routes, the others nothing but the total; if nothing
\* can disturb the cursor, a line has its size once the goroutine has been there.
ScreenInv ==
  /\ \A l \in Lines : LineInv(l)
  /\ \A l \in Lines : l < next => screen[l].route \in 1 .. l
  /\ printer # "done" => \A l \in Lines : l >= next => screen[l] = Blank
  /\ printer = "done" =>
       \E l \in {N + 1, N + 2} :
         screen[l] = TotalLine(total) /\ \A k \in {N + 1, N + 2} \ {l} : screen[k] = Blank
  /\ tty /\ Steady =>
       \A i \in 1 .. N : worker[i] \in {"unlock", "done"} =>
         screen[i] = [route |-> i, size |-> count[i]]

\* Execute shuts the exporter when it returns, and main exits only after that.
ExporterInv ==
  provider =>
    /\ main = "returned" => exporter = "shut"
    /\ main = "exited" => exporter = "shut" \/ status = "panic"

-----------------------------------------------------------------------------
(* What the steps change *)

\* Where Execute is before it starts printRoutes.
Before == {"flags", "logger", "telemetry", "build", "spawn"}
Places == Before \cup {"listen", "serve", "returned", "exited"}

\* Of the steps of Execute, only the one that starts printRoutes touches the report.
LEMMA ExecuteAside ==
  ASSUME TypeOK, ParseFlags \/ SetLogger \/ SetTelemetry \/ Build \/ Listen \/ ServeFails \/ Exit
  PROVE  /\ UNCHANGED <<tty, rows, first, endpoint, printer, next, worker, count, mx, wg, total, screen, cursor>>
         /\ main' \in Places
         /\ main' \in Before => main \in Before
         /\ status' \in {"none", "ok", "error", "panic"}
         /\ exporter' \in {"none", "open", "shut"}
         /\ provider' \in BOOLEAN
<1> USE DEF TypeOK, Proceed, Return, Before, Places, envVars, printVars, screenVars
<1>1. CASE ParseFlags
  BY <1>1 DEF ParseFlags
<1>2. CASE SetLogger
  BY <1>2 DEF SetLogger
<1>3. CASE SetTelemetry
  BY <1>3 DEF SetTelemetry
<1>4. CASE Build
  BY <1>4 DEF Build
<1>5. CASE Listen
  BY <1>5 DEF Listen
<1>6. CASE ServeFails
  BY <1>6 DEF ServeFails
<1>7. CASE Exit
  BY <1>7 DEF Exit
<1>8. QED
  BY <1>1, <1>2, <1>3, <1>4, <1>5, <1>6, <1>7

\* printRoutes is started with the mutex if it prints on a terminal.
LEMMA SpawnStarts ==
  ASSUME TypeOK, Spawn
  PROVE  /\ main = "spawn" /\ main' = "listen" /\ printer' = "loop"
         /\ mx' = IF tty THEN 0 ELSE Free
         /\ UNCHANGED <<tty, rows, first, endpoint, status, exporter, provider,
                        next, worker, count, wg, total, screen, cursor>>
BY DEF Spawn, Proceed, envVars, screenVars

\* A set of routes is finite and not larger than the number of routes.
LEMMA SetOfRoutes ==
  ASSUME NEW W \in SUBSET (1 .. N)
  PROVE  IsFiniteSet(W) /\ Cardinality(W) \in 0 .. N
<1>1. IsFiniteSet(1 .. N) /\ Cardinality(1 .. N) = N
  BY NAssumption, FS_Interval
<1>2. IsFiniteSet(W) /\ Cardinality(W) <= Cardinality(1 .. N)
  BY <1>1, FS_Subset
<1>3. Cardinality(W) \in Nat
  BY <1>2, FS_CardinalityType
<1>4. QED
  BY <1>1, <1>2, <1>3

-----------------------------------------------------------------------------
(* Each step preserves each part *)

\* The goroutines are started one after the other, and none before printRoutes.
LEMMA LoopStep ==
  ASSUME TypeOK, LoopInv, [Next]_vars
  PROVE  LoopInv'
<1> USE NAssumption DEF TypeOK, LoopInv
<1>1. CASE UNCHANGED vars
  BY <1>1 DEF vars, envVars, mainVars, printVars
<1>2. CASE Spawn
  BY <1>2, SpawnStarts DEF Before
<1>3. CASE ParseFlags \/ SetLogger \/ SetTelemetry \/ Build \/ Listen \/ ServeFails \/ Exit
  BY <1>3, ExecuteAside DEF Before
<1>4. CASE PrintLine
  <2>1. /\ printer = "loop" /\ next \in 1 .. N /\ next' = next + 1
        /\ worker' = [worker EXCEPT ![next] = "precache"]
        /\ UNCHANGED <<main, printer>>
    BY <1>4 DEF PrintLine, mainVars
  <2>2. \A i \in 1 .. N : worker'[i] = "none" <=> next' <= i
    BY <2>1
  <2>3. QED
    BY <2>1, <2>2
<1>5. CASE LoopEnds
  BY <1>5 DEF LoopEnds, mainVars
<1>6. CASE PrintTotal
  BY <1>6 DEF PrintTotal, mainVars
<1>7. ASSUME NEW i \in 1 .. N, Worker(i) PROVE LoopInv'
  <2>1. UNCHANGED <<printer, next>> /\ main' \in {main, "exited"}
    BY <1>7 DEF Worker, PreCache, PreCachePanics, AddTotal, Done, LockScreen, UpdateLine,
                UnlockScreen, mainVars, printVars
  <2>2. \/ UNCHANGED worker
        \/ /\ worker[i] # "none"
           /\ \E w \in {"add", "lock", "update", "unlock", "done"} :
                worker' = [worker EXCEPT ![i] = w]
    BY <1>7 DEF Worker, PreCache, PreCachePanics, AddTotal, Done, LockScreen, UpdateLine,
                UnlockScreen, printVars
  <2>3. \A j \in 1 .. N : worker'[j] = "none" <=> worker[j] = "none"
    BY <2>2
  <2>4. QED
    BY <2>1, <2>3
<1>8. QED
  BY <1>1, <1>2, <1>3, <1>4, <1>5, <1>6, <1>7 DEF Next, Execute, Starts, Printer

\* Nobody takes the mutex while somebody has it.
LEMMA MutexStep ==
  ASSUME TypeOK, LoopInv, MutexInv, [Next]_vars
  PROVE  MutexInv'
<1> USE NAssumption DEF TypeOK, LoopInv, MutexInv
<1>1. CASE UNCHANGED vars
  BY <1>1 DEF vars, envVars, mainVars, printVars
<1>2. CASE Spawn
  <2>1. next = 1
    BY <1>2, SpawnStarts
  <2>2. \A i \in 1 .. N : worker[i] = "none"
    BY <2>1
  <2>3. QED
    BY <1>2, <2>2, SpawnStarts
<1>3. CASE ParseFlags \/ SetLogger \/ SetTelemetry \/ Build \/ Listen \/ ServeFails \/ Exit
  BY <1>3, ExecuteAside
<1>4. CASE PrintLine
  BY <1>4 DEF PrintLine, mainVars, envVars
<1>5. CASE LoopEnds
  BY <1>5 DEF LoopEnds, mainVars, envVars
<1>6. CASE PrintTotal
  BY <1>6 DEF PrintTotal, mainVars, envVars
<1>7. ASSUME NEW i \in 1 .. N, Worker(i) PROVE MutexInv'
  <2>1. CASE PreCache(i)
    BY <2>1 DEF PreCache, mainVars, envVars
  <2>2. CASE PreCachePanics(i)
    BY <2>2 DEF PreCachePanics, printVars, envVars
  <2>3. CASE AddTotal(i)
    BY <2>3 DEF AddTotal, Done, mainVars, envVars
  <2>4. CASE LockScreen(i)
    BY <2>4 DEF LockScreen, mainVars, envVars, Free
  <2>5. CASE UpdateLine(i)
    BY <2>5 DEF UpdateLine, mainVars, envVars
  <2>6. CASE UnlockScreen(i)
    <3>1. mx = i /\ i # 0 /\ tty
      BY <2>6 DEF UnlockScreen
    <3>2. printer # "loop"
      BY <3>1
    <3>3. \A j \in 1 .. N : worker[j] \in {"update", "unlock"} => j = i
      BY <3>1
    <3>4. worker' = [worker EXCEPT ![i] = "done"] /\ UNCHANGED <<tty, printer>>
      BY <2>6 DEF UnlockScreen, Done, envVars
    <3>5. QED
      BY <3>2, <3>3, <3>4
  <2>7. QED
    BY <1>7, <2>1, <2>2, <2>3, <2>4, <2>5, <2>6 DEF Worker
<1>8. QED
  BY <1>1, <1>2, <1>3, <1>4, <1>5, <1>6, <1>7 DEF Next, Execute, Starts, Printer

\* Two functions that differ at one place, and there by the value given, are an
\* update of one another.
LEMMA UpdateIs ==
  ASSUME NEW S, NEW i \in S, NEW v, NEW f, NEW g,
         f = [j \in S |-> f[j]], g = [j \in S |-> g[j]],
         g[i] = v, \A j \in S \ {i} : g[j] = f[j]
  PROVE  g = [f EXCEPT ![i] = v]
<1> DEFINE h == [f EXCEPT ![i] = v]
<1>1. h = [j \in S |-> h[j]]
  OBVIOUS
<1>2. \A j \in S : h[j] = g[j]
  OBVIOUS
<1> HIDE DEF h
<1>3. h = g
  BY <1>1, <1>2
<1>4. QED
  BY <1>3 DEF h

\* What a step changes of the numbers that are counted.
LEMMA CountStep ==
  ASSUME TypeOK, LoopInv, CountInv, [Next]_vars
  PROVE  CountInv'
<1>0. IsFiniteSet(Working) /\ Cardinality(Working) \in Nat
  <2>1. Working \in SUBSET (1 .. N)
    BY DEF Working
  <2>2. QED
    BY <2>1, NAssumption, SetOfRoutes
<1> USE NAssumption DEF TypeOK, CountInv
<1>1. ASSUME UNCHANGED <<printer, worker, count, wg, total>> PROVE CountInv'
  <2>1. Working' = Working /\ Added' = Added
    BY <1>1 DEF Working, Added
  <2>2. QED
    BY <1>1, <2>1
<1>2. CASE UNCHANGED vars
  BY <1>1, <1>2 DEF vars, printVars
<1>3. CASE Spawn
  <2>1. /\ UNCHANGED <<worker, count, wg, total>>
        /\ printer' = "loop"
    BY <1>3, SpawnStarts
  <2>2. Working' = Working /\ Added' = Added
    BY <2>1 DEF Working, Added
  <2>3. QED
    BY <2>1, <2>2
<1>4. CASE ParseFlags \/ SetLogger \/ SetTelemetry \/ Build \/ Listen \/ ServeFails \/ Exit
  BY <1>1, <1>4, ExecuteAside
<1>5. CASE PrintLine
  <2>1. /\ printer' = "loop" /\ next \in 1 .. N
        /\ worker' = [worker EXCEPT ![next] = "precache"]
        /\ wg' = wg + 1
        /\ UNCHANGED <<count, total>>
    BY <1>5 DEF PrintLine
  <2>2. worker[next] = "none"
    BY <2>1 DEF LoopInv
  <2>3. Working' = Working \cup {next} /\ next \notin Working
    BY <2>1, <2>2 DEF Working
  <2>4. Added' = Added
    BY <2>1, <2>2 DEF Added
  <2>5. Cardinality(Working') = Cardinality(Working) + 1
    BY <1>0, <2>3, FS_AddElement
  <2>6. QED
    BY <2>1, <2>4, <2>5
<1>6. CASE LoopEnds
  <2>1. printer' = "wait" /\ UNCHANGED <<worker, count, wg, total>>
    BY <1>6 DEF LoopEnds
  <2>2. Working' = Working /\ Added' = Added
    BY <2>1 DEF Working, Added
  <2>3. QED
    BY <2>1, <2>2
<1>7. CASE PrintTotal
  <2>1. /\ printer = "wait" /\ wg = 0 /\ printer' = "done"
        /\ UNCHANGED <<worker, count, wg, total>>
    BY <1>7 DEF PrintTotal
  <2>2. Working' = Working /\ Added' = Added
    BY <2>1 DEF Working, Added
  <2>3. Working = {}
    BY <2>1, SetOfRoutes, FS_EmptySet DEF Working
  <2>4. \A i \in 1 .. N : worker[i] # "none"
    BY <2>1 DEF LoopInv
  <2>5. \A i \in 1 .. N : worker[i] = "done"
    BY <2>3, <2>4 DEF Working
  <2>6. QED
    BY <2>1, <2>2, <2>5
<1>8. ASSUME NEW i \in 1 .. N, Worker(i) PROVE CountInv'
  <2>1. CASE PreCache(i)
    <3>1. /\ worker[i] = "precache"
          /\ worker' = [worker EXCEPT ![i] = "add"]
          /\ UNCHANGED <<printer, wg, total>>
          /\ \A j \in 1 .. N \ {i} : count'[j] = count[j]
      BY <2>1 DEF PreCache
    <3>2. Working' = Working /\ Added' = Added
      BY <3>1 DEF Working, Added
    <3>3. printer # "done"
      BY <3>1
    <3>4. QED
      BY <3>1, <3>2, <3>3
  <2>2. CASE PreCachePanics(i)
    BY <1>1, <2>2 DEF PreCachePanics, printVars
  <2>3. CASE AddTotal(i)
    <3>1. /\ worker[i] = "add" /\ total' = total + count[i]
          /\ UNCHANGED <<printer, count>>
      BY <2>3 DEF AddTotal
    <3>2. \/ worker' = [worker EXCEPT ![i] = "lock"] /\ wg' = wg
          \/ worker' = [worker EXCEPT ![i] = "done"] /\ wg' = wg - 1
      BY <2>3 DEF AddTotal, Done
    <3>3. Added \in [1 .. N -> Int] /\ Added[i] = 0 /\ count[i] \in Int
      BY <3>1 DEF Added
    <3>4. total' = SumOver(Added', 1 .. N)
      <4>1. Added' = [Added EXCEPT ![i] = count[i]]
        <5>1. Added'[i] = count[i] /\ \A j \in 1 .. N \ {i} : Added'[j] = Added[j]
          BY <3>1, <3>2 DEF Added
        <5>2. Added' = [j \in 1 .. N |-> Added'[j]] /\ Added = [j \in 1 .. N |-> Added[j]]
          BY DEF Added
        <5> DEFINE a == Added
        <5> DEFINE b == Added'
        <5>3. /\ b = [j \in 1 .. N |-> b[j]] /\ a = [j \in 1 .. N |-> a[j]]
              /\ b[i] = count[i] /\ \A j \in 1 .. N \ {i} : b[j] = a[j]
          BY <5>1, <5>2
        <5> HIDE DEF TypeOK, CountInv, a, b
        <5>4. b = [a EXCEPT ![i] = count[i]]
          BY <5>3, UpdateIs
        <5>5. QED
          BY <5>4 DEF a, b
      <4>2. IsFiniteSet(1 .. N)
        BY SetOfRoutes
      <4> HIDE DEF TypeOK, CountInv
      <4>3. SumOver([Added EXCEPT ![i] = count[i]], 1 .. N) = SumOver(Added, 1 .. N) + (count[i] - Added[i])
        BY <3>3, <4>2, SumExcept
      <4>4. QED
        BY <3>1, <3>3, <4>1, <4>3 DEF CountInv
    <3>5. wg' = Cardinality(Working')
      <4>1. i \in Working
        BY <3>1 DEF Working
      <4>2. CASE worker' = [worker EXCEPT ![i] = "lock"] /\ wg' = wg
        <5>1. Working' = Working
          BY <3>1, <4>2 DEF Working
        <5>2. QED
          BY <4>2, <5>1
      <4>3. CASE worker' = [worker EXCEPT ![i] = "done"] /\ wg' = wg - 1
        <5>1. Working' = Working \ {i}
          BY <4>3 DEF Working
        <5>2. Cardinality(Working') = Cardinality(Working) - 1
          BY <1>0, <4>1, <5>1, FS_RemoveElement
        <5>3. QED
          BY <4>3, <5>2
      <4>4. QED
        BY <3>2, <4>2, <4>3
    <3>6. printer # "done"
      BY <3>1
    <3>7. QED
      BY <3>1, <3>4, <3>5, <3>6
  <2>4. CASE LockScreen(i) \/ UpdateLine(i)
    <3>1. /\ worker[i] \in {"lock", "update"}
          /\ worker' \in {[worker EXCEPT ![i] = "update"], [worker EXCEPT ![i] = "unlock"]}
          /\ UNCHANGED <<printer, count, wg, total>>
      BY <2>4 DEF LockScreen, UpdateLine
    <3>2. Working' = Working /\ Added' = Added
      BY <3>1 DEF Working, Added
    <3>3. printer # "done"
      BY <3>1
    <3>4. QED
      BY <3>1, <3>2, <3>3
  <2>5. CASE UnlockScreen(i)
    <3>1. /\ worker[i] = "unlock"
          /\ worker' = [worker EXCEPT ![i] = "done"]
          /\ wg' = wg - 1
          /\ UNCHANGED <<printer, count, total>>
      BY <2>5 DEF UnlockScreen, Done
    <3>2. Working' = Working \ {i} /\ i \in Working
      BY <3>1 DEF Working
    <3>3. Added' = Added
      BY <3>1 DEF Added
    <3>4. Cardinality(Working') = Cardinality(Working) - 1
      BY <1>0, <3>2, FS_RemoveElement
    <3>5. printer # "done"
      BY <3>1
    <3>6. QED
      BY <3>1, <3>3, <3>4, <3>5
  <2>6. QED
    BY <1>8, <2>1, <2>2, <2>3, <2>4, <2>5 DEF Worker
<1>9. QED
  BY <1>2, <1>3, <1>4, <1>5, <1>6, <1>7, <1>8 DEF Next, Execute, Starts, Printer

\* The goroutine of a route prints when all lines are there, and the report goes on.
LEMMA UpdateWaits ==
  ASSUME TypeOK, LoopInv, MutexInv, CountInv, NEW i \in 1 .. N, UpdateLine(i)
  PROVE  tty /\ next = N + 1 /\ printer = "wait"
<1>1. tty /\ mx = i /\ i # 0
  BY DEF UpdateLine, MutexInv
<1>2. printer # "loop"
  BY <1>1 DEF MutexInv
<1>3. ~(next <= i)
  BY DEF UpdateLine, LoopInv
<1>4. next = N + 1
  BY <1>2, <1>3 DEF LoopInv, TypeOK
<1>5. printer # "done"
  BY DEF UpdateLine, CountInv
<1>6. printer # "none"
  BY <1>4, NAssumption DEF LoopInv
<1>7. QED
  BY <1>1, <1>2, <1>4, <1>5, <1>6 DEF TypeOK

\* It moves up to the line of its route, to the one below if the cursor has slipped, or
\* to the first one that the window still shows; and back, or one line too far.
LEMMA UpdateMoves ==
  ASSUME TypeOK, CursorInv, next = N + 1, tty, printer = "wait", NEW i \in 1 .. N,
         worker[i] = "update"
  PROVE  LET there == Up(cursor, N - i + 1) IN
         /\ there.line \in i .. N
         /\ N < rows => there.line \in {i, i + 1}
         /\ Steady \/ (N < rows /\ worker[N] \notin {"unlock", "done"} /\ i # N) => there.line = i
         /\ N < rows /\ i = N => there.line = i
         /\ Down(NewLine(there, rows), N - i, rows) =
              IF Slipped \/ (i = N /\ first + N < rows)
              THEN At(N + 2, first + N + 1) ELSE At(N + 1, RowOf(N + 1))
<1>1. /\ N \in Nat /\ N >= 1 /\ i \in Nat /\ 1 <= i /\ i <= N
      /\ rows \in Nat /\ rows >= 2 /\ first \in Nat /\ 1 <= first /\ first <= rows
  BY NAssumption, HeightsAssumption DEF TypeOK
<1>2. Slipped => i # N
  BY DEF Slipped
<1>3. cursor = IF Slipped THEN At(N + 2, first + N + 1) ELSE At(N + 1, RowOf(N + 1))
  BY DEF CursorInv
<1> USE <1>1 DEF Up, Down, NewLine, Moves, At
<1>4. CASE Slipped
  <2>1. first + N < rows /\ i < N /\ cursor = At(N + 2, first + N + 1) /\ worker[N] \in {"unlock", "done"}
    BY <1>2, <1>3, <1>4 DEF Slipped
  <2>2. Up(cursor, N - i + 1) = At(i + 1, first + i)
    BY <2>1
  <2>3. Down(NewLine(At(i + 1, first + i), rows), N - i, rows) = At(N + 2, first + N + 1)
    BY <2>1
  <2>4. QED
    BY <1>4, <2>1, <2>2, <2>3 DEF Steady
<1>5. CASE ~Slipped /\ N < rows
  <2>1. cursor = At(N + 1, RowOf(N + 1))
    BY <1>3, <1>5
  <2>2. Up(cursor, N - i + 1) = At(i, RowOf(N + 1) - (N - i + 1)) /\ RowOf(N + 1) - (N - i + 1) >= 1
    BY <1>5, <2>1 DEF RowOf
  <2>3. CASE i < N \/ first + N >= rows
    <3>1. Down(NewLine(At(i, RowOf(N + 1) - (N - i + 1)), rows), N - i, rows) = At(N + 1, RowOf(N + 1))
      BY <1>5, <2>3 DEF RowOf
    <3>2. QED
      BY <1>5, <2>2, <2>3, <3>1
  <2>4. CASE i = N /\ first + N < rows
    <3>1. Down(NewLine(At(i, RowOf(N + 1) - (N - i + 1)), rows), N - i, rows) = At(N + 2, first + N + 1)
      BY <1>5, <2>4 DEF RowOf
    <3>2. QED
      BY <1>5, <2>2, <2>4, <3>1
  <2>5. QED
    BY <2>3, <2>4
<1>6. CASE N >= rows
  <2>1. ~Slipped /\ ~(first + N < rows) /\ RowOf(N + 1) = rows /\ cursor = At(N + 1, rows)
    BY <1>3, <1>6 DEF Slipped, RowOf
  <2>2. CASE N - i + 1 < rows
    <3>1. Up(cursor, N - i + 1) = At(i, rows - (N - i + 1))
      BY <2>1, <2>2
    <3>2. Down(NewLine(At(i, rows - (N - i + 1)), rows), N - i, rows) = At(N + 1, rows)
      BY <2>2
    <3>3. QED
      BY <1>6, <2>1, <3>1, <3>2
  <2>3. CASE ~(N - i + 1 < rows)
    <3>1. Up(cursor, N - i + 1) = At(N + 2 - rows, 1)
      BY <2>1, <2>3
    <3>2. Down(NewLine(At(N + 2 - rows, 1), rows), N - i, rows) = At(N + 1, rows)
      BY <2>3
    <3>3. QED
      BY <1>6, <2>1, <2>3, <3>1, <3>2 DEF Steady
  <2>4. QED
    BY <2>2, <2>3
<1>7. QED
  BY <1>4, <1>5, <1>6

\* The cursor leaves its place only when a line is printed, and comes back to it, unless
\* it has printed the last route again with room below.
LEMMA CursorStep ==
  ASSUME TypeOK, LoopInv, MutexInv, CountInv, CursorInv, [Next]_vars
  PROVE  CursorInv'
<1> USE NAssumption DEF TypeOK, CursorInv
<1>1. ASSUME UNCHANGED <<tty, rows, first, next, cursor>>,
             printer' # "done" => printer # "done" /\ (Slipped' <=> Slipped)
      PROVE  CursorInv'
  BY <1>1 DEF RowOf
<1>2. CASE UNCHANGED vars
  BY <1>1, <1>2 DEF vars, envVars, printVars, screenVars, Slipped
<1>3. CASE Spawn
  <2>1. /\ UNCHANGED <<tty, rows, first, next, worker, cursor>>
        /\ printer # "done"
    BY <1>3, SpawnStarts DEF LoopInv
  <2>2. QED
    BY <1>1, <2>1 DEF Slipped
<1>4. CASE ParseFlags \/ SetLogger \/ SetTelemetry \/ Build \/ Listen \/ ServeFails \/ Exit
  BY <1>1, <1>4, ExecuteAside DEF Slipped
<1>5. CASE PrintLine
  <2>1. /\ printer = "loop" /\ next \in 1 .. N /\ next' = next + 1
        /\ worker' = [worker EXCEPT ![next] = "precache"]
        /\ cursor' = NewLine(cursor, rows)
        /\ UNCHANGED <<tty, rows, first>>
    BY <1>5 DEF PrintLine, WriteLine, envVars
  <2>2. worker[N] = "none"
    BY <2>1 DEF LoopInv
  <2>3. ~Slipped /\ ~Slipped'
    BY <2>1, <2>2 DEF Slipped
  <2>4. cursor = At(next, RowOf(next))
    BY <2>1, <2>3
  <2>5. rows \in Nat /\ first \in Nat /\ first >= 1 /\ first <= rows
    BY HeightsAssumption
  <2>6. NewLine(At(next, RowOf(next)), rows) = At(next + 1, RowOf(next + 1))
    <3> HIDE DEF TypeOK, CursorInv
    <3>1. CASE first + next - 1 < rows
      BY <2>1, <2>5, <3>1 DEF NewLine, At, RowOf
    <3>2. CASE ~(first + next - 1 < rows)
      BY <2>1, <2>5, <3>2 DEF NewLine, At, RowOf
    <3>3. QED
      BY <3>1, <3>2
  <2>7. RowOf(next)' = RowOf(next + 1)
    BY <2>1 DEF RowOf
  <2>8. QED
    BY <2>1, <2>3, <2>4, <2>6, <2>7
<1>6. CASE LoopEnds
  BY <1>1, <1>6 DEF LoopEnds, envVars, screenVars, Slipped
<1>7. CASE PrintTotal
  BY <1>7 DEF PrintTotal
<1>8. ASSUME NEW i \in 1 .. N, Worker(i) PROVE CursorInv'
  <2>1. CASE UpdateLine(i)
    <3>1. tty /\ next = N + 1 /\ printer = "wait"
      BY <2>1, UpdateWaits
    <3>2. /\ worker[i] = "update"
          /\ worker' = [worker EXCEPT ![i] = "unlock"]
          /\ cursor' = Down(NewLine(Up(cursor, N - i + 1), rows), N - i, rows)
          /\ UNCHANGED <<tty, rows, first, next, printer>>
      BY <2>1 DEF UpdateLine, envVars
    <3>3. cursor' = IF Slipped \/ (i = N /\ first + N < rows)
                    THEN At(N + 2, first + N + 1) ELSE At(N + 1, RowOf(N + 1))
      BY <3>1, <3>2, UpdateMoves
    <3>4. Slipped' <=> Slipped \/ (i = N /\ first + N < rows)
      BY <3>1, <3>2 DEF Slipped
    <3>5. RowOf(next)' = RowOf(N + 1)
      BY <3>1, <3>2 DEF RowOf
    <3>6. QED
      BY <3>1, <3>2, <3>3, <3>4, <3>5
  <2>2. CASE PreCache(i) \/ AddTotal(i) \/ LockScreen(i) \/ UnlockScreen(i)
    <3>1. UNCHANGED <<tty, rows, first, next, printer, cursor>>
      BY <2>2 DEF PreCache, AddTotal, LockScreen, UnlockScreen, envVars, screenVars
    <3>2. \/ /\ worker[i] \in {"precache", "add", "lock"}
             /\ \E w \in {"add", "lock", "update"} : worker' = [worker EXCEPT ![i] = w]
          \/ ~tty
          \/ worker[i] = "unlock" /\ worker' = [worker EXCEPT ![i] = "done"]
      BY <2>2 DEF PreCache, AddTotal, LockScreen, UnlockScreen, Done
    <3>3. Slipped' <=> Slipped
      BY <3>1, <3>2 DEF Slipped
    <3>4. QED
      BY <1>1, <3>1, <3>3
  <2>3. CASE PreCachePanics(i)
    BY <1>1, <2>3 DEF PreCachePanics, envVars, printVars, screenVars, Slipped
  <2>4. QED
    BY <1>8, <2>1, <2>2, <2>3 DEF Worker
<1>9. QED
  BY <1>2, <1>3, <1>4, <1>5, <1>6, <1>7, <1>8 DEF Next, Execute, Starts, Printer

\* Once the cursor is disturbed it stays so.
LEMMA StaysDisturbed ==
  ASSUME TypeOK, UNCHANGED <<tty, rows, first>>,
         N # 0 /\ worker[N] \in {"unlock", "done"} => worker'[N] \in {"unlock", "done"}
  PROVE  Undisturbed' => Undisturbed
BY DEF Undisturbed, Steady

\* A step that leaves the screen alone may only say of a route that it has been printed
\* when it has been.
LEMMA ScreenAside ==
  ASSUME TypeOK, ScreenInv, UNCHANGED <<tty, rows, first, next, screen>>,
         printer' = "done" <=> printer = "done",
         printer = "done" => total' = total,
         \A i \in 1 .. N : worker'[i] \in {"unlock", "done"} /\ tty <=> worker[i] \in {"unlock", "done"} /\ tty,
         \A i \in 1 .. N : worker[i] \in {"unlock", "done"} => worker'[i] \in {"unlock", "done"},
         \A i \in 1 .. N : worker[i] \in {"unlock", "done"} => count'[i] = count[i]
  PROVE  ScreenInv'
<1> USE NAssumption DEF TypeOK
<1>1. Undisturbed' => Undisturbed
  BY StaysDisturbed
<1>2. \A l \in Lines' : LineInv(l)'
  <2> SUFFICES ASSUME NEW l \in Lines, screen[l].route # 0 PROVE LineInv(l)'
    BY DEF Lines, LineInv
  <2>1. LineInv(l) /\ screen[l].route \in 1 .. N
    BY DEF ScreenInv
  <2>2. QED
    BY <1>1, <2>1 DEF LineInv
<1>3. \A l \in Lines' : l < next' => screen'[l].route \in 1 .. l
  BY DEF ScreenInv, Lines
<1>4. printer' # "done" => \A l \in Lines' : l >= next' => screen'[l] = Blank
  BY DEF ScreenInv, Lines, Blank
<1>5. printer' = "done" =>
        \E l \in {N + 1, N + 2} :
          screen'[l] = TotalLine(total)' /\ \A k \in {N + 1, N + 2} \ {l} : screen'[k] = Blank
  BY DEF ScreenInv, TotalLine
<1>6. tty' /\ Steady' =>
        \A i \in 1 .. N : worker'[i] \in {"unlock", "done"} =>
          screen'[i] = [route |-> i, size |-> count'[i]]
  BY DEF ScreenInv, Steady
<1>7. QED
  BY <1>2, <1>3, <1>4, <1>5, <1>6 DEF ScreenInv, Blank

\* What a goroutine prints stands on the line of its route, or below it as far as the
\* cursor was disturbed.
LEMMA ScreenUpdate ==
  ASSUME TypeOK, LoopInv, MutexInv, CountInv, CursorInv, ScreenInv, NEW i \in 1 .. N, UpdateLine(i)
  PROVE  ScreenInv'
<1> USE NAssumption DEF TypeOK
<1> DEFINE there == Up(cursor, N - i + 1)
           line == [route |-> i, size |-> count[i]]
<1>1. tty /\ next = N + 1 /\ printer = "wait"
  BY UpdateWaits
<1>2. /\ worker[i] = "update"
      /\ worker' = [worker EXCEPT ![i] = "unlock"]
      /\ screen' = [screen EXCEPT ![there.line] = line]
      /\ UNCHANGED <<tty, rows, first, next, printer, count, total>>
  BY DEF UpdateLine, envVars
<1>3. /\ there.line \in i .. N
      /\ N < rows => there.line \in {i, i + 1}
      /\ Steady \/ (N < rows /\ worker[N] \notin {"unlock", "done"} /\ i # N) => there.line = i
  BY <1>1, <1>2, UpdateMoves
<1> HIDE DEF there
<1>4. /\ screen'[there.line] = line
      /\ \A l \in Lines \ {there.line} : screen'[l] = screen[l]
  BY <1>2, <1>3 DEF Lines
<1>5. Undisturbed' => Undisturbed /\ there.line = i
  <2>1. Undisturbed' => Undisturbed
    BY <1>2, StaysDisturbed
  <2>2. Undisturbed' => Steady \/ (N < rows /\ worker[N] \notin {"unlock", "done"} /\ i # N)
    BY <1>1, <1>2 DEF Undisturbed, Steady
  <2>3. QED
    BY <1>3, <2>1, <2>2
<1>6. \A l \in Lines : LineInv(l)'
  <2> SUFFICES ASSUME NEW l \in Lines PROVE LineInv(l)'
    OBVIOUS
  <2>1. CASE l = there.line
    BY <1>1, <1>2, <1>3, <1>4, <1>5, <2>1 DEF LineInv
  <2>2. CASE l # there.line
    <3>1. screen'[l] = screen[l] /\ LineInv(l) /\ screen[l].route \in 0 .. N
      BY <1>4, <2>2 DEF ScreenInv
    <3>2. \A r \in 1 .. N : worker[r] \in {"unlock", "done"} => worker'[r] = worker[r]
      BY <1>2
    <3>3. QED
      BY <1>2, <1>5, <3>1, <3>2 DEF LineInv
  <2>3. QED
    BY <2>1, <2>2
<1>7. \A l \in Lines : l < next' => screen'[l].route \in 1 .. l
  BY <1>2, <1>3, <1>4 DEF ScreenInv
<1>8. \A l \in Lines : l >= next' => screen'[l] = Blank
  BY <1>1, <1>2, <1>3, <1>4 DEF ScreenInv
<1>9. tty' /\ Steady' =>
        \A j \in 1 .. N : worker'[j] \in {"unlock", "done"} =>
          screen'[j] = [route |-> j, size |-> count'[j]]
  <2>1. Steady' => there.line = i
    BY <1>2, <1>3 DEF Steady
  <2> SUFFICES ASSUME tty, Steady, NEW j \in 1 .. N, worker'[j] \in {"unlock", "done"}
               PROVE  screen'[j] = [route |-> j, size |-> count[j]]
    BY <1>2 DEF Steady
  <2>2. CASE j = i
    BY <1>2, <1>4, <2>1, <2>2 DEF Steady
  <2>3. CASE j # i
    <3>1. worker'[j] = worker[j] /\ there.line # j /\ j \in Lines
      BY <1>2, <2>1, <2>3 DEF Steady, Lines
    <3>2. screen[j] = [route |-> j, size |-> count[j]]
      BY <3>1 DEF ScreenInv
    <3>3. QED
      BY <1>4, <3>1, <3>2
  <2>4. QED
    BY <2>2, <2>3
<1>10. QED
  BY <1>1, <1>2, <1>6, <1>7, <1>8, <1>9 DEF ScreenInv, Lines, Blank

\* A step that prints knows which line it prints on.
LEMMA ScreenStep ==
  ASSUME TypeOK, LoopInv, MutexInv, CountInv, CursorInv, ScreenInv, [Next]_vars
  PROVE  ScreenInv'
<1> USE NAssumption DEF TypeOK
<1>1. CASE UNCHANGED vars
  BY <1>1, ScreenAside DEF vars, printVars, screenVars, envVars
<1>2. CASE Spawn
  <2>1. /\ UNCHANGED <<tty, rows, first, next, worker, count, total, screen>>
        /\ printer # "done" /\ printer' # "done"
    BY <1>2, SpawnStarts DEF LoopInv
  <2>2. QED
    BY <2>1, ScreenAside
<1>3. CASE ParseFlags \/ SetLogger \/ SetTelemetry \/ Build \/ Listen \/ ServeFails \/ Exit
  BY <1>3, ExecuteAside, ScreenAside
<1>4. CASE PrintLine
  <2>1. /\ printer = "loop" /\ next \in 1 .. N /\ next' = next + 1
        /\ worker' = [worker EXCEPT ![next] = "precache"]
        /\ UNCHANGED <<tty, rows, first, count, total, printer>>
    BY <1>4 DEF PrintLine, envVars
  <2>2. worker[next] = "none" /\ worker[N] = "none"
    BY <2>1 DEF LoopInv
  <2>3. cursor.line = next
    BY <2>1, <2>2 DEF CursorInv, Slipped, At
  <2>4. screen' = [screen EXCEPT ![next] = [route |-> next, size |-> -1]]
    BY <1>4, <2>3 DEF PrintLine, WriteLine
  <2>5. /\ screen'[next] = [route |-> next, size |-> -1]
        /\ \A l \in Lines \ {next} : screen'[l] = screen[l]
    BY <2>4 DEF Lines
  <2>6. Undisturbed' => Undisturbed
    BY <2>1, <2>2, StaysDisturbed
  <2>7. \A l \in Lines : LineInv(l)'
    <3> SUFFICES ASSUME NEW l \in Lines PROVE LineInv(l)'
      OBVIOUS
    <3>1. CASE l = next
      BY <2>5, <3>1 DEF LineInv
    <3>2. CASE l # next
      <4>1. screen'[l] = screen[l] /\ LineInv(l) /\ screen[l].route \in 0 .. N
        BY <2>5, <3>2 DEF ScreenInv
      <4>2. screen[l].route # 0 => l < next
        BY <2>1 DEF ScreenInv, Blank, Lines
      <4>3. \A r \in 1 .. N : worker[r] \in {"unlock", "done"} => worker'[r] = worker[r]
        BY <2>1, <2>2
      <4>4. QED
        BY <2>1, <2>6, <4>1, <4>3 DEF LineInv
    <3>3. QED
      BY <3>1, <3>2
  <2>8. \A l \in Lines : l < next' => screen'[l].route \in 1 .. l
    BY <2>1, <2>5, SMTT(20) DEF ScreenInv, Lines
  <2>9. \A l \in Lines : l >= next' => screen'[l] = Blank
    BY <2>1, <2>5, SMTT(20) DEF ScreenInv, Lines
  <2>10. tty' /\ Steady' =>
           \A i \in 1 .. N : worker'[i] \in {"unlock", "done"} =>
             screen'[i] = [route |-> i, size |-> count'[i]]
    BY <2>1, <2>5 DEF ScreenInv, Steady, Lines
  <2>11. QED
    BY <2>1, <2>7, <2>8, <2>9, <2>10 DEF ScreenInv, Lines, Blank
<1>5. CASE LoopEnds
  BY <1>5, ScreenAside DEF LoopEnds, envVars, screenVars
<1>6. CASE PrintTotal
  <2>1. /\ printer = "wait" /\ printer' = "done"
        /\ screen' = [screen EXCEPT ![cursor.line] = TotalLine(total)]
        /\ UNCHANGED <<tty, rows, first, next, worker, count, total>>
    BY <1>6 DEF PrintTotal, WriteLine, envVars
  <2>2. next = N + 1
    BY <2>1 DEF LoopInv
  <2>3. cursor.line \in {N + 1, N + 2}
    BY <2>1, <2>2 DEF CursorInv, At
  <2>4. /\ screen'[cursor.line] = TotalLine(total)
        /\ \A l \in Lines \ {cursor.line} : screen'[l] = screen[l]
    BY <2>1, <2>3 DEF Lines
  <2>5. \A k \in {N + 1, N + 2} : screen[k] = Blank
    BY <2>1, <2>2 DEF ScreenInv, Lines
  <2>6. \A k \in {N + 1, N + 2} \ {cursor.line} : screen'[k] = Blank
    BY <2>4, <2>5 DEF Lines
  <2>7. \A l \in Lines : LineInv(l)'
    <3> SUFFICES ASSUME NEW l \in Lines PROVE LineInv(l)'
      OBVIOUS
    <3>1. CASE l = cursor.line
      BY <2>4, <3>1 DEF LineInv, TotalLine
    <3>2. CASE l # cursor.line
      BY <2>1, <2>4, <3>2 DEF ScreenInv, LineInv, Undisturbed, Steady
    <3>3. QED
      BY <3>1, <3>2
  <2>8. \A l \in Lines : l < next' => screen'[l].route \in 1 .. l
    BY <2>1, <2>2, <2>3, <2>4 DEF ScreenInv
  <2>9. tty' /\ Steady' =>
          \A i \in 1 .. N : worker'[i] \in {"unlock", "done"} =>
            screen'[i] = [route |-> i, size |-> count'[i]]
    BY <2>1, <2>3, <2>4 DEF ScreenInv, Steady, Lines
  <2>10. TotalLine(total)' = TotalLine(total) /\ Blank' = Blank
    BY <2>1 DEF TotalLine, Blank
  <2>11. QED
    BY <2>1, <2>3, <2>4, <2>6, <2>7, <2>8, <2>9, <2>10 DEF ScreenInv, Lines
<1>7. ASSUME NEW i \in 1 .. N, Worker(i) PROVE ScreenInv'
  <2>1. CASE PreCache(i)
    <3>1. /\ worker[i] = "precache"
          /\ worker' = [worker EXCEPT ![i] = "add"]
          /\ UNCHANGED <<tty, rows, first, next, printer, total, screen>>
          /\ \A j \in 1 .. N \ {i} : count'[j] = count[j]
      BY <2>1 DEF PreCache, envVars, screenVars
    <3>2. QED
      BY <3>1, ScreenAside
  <2>2. CASE PreCachePanics(i)
    BY <2>2, ScreenAside DEF PreCachePanics, printVars, screenVars, envVars
  <2>3. CASE AddTotal(i)
    <3>1. /\ worker[i] = "add"
          /\ worker' = [worker EXCEPT ![i] = IF tty THEN "lock" ELSE "done"]
          /\ total' = total + count[i]
          /\ UNCHANGED <<tty, rows, first, next, printer, screen, count>>
      BY <2>3 DEF AddTotal, Done, envVars, screenVars
    <3>2. printer # "done"
      BY <3>1 DEF CountInv
    <3>3. QED
      BY <3>1, <3>2, ScreenAside
  <2>4. CASE LockScreen(i)
    BY <2>4, ScreenAside DEF LockScreen, envVars, screenVars
  <2>5. CASE UpdateLine(i)
    BY <2>5, ScreenUpdate
  <2>6. CASE UnlockScreen(i)
    <3>1. /\ worker[i] = "unlock"
          /\ worker' = [worker EXCEPT ![i] = "done"]
          /\ UNCHANGED <<tty, rows, first, next, printer, total, screen, count>>
      BY <2>6 DEF UnlockScreen, Done, envVars, screenVars
    <3>2. QED
      BY <3>1, ScreenAside
  <2>7. QED
    BY <1>7, <2>1, <2>2, <2>3, <2>4, <2>5, <2>6 DEF Worker
<1>8. QED
  BY <1>1, <1>2, <1>3, <1>4, <1>5, <1>6, <1>7 DEF Next, Execute, Starts, Printer

\* Every return of Execute goes through what was deferred.
LEMMA ExporterStep ==
  ASSUME TypeOK, ExporterInv, [Next]_vars
  PROVE  ExporterInv'
<1> USE DEF TypeOK, ExporterInv, Proceed, Return
<1>1. CASE UNCHANGED vars
  BY <1>1 DEF vars, mainVars
<1>2. CASE Execute
  BY <1>2 DEF Execute, Starts, ParseFlags, SetLogger, SetTelemetry, Build, Spawn, Listen,
              ServeFails, Exit
<1>3. CASE Printer
  BY <1>3 DEF Printer, PrintLine, LoopEnds, PrintTotal, mainVars
<1>4. ASSUME NEW i \in 1 .. N, Worker(i) PROVE ExporterInv'
  BY <1>4 DEF Worker, PreCache, PreCachePanics, AddTotal, LockScreen, UpdateLine, UnlockScreen,
              mainVars
<1>5. QED
  BY <1>1, <1>2, <1>3, <1>4 DEF Next

\* Until the total is printed the cursor is on a line of the report and in the window.
LEMMA CursorFits ==
  ASSUME TypeOK, CursorInv', printer' # "done", UNCHANGED <<rows, first>>, next' \in 1 .. N + 1
  PROVE  cursor' \in [line : 1 .. N + 3, row : 1 .. rows']
<1>1. N \in Nat /\ rows \in Nat /\ rows >= 2 /\ first \in 1 .. rows
  BY NAssumption, HeightsAssumption DEF TypeOK
<1>2. CASE Slipped'
  <2>1. cursor' = At(N + 2, first + N + 1) /\ first + N < rows
    BY <1>2 DEF CursorInv, Slipped, At
  <2>2. QED
    BY <1>1, <2>1 DEF At
<1>3. CASE ~Slipped'
  <2>1. cursor' = At(next', RowOf(next)')
    BY <1>3 DEF CursorInv, At
  <2>2. RowOf(next)' \in 1 .. rows
    <3>1. RowOf(next)' = IF first + next' - 1 < rows THEN first + next' - 1 ELSE rows
      BY DEF RowOf
    <3>2. \A n \in Nat \ {0} : (IF first + n - 1 < rows THEN first + n - 1 ELSE rows) \in 1 .. rows
      BY <1>1
    <3>3. next' \in Nat \ {0}
      BY <1>1
    <3>4. QED
      BY <3>1, <3>2, <3>3
  <2>3. QED
    BY <1>1, <2>1, <2>2 DEF At
<1>4. QED
  BY <1>2, <1>3

\* The counter of the WaitGroup and the lines stay within the number of routes.
LEMMA TypeStep ==
  ASSUME TypeOK, LoopInv, MutexInv, CountInv, CursorInv, CountInv', CursorInv', [Next]_vars
  PROVE  TypeOK'
<1> USE NAssumption DEF TypeOK
<1>1. wg' \in 0 .. N
  <2>1. Working' \in SUBSET (1 .. N)
    BY DEF Working
  <2>2. Cardinality(Working') \in 0 .. N
    BY <2>1, SetOfRoutes
  <2>3. QED
    BY <2>2 DEF CountInv
<1>2. CASE UNCHANGED vars
  BY <1>2 DEF vars, envVars, mainVars, printVars, screenVars
<1>3. CASE Spawn
  BY <1>3, SpawnStarts, SMTT(30)
<1>4. CASE ParseFlags \/ SetLogger \/ SetTelemetry \/ Build \/ Listen \/ ServeFails \/ Exit
  BY <1>4, ExecuteAside DEF Places, Before
<1>5. CASE PrintLine
  <2>1. /\ printer = "loop" /\ next \in 1 .. N /\ next' = next + 1
        /\ screen' = [screen EXCEPT ![cursor.line] = [route |-> next, size |-> -1]]
        /\ UNCHANGED <<rows, first, printer>>
    BY <1>5 DEF PrintLine, WriteLine, envVars
  <2>2. screen' \in [Lines -> [route : 0 .. N, size : Nat \cup {-1}]]
    <3>1. [route |-> next, size |-> -1] \in [route : 0 .. N, size : Nat \cup {-1}]
      BY <2>1
    <3>2. QED
      BY <2>1, <3>1
  <2>3. cursor' \in [line : 1 .. N + 3, row : 1 .. rows']
    BY <2>1, CursorFits
  <2>4. QED
    BY <1>1, <1>5, <2>1, <2>2, <2>3 DEF PrintLine, mainVars, envVars
<1>6. CASE LoopEnds
  BY <1>6 DEF LoopEnds, mainVars, envVars, screenVars
<1>7. CASE PrintTotal
  <2>1. /\ printer = "wait" /\ cursor' = NewLine(cursor, rows)
        /\ screen' = [screen EXCEPT ![cursor.line] = TotalLine(total)]
    BY <1>7 DEF PrintTotal, WriteLine
  <2>2. screen' \in [Lines -> [route : 0 .. N, size : Nat \cup {-1}]]
    <3>1. TotalLine(total) \in [route : 0 .. N, size : Nat \cup {-1}]
      BY DEF TotalLine
    <3>2. QED
      BY <2>1, <3>1
  <2>3. next = N + 1
    BY <2>1 DEF LoopInv
  <2>4. cursor.line \in {N + 1, N + 2}
    BY <2>1, <2>3 DEF CursorInv, At
  <2>5. cursor' \in [line : 1 .. N + 3, row : 1 .. rows]
    BY <2>1, <2>4, HeightsAssumption DEF NewLine, At
  <2>6. QED
    BY <1>1, <1>7, <2>2, <2>5 DEF PrintTotal, mainVars, envVars
<1>8. ASSUME NEW i \in 1 .. N, Worker(i) PROVE TypeOK'
  <2>1. CASE PreCache(i)
    <3>1. count' \in [1 .. N -> Nat]
      BY <2>1, SizeAssumption DEF PreCache
    <3>2. QED
      BY <2>1, <3>1 DEF PreCache, mainVars, envVars, screenVars
  <2>2. CASE PreCachePanics(i)
    BY <2>2 DEF PreCachePanics, printVars, screenVars, envVars
  <2>3. CASE AddTotal(i)
    <3>1. total' \in Nat
      BY <2>3 DEF AddTotal
    <3>2. \E w \in {"lock", "done"} : worker' = [worker EXCEPT ![i] = w]
      BY <2>3 DEF AddTotal, Done
    <3>3. QED
      BY <1>1, <2>3, <3>1, <3>2 DEF AddTotal, mainVars, envVars, screenVars
  <2>4. CASE LockScreen(i)
    BY <2>4 DEF LockScreen, mainVars, envVars, screenVars
  <2>5. CASE UpdateLine(i)
    <3>1. printer' = "wait" /\ UNCHANGED <<rows, first, next>>
      BY <2>5, UpdateWaits DEF UpdateLine, envVars
    <3>2. screen' \in [Lines -> [route : 0 .. N, size : Nat \cup {-1}]]
      <4>1. screen' = [screen EXCEPT ![Up(cursor, N - i + 1).line] = [route |-> i, size |-> count[i]]]
        BY <2>5 DEF UpdateLine
      <4>2. [route |-> i, size |-> count[i]] \in [route : 0 .. N, size : Nat \cup {-1}]
        OBVIOUS
      <4>3. QED
        BY <4>1, <4>2
    <3>3. cursor' \in [line : 1 .. N + 3, row : 1 .. rows']
      BY <3>1, CursorFits
    <3>4. QED
      BY <2>5, <3>2, <3>3 DEF UpdateLine, mainVars, envVars
  <2>6. CASE UnlockScreen(i)
    BY <1>1, <2>6 DEF UnlockScreen, Done, mainVars, envVars, screenVars
  <2>7. QED
    BY <1>8, <2>1, <2>2, <2>3, <2>4, <2>5, <2>6 DEF Worker
<1>9. QED
  BY <1>2, <1>3, <1>4, <1>5, <1>6, <1>7, <1>8 DEF Next, Execute, Starts, Printer

-----------------------------------------------------------------------------
(* The theorems *)

\* At first nothing has been started, counted or printed.
LEMMA Initially ==
  ASSUME Init
  PROVE  TypeOK /\ LoopInv /\ MutexInv /\ CountInv /\ CursorInv /\ ScreenInv /\ ExporterInv
<1> USE NAssumption DEF Init
<1>1. TypeOK
  <2>1. screen \in [Lines -> [route : 0 .. N, size : Nat \cup {-1}]]
    BY DEF Blank
  <2>2. cursor \in [line : 1 .. N + 3, row : 1 .. rows]
    BY DEF At
  <2>3. mx \in {Free} \cup 0 .. N /\ next \in 1 .. N + 1 /\ wg \in 0 .. N
    OBVIOUS
  <2>4. QED
    BY <2>1, <2>2, <2>3 DEF TypeOK
<1>2. LoopInv /\ MutexInv /\ ExporterInv
  BY DEF LoopInv, MutexInv, ExporterInv
<1>3. CountInv
  <2>1. Working = {} /\ \A i \in 1 .. N : Added[i] = 0
    BY DEF Working, Added
  <2>2. Cardinality(Working) = 0 /\ SumOver(Added, 1 .. N) = 0
    BY <2>1, SetOfRoutes, FS_EmptySet, SumOfNoughts
  <2>3. QED
    BY <2>2 DEF CountInv
<1>4. CursorInv
  <2>1. first \in Nat /\ rows \in Nat /\ first <= rows
    BY HeightsAssumption
  <2>2. ~Slipped /\ RowOf(next) = first
    BY <2>1 DEF Slipped, RowOf
  <2>3. QED
    BY <2>2 DEF CursorInv
<1>5. ScreenInv
  BY DEF ScreenInv, LineInv, Lines, Blank
<1>6. QED
  BY <1>1, <1>2, <1>3, <1>4, <1>5

\* What holds of every state.
LEMMA Invariance ==
  Spec => [](TypeOK /\ LoopInv /\ MutexInv /\ CountInv /\ CursorInv /\ ScreenInv /\ ExporterInv)
<1> DEFINE Inv == TypeOK /\ LoopInv /\ MutexInv /\ CountInv /\ CursorInv /\ ScreenInv /\ ExporterInv
<1>1. Init => Inv
  BY Initially
<1>2. Inv /\ [Next]_vars => Inv'
  BY LoopStep, MutexStep, CountStep, CursorStep, ScreenStep, ExporterStep, TypeStep
<1>3. QED
  BY <1>1, <1>2, PTL DEF Spec

\* Every variable keeps its type: in particular the WaitGroup never goes below zero,
\* which would panic, and the cursor never leaves the report and the window.
THEOREM TypeCorrect == Spec => []TypeOK
BY Invariance, PTL

\* In whatever order the goroutines get the mutex, a line that was listed always shows a
\* route, and with it what that route has cached: its own route as long as the cursor was
\* not disturbed, and otherwise one from above, the one next to it if the terminal has
\* room for all lines.
THEOREM LinesSlipByOne == Spec => []LinesAreRight
<1>1. TypeOK /\ LoopInv /\ ScreenInv => LinesAreRight
  <2> SUFFICES ASSUME TypeOK, ScreenInv, NEW l \in Lines
               PROVE  LET shown == screen[l] IN
                      /\ l < next => shown.route \in 1 .. l
                      /\ shown.route # 0 =>
                           /\ shown.size \in {-1, count[shown.route]}
                           /\ N < rows => shown.route \in {l - 1, l}
                           /\ Undisturbed => shown.route = l
    BY DEF LinesAreRight
  <2>1. LineInv(l)
    BY DEF ScreenInv
  <2>2. QED
    BY <2>1 DEF ScreenInv, LineInv
<1>2. QED
  BY <1>1, Invariance, PTL

\* The total is printed after every route has been cached, below all their lines, and is
\* the sum of what they cached; on a terminal where nothing disturbs the cursor, every line
\* has its own route and size by then.
THEOREM TotalIsOfAll == Spec => []TotalIsSum
<1>1. TypeOK /\ LoopInv /\ CountInv /\ ScreenInv => TotalIsSum
  <2> SUFFICES ASSUME TypeOK, LoopInv, CountInv, ScreenInv, printer = "done"
               PROVE  /\ \A i \in 1 .. N : worker[i] = "done"
                      /\ \E l \in {N + 1, N + 2} :
                           /\ screen[l] = TotalLine(SumOver(count, 1 .. N))
                           /\ \A k \in {N + 1, N + 2} \ {l} : screen[k] = Blank
                      /\ tty /\ Steady =>
                           \A i \in 1 .. N : screen[i] = [route |-> i, size |-> count[i]]
    BY DEF TotalIsSum
  <2>1. \A i \in 1 .. N : worker[i] = "done"
    BY DEF CountInv
  <2>2. SumOver(count, 1 .. N) = SumOver(Added, 1 .. N)
    <3>1. \A i \in 1 .. N : Added[i] = count[i] /\ count[i] \in Int
      BY <2>1 DEF Added, TypeOK
    <3>2. QED
      BY <3>1, NAssumption, SetOfRoutes, SumSame
  <2>3. total = SumOver(count, 1 .. N)
    BY <2>2 DEF CountInv
  <2>4. tty /\ Steady => \A i \in 1 .. N : screen[i] = [route |-> i, size |-> count[i]]
    BY <2>1 DEF ScreenInv
  <2>5. QED
    BY <2>1, <2>3, <2>4 DEF ScreenInv
<1>2. QED
  BY <1>1, Invariance, PTL

\* The process does not exit with an exporter open that spans were provided to, unless
\* a goroutine panics: every return of Execute runs what setTelemetry gave it.
THEOREM ExporterIsClosed == Spec => []ExporterIsShut
<1>1. ExporterInv => ExporterIsShut
  BY DEF ExporterInv, ExporterIsShut
<1>2. QED
  BY <1>1, Invariance, PTL

=============================================================================
