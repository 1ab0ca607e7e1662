------------------------------ MODULE Startup ------------------------------
(***************************************************************************)
(* The start of the server: Execute of internal/ath/main.go reads the       *)
(* flags, sets the logger and the telemetry, builds the routes, starts      *)
(* printRoutes beside it, and listens.  printRoutes lists the routes and    *)
(* fills the caches, with one goroutine per route; on a terminal each       *)
(* goroutine also goes back to the line of its route, by moving the cursor. *)
(* Everything stops after Execute has returned, and when a goroutine        *)
(* panics.                                                                  *)
(***************************************************************************)
EXTENDS Integers, Sums, Terminal

CONSTANTS
  N,      \* the number of routes, sorted by target: route i is on line i
  Size,   \* Size[i]: what PreCache of route i counts when its reads succeed
  Heights \* the numbers of rows that the terminal may have

ASSUME NAssumption == N \in Nat
ASSUME SizeAssumption == Size \in [1 .. N -> Nat]
ASSUME HeightsAssumption == Heights \subseteq Nat \ {0, 1}

VARIABLES
  tty,       \* whether stdout is a terminal
  rows,      \* the number of its rows
  first,     \* the row on which the report starts
  endpoint,  \* whether there is an endpoint for the telemetry
  main,      \* where Execute is, or main after it
  status,    \* how it ended: "none" before, "ok", "error" or "panic"
  exporter,  \* the exporter of traces: "none", "open" or "shut"
  provider,  \* whether traces are provided to it
  printer,   \* where printRoutes is
  next,      \* the route its loop has reached
  worker,    \* worker[i]: where the goroutine of route i is
  count,     \* count[i]: what its PreCache returned
  mx,        \* who holds the mutex: 0 the printer, i a worker, Free nobody
  wg,        \* the counter of the WaitGroup
  total,     \* totalSize
  screen,    \* the lines of the report: [route, size], size -1 while unknown
  cursor     \* where the next line is written

screenVars == <<screen, cursor>>
printVars == <<printer, next, worker, count, mx, wg, total, screenVars>>
envVars == <<tty, rows, first, endpoint>>
mainVars == <<main, status, exporter, provider>>
vars == <<envVars, mainVars, printVars>>

Free == -1

\* An empty line, and the line that reports a total.
Blank == [route |-> 0, size |-> -1]
TotalLine(t) == [route |-> 0, size |-> t]

\* One line per route and the total, perhaps after an empty line.
Lines == 1 .. N + 2

TypeOK ==
  /\ tty \in BOOLEAN
  /\ endpoint \in BOOLEAN
  /\ rows \in Heights
  /\ first \in 1 .. rows
  /\ main \in {"flags", "logger", "telemetry", "build", "spawn", "listen", "serve",
              "returned", "exited"}
  /\ status \in {"none", "ok", "error", "panic"}
  /\ exporter \in {"none", "open", "shut"}
  /\ provider \in BOOLEAN
  /\ printer \in {"none", "loop", "wait", "done"}
  /\ next \in 1 .. N + 1
  /\ worker \in [1 .. N -> {"none", "precache", "add", "lock", "update", "unlock", "done"}]
  /\ count \in [1 .. N -> Nat]
  /\ mx \in {Free} \cup 0 .. N
  /\ wg \in 0 .. N
  /\ total \in Nat
  /\ screen \in [Lines -> [route : 0 .. N, size : Nat \cup {-1}]]
  /\ cursor \in [line : 1 .. N + 3, row : 1 .. rows]

Init ==
  /\ tty \in BOOLEAN
  /\ endpoint \in BOOLEAN
  /\ rows \in Heights
  /\ first \in 1 .. rows
  /\ main = "flags"
  /\ status = "none"
  /\ exporter = "none"
  /\ provider = FALSE
  /\ printer = "none"
  /\ next = 1
  /\ worker = [i \in 1 .. N |-> "none"]
  /\ count = [i \in 1 .. N |-> 0]
  /\ mx = Free
  /\ wg = 0
  /\ total = 0
  /\ screen = [l \in Lines |-> Blank]
  /\ cursor = At(1, first)

-----------------------------------------------------------------------------
(* Execute *)

Running == main # "exited"

Proceed(l) == main' = l /\ UNCHANGED <<status, exporter, provider>>

\* Execute returns and runs what was deferred.
Return(s) ==
  /\ main' = "returned"
  /\ status' = s
  /\ exporter' = IF provider THEN "shut" ELSE exporter
  /\ UNCHANGED provider

\* Asking for help is no error.
ParseFlags ==
  /\ main = "flags"
  /\ Proceed("logger") \/ Return("ok") \/ Return("error")
  /\ UNCHANGED <<envVars, printVars>>

SetLogger ==
  /\ main = "logger"
  /\ Proceed(IF endpoint THEN "telemetry" ELSE "build") \/ Return("error")
  /\ UNCHANGED <<envVars, printVars>>

\* Without an exporter there is no provider, and nothing to defer; without a name
\* for the instance or a resource the exporter stays open.  Neither ends Execute.
SetTelemetry ==
  /\ main = "telemetry"
  /\ \/ UNCHANGED <<exporter, provider>>
     \/ exporter' = "open" /\ provider' \in BOOLEAN
  /\ main' = "build"
  /\ UNCHANGED <<envVars, status, printVars>>

\* Mutant of Build: the process ends where the error is found.
BuildFatal ==
  /\ main = "build"
  /\ \/ Proceed("spawn")
     \/ main' = "exited" /\ status' = "error" /\ UNCHANGED <<exporter, provider>>
  /\ UNCHANGED <<envVars, printVars>>

Build ==
  /\ main = "build"
  /\ Proceed("spawn") \/ Return("error")
  /\ UNCHANGED <<envVars, printVars>>

\* Mutant of Spawn: the lines are printed without the mutex.
SpawnUnlocked ==
  /\ main = "spawn"
  /\ Proceed("listen")
  /\ printer' = "loop"
  /\ UNCHANGED <<envVars, next, worker, count, mx, wg, total, screenVars>>

\* go printRoutes(routes): on a terminal the loop runs under the mutex.
Spawn ==
  /\ main = "spawn"
  /\ Proceed("listen")
  /\ printer' = "loop"
  /\ mx' = IF tty THEN 0 ELSE Free
  /\ UNCHANGED <<envVars, next, worker, count, wg, total, screenVars>>

\* Mutant of Listen: printRoutes is called without go.
ListenAfterReport ==
  /\ main = "listen"
  /\ printer = "done"
  /\ Proceed("serve") \/ Return("error")
  /\ UNCHANGED <<envVars, printVars>>

\* The address may be taken: Execute returns, and printRoutes with it.
Listen ==
  /\ main = "listen"
  /\ Proceed("serve") \/ Return("error")
  /\ UNCHANGED <<envVars, printVars>>

\* http.Serve returns when accepting a connection fails.
ServeFails ==
  /\ main = "serve"
  /\ Return("error")
  /\ UNCHANGED <<envVars, printVars>>

\* main exits, with 1 on an error; goroutines may have run up to here.
Exit ==
  /\ main = "returned"
  /\ Proceed("exited")
  /\ UNCHANGED <<envVars, printVars>>

-----------------------------------------------------------------------------
(* printRouteTTY and printRoutesNoTTY *)

\* A line is printed where the cursor is.
WriteLine(line) ==
  /\ screen' = [screen EXCEPT ![cursor.line] = line]
  /\ cursor' = NewLine(cursor, rows)

\* Mutant of PrintLine: wg.Add(1) is left to the goroutine.
PrintLineLate ==
  /\ Running
  /\ printer = "loop"
  /\ next <= N
  /\ WriteLine([route |-> next, size |-> -1])
  /\ worker' = [worker EXCEPT ![next] = "precache"]
  /\ next' = next + 1
  /\ UNCHANGED <<envVars, mainVars, printer, count, mx, wg, total>>

PrintLine ==
  /\ Running
  /\ printer = "loop"
  /\ next <= N
  /\ WriteLine([route |-> next, size |-> -1])
  /\ wg' = wg + 1
  /\ worker' = [worker EXCEPT ![next] = "precache"]
  /\ next' = next + 1
  /\ UNCHANGED <<envVars, mainVars, printer, count, mx, total>>

LoopEnds ==
  /\ Running
  /\ printer = "loop"
  /\ next > N
  /\ printer' = "wait"
  /\ mx' = IF tty THEN Free ELSE mx
  /\ UNCHANGED <<envVars, mainVars, next, worker, count, wg, total, screenVars>>

PrintTotal ==
  /\ Running
  /\ printer = "wait"
  /\ wg = 0
  /\ printer' = "done"
  /\ WriteLine(TotalLine(total))
  /\ UNCHANGED <<envVars, mainVars, next, worker, count, mx, wg, total>>

-----------------------------------------------------------------------------
(* The goroutine of a route *)

\* PreCache ignores the files it cannot read, which count for nothing: it adds up
\* the sizes of the others.
PreCache(i) ==
  /\ Running
  /\ worker[i] = "precache"
  /\ \E s \in 0 .. Size[i] : count' = [count EXCEPT ![i] = s]
  /\ worker' = [worker EXCEPT ![i] = "add"]
  /\ UNCHANGED <<envVars, mainVars, printer, next, mx, wg, total, screenVars>>

\* PreCache panics in the eviction (LruCache): nobody recovers, the process dies.
PreCachePanics(i) ==
  /\ Running
  /\ worker[i] = "precache"
  /\ main' = "exited"
  /\ status' = "panic"
  /\ UNCHANGED <<envVars, exporter, provider, printVars>>

Done(i) ==
  /\ worker' = [worker EXCEPT ![i] = "done"]
  /\ wg' = wg - 1

\* Mutant of AddTotal: Done is called here and, on a terminal, deferred too.
AddTotalTwice(i) ==
  /\ Running
  /\ worker[i] = "add"
  /\ total' = total + count[i]
  /\ wg' = wg - 1
  /\ worker' = [worker EXCEPT ![i] = IF tty THEN "lock" ELSE "done"]
  /\ UNCHANGED <<envVars, mainVars, printer, next, count, mx, screenVars>>

AddTotal(i) ==
  /\ Running
  /\ worker[i] = "add"
  /\ total' = total + count[i]
  /\ IF tty
     THEN worker' = [worker EXCEPT ![i] = "lock"] /\ UNCHANGED wg
     ELSE Done(i)
  /\ UNCHANGED <<envVars, mainVars, printer, next, count, mx, screenVars>>

LockScreen(i) ==
  /\ Running
  /\ worker[i] = "lock"
  /\ mx = Free
  /\ mx' = i
  /\ worker' = [worker EXCEPT ![i] = "update"]
  /\ UNCHANGED <<envVars, mainVars, printer, next, count, wg, total, screenVars>>

\* printEntry moves up by as many lines as there are routes from i on, prints the
\* line anew, and moves down by the number of routes after i: by one after the
\* last route too, since a terminal takes the 0 for 1.
UpdateLine(i) ==
  /\ Running
  /\ worker[i] = "update"
  /\ LET there == Up(cursor, N - i + 1) IN
       /\ screen' = [screen EXCEPT ![there.line] = [route |-> i, size |-> count[i]]]
       /\ cursor' = Down(NewLine(there, rows), N - i, rows)
  /\ worker' = [worker EXCEPT ![i] = "unlock"]
  /\ UNCHANGED <<envVars, mainVars, printer, next, count, mx, wg, total>>

\* Mutant of UnlockScreen: the mutex is kept.
UnlockForgotten(i) ==
  /\ Running
  /\ worker[i] = "unlock"
  /\ Done(i)
  /\ UNCHANGED <<envVars, mainVars, printer, next, count, mx, total, screenVars>>

UnlockScreen(i) ==
  /\ Running
  /\ worker[i] = "unlock"
  /\ mx' = Free
  /\ Done(i)
  /\ UNCHANGED <<envVars, mainVars, printer, next, count, total, screenVars>>

-----------------------------------------------------------------------------
(* Specification *)

Starts == ParseFlags \/ SetLogger \/ SetTelemetry \/ Build \/ Spawn \/ Listen

Execute == Starts \/ ServeFails \/ Exit

Printer == PrintLine \/ LoopEnds \/ PrintTotal

Worker(i) ==
  \/ PreCache(i)
  \/ PreCachePanics(i)
  \/ AddTotal(i)
  \/ LockScreen(i)
  \/ UpdateLine(i)
  \/ UnlockScreen(i)

Next == Execute \/ Printer \/ \E i \in 1 .. N : Worker(i)

Spec == Init /\ [][Next]_vars

\* Go schedules every goroutine that can run, but a PreCache may read for ever
\* (a directory may hold a pipe).
Fairness ==
  /\ WF_vars(Starts \/ Exit)
  /\ WF_vars(Printer)
  /\ \A i \in 1 .. N : WF_vars(worker[i] # "precache" /\ Worker(i))

FairSpec == Spec /\ Fairness

-----------------------------------------------------------------------------
(* What makes the start right *)

\* The report ends on the last row of a terminal with room for all its lines.
Steady == N < rows /\ first + N >= rows

\* Nothing has moved the cursor off the line that follows the routes: printing again
\* the last route does, unless that line is on the last row.
Undisturbed ==
  ~tty \/ Steady \/ (N < rows /\ (N = 0 \/ worker[N] \notin {"unlock", "done"}))

\* A line of the report shows a route and what that route has cached: its own
\* route as long as the cursor is undisturbed.  On a terminal with room for all
\* lines a report slips by one line at most; on any terminal it goes down only,
\* and leaves no route's line empty.
LinesAreRight ==
  \A l \in Lines :
    LET shown == screen[l] IN
    /\ l < next => shown.route \in 1 .. l
    /\ shown.route # 0 =>
         /\ shown.size \in {-1, count[shown.route]}
         /\ N < rows => shown.route \in {l - 1, l}
         /\ Undisturbed => shown.route = l

\* The total is printed once every route has been cached, below all of them, and is
\* their sum; if the cursor was never disturbed, every route has its size by then.
TotalIsSum ==
  printer = "done" =>
    /\ \A i \in 1 .. N : worker[i] = "done"
    /\ \E l \in {N + 1, N + 2} :
         /\ screen[l] = TotalLine(SumOver(count, 1 .. N))
         /\ \A k \in {N + 1, N + 2} \ {l} : screen[k] = Blank
    /\ tty /\ Steady => \A i \in 1 .. N : screen[i] = [route |-> i, size |-> count[i]]

\* The report is completed if every PreCache returns and the process goes on.
ReportIsPrinted ==
  []<>(\A i \in 1 .. N : worker[i] # "precache") =>
    (main = "listen" ~> printer = "done" \/ ~Running)

\* However Execute ends, short of a panic in a goroutine, the exporter that traces
\* were provided to is shut down before the process exits.
ExporterIsShut ==
  main = "exited" /\ provider => exporter = "shut" \/ status = "panic"

\* The server gets to the point where it serves, or ends, even if the caches are
\* never filled: Execute waits for no goroutine.
ServesAnyway == main = "spawn" ~> main \in {"serve", "exited"}

=============================================================================
