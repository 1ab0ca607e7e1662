# angular-to-http in TLA+

Specifications of `angular-to-http`, the HTTP server for Angular bundles in this
repository (Go, `internal/ath`), with the TLC configurations that check them and
the TLAPS proofs of what matters most: the cache and what it implements, the
serving of requests, the start, the route builder and what it implements, and
the sizes of the configuration. Paths below are relative to `src/internal/ath/` unless they say otherwise.

## 1. The system

When it starts, the server walks a directory, makes one route per file, and
then answers requests from these routes. The contents are read on demand and
kept in memory, compressed or not, in one or two caches. A report printed at
the start fills the caches.

| component | state | operations | it interacts with |
|---|---|---|---|
| **Cache** `cache.go` | map key -> (list element, bytes), recency list, `size`, `maxSize`, an RWMutex | `Get` (with a creator), `Load`, `Store`, `Size`; inside: `load`, `store`, `evictLeastRecent` | called by request goroutines and by the goroutines of `PreCache`; calls the creator back under its lock |
| **Routes** `routes.go` | none that changes: paths, modtime, header, codings, a reference to a cache or a template | `ServeHTTP`, `PreCache`, `Flags`; inside: `findCompression`, `readFile`, `generateNonce` | the caches, the files, `net/http`, `text/template` |
| **Handler** `handler.go` | the map of routes, never changed | `ServeHTTP` | the routes |
| **Compression** `compression.go` | none | `Wrap`, `WriteEncodingHeader`, `AddExtension`, `CompressAll` | gzip, flate and brotli libraries |
| **Startup and report** `main.go` | `printEntries`, a mutex, a WaitGroup, an atomic total, the terminal | `Execute`, `printRoutes` and its goroutines | everything above; `net.Listen`, `http.Serve` |
| **Route builder** `build_route.go` | the map of routes it fills, the two caches and the policy template it shares out | `BuildRoutes`, once; inside: `buildRoute`, `buildNoncedRoute`, `buildStaticRoute` and what they ask of a path | the directory, the configuration |
| **Configuration** `config.go` | the flags | `ByteSize` parsing and printing, `EnabledCompressions`, `AllowedCompressions` | go-flags |
| **Telemetry, logger** `main.go`; **command** `cmd/angular-to-http` | library objects | `setTelemetry`, `setLogger`, `main` | OpenTelemetry, zap |

What is hard in it, and what would make each part correct:

* *Cache.* Every request goroutine and every `PreCache` goroutine share it.
  Lookups hold only the read lock and yet write the list (`cache.go:44`). `Get`
  gives one lock up before it takes the other, so what it learnt is stale
  (`cache.go:103`). A panic, an error or an early return in the middle of
  `store` must leave lock, size, map and list usable. Correct means: the size is
  what the map holds, the limit holds, what goes is what was used least
  recently, nobody creates a value that is there, everybody returns.
* *Routes and handler.* Files change after the routes were made. Correct means:
  the right file in the right coding, never going back to an older version, no
  header of a content on an error that has none, one nonce for page and policy,
  an honest "not modified". Headers are set before `http.ServeContent` looks at
  the client's conditions and range, so that what it refuses has them too
  (`routes.go:93`, `:185`).
* *Startup.* One goroutine per route writes to the same terminal while the
  server starts to listen, and the process may end at any moment. The line of a
  route is found by moving the cursor, which a terminal does not always move as
  far, or as little, as it is told (`main.go:80`, `:81`). Correct means: the line
  that is rewritten is the right one, or how far off it can be; the total is
  printed last and is the sum, the server does not wait for any of it, and what
  `Execute` deferred runs.
* *Route builder.* It looks at the same files several times (listing, page,
  information), and they may vanish in between; one failure stops everything;
  what all routes share (two caches, a template, a slice of codings) must not
  leak from one to another; links. Correct means: the table is the one that the
  flags and the directory call for, or there is an error and a reason for it.
* *Configuration.* 64-bit arithmetic of sizes, and units: sizes must survive
  being printed and read, durations must be seconds where seconds are meant.

The list of hazards, each at its line, with the properties that cover it, is in
`PROJECT.json`.

## 2. The modules

```
 RWMutex  LinkedList  Sums
       \     |     /
         LruCache
        /        \
 MCLruCache    LruRefinement ==(implements)==> Lru --- Sums
                   |
              MCLruRefinement

 Configuration --- RouteAttributes --- BuildRoutes ==(implements)==> RouteTable
                        |                  |
 Serving ----------- MCServing       MCBuildRoutes

 Sums, Terminal --- Startup --- MCStartup
```

The proofs are in modules of their own:

```
 LeastNumber --- SumsProofs --- LruCacheProofs --- LruRefinementProofs
      |               \-------- StartupProofs
      |------------------------ ServingProofs
      \------------------------ BuildRoutesProofs --- ConfigurationProofs
```

### LruCache, RWMutex, LinkedList: `cache.go`

`RWMutex` and `LinkedList` model the two library types that the cache is made
of, from how `cache.go` uses them.

* `RWMutex`: `readers`, `writer` and the goroutines that `waiting` writers keep
  out. `Lock` is two steps, as in Go: announce (new readers block from now on)
  and granted (the old readers have left). `Unlock` lets all blocked readers in
  at once.
* `LinkedList`: the `next` and `prev` pointers of the elements and of the
  sentinel. `PushFront` and `Unlink` (`list.Remove`) only run under the write
  lock and are one step each. `MoveToFront` is the six assignments of
  `container/list`'s `move`: an assignment first evaluates its operands
  (`MoveEvaluate`) and then stores (`MoveAssign`), so that two moves interleave
  at every read and write. The compiler may keep `e.prev` in a register across
  the third assignment; `MoveAssignments(5, e)` therefore allows both the old
  and the reloaded value. This is an interleaving model: values torn within one
  pointer, or stores reordered by the hardware, are left out, so the real
  outcomes of the race include those of the model.

`LruCache` has a program counter per goroutine. Code and actions:

| code | actions |
|---|---|
| `Load`, first half of `Get` | `CallRead`, `LoadLock` or `LoadBlocked`, `Lookup`, `LoadHit` or `LoadMiss` |
| `MoveToFront` | `MoveEvaluate`, `MoveAssign` |
| `Lock` | `LockWanted`, `LockHeld` |
| second half of `Get` | `Recheck`, `Create` or `CreateFailed` |
| `Store` | `CallStore` |
| `store` | `StoreTooBig`, `StoreReplace`, `StoreNew` |
| `evictLeastRecent` | `EvictOne` (one turn of the loop), `EvictDone`, `EvictPanic` |
| deferred `Unlock`, return or recovered panic | `Release`, `Return` |

`c.data[k]` is the pair `element[k]`, `value[k]`; `keyOf[n]` is `n.Value`. A byte
slice is an abstract value with a capacity. A list element may be reused once no
pointer leads to it, as the garbage collector would. A panic unwinds through
the deferred unlock; `panicked` remembers that there was one.

### Lru, LruRefinement: what the cache promises

`Lru` is the abstract cache: a sequence of keys, most recently used first, and
their values. A lookup or a store moves a key to the front; above the limit
nothing happens but dropping the last key (`LruSpec`), and that must go on until
the cache is within its limit (`LruProgress`).

`LruRefinement` maps the pointers onto that sequence. `Walk` follows the `next`
pointers from the sentinel, `Ring` is what lies on the way, and `Order` its keys;
an element that is being moved counts as moved already. `Contents` is what the
map holds, `Reply` what the reader that found its key is about to return.
`IsLru` is the safety of `Lru` under this mapping, `ReturnsToLimit` its
progress. With two lookups at once `IsLru` is false, which is the point of the
race runs; that this is the *only* way to break it is what the proofs show.

`Sums` has the sum that `c.size`, and the total of the report, are compared with.

### Serving: `handler.go`, `routes.go`, `compression.go`

Clients, one goroutine each, against the routes, with files that are rewritten
(`Rewrite`, a new version, up to `MaxVersion`) and deleted (`Delete`) meanwhile.

| code | actions |
|---|---|
| `Handler.ServeHTTP` | `NotFound`, `Dispatch` |
| `StaticRoute.ServeHTTP` | `GetHit`, `GetCreates`, `GetFails`, `GetPanics`; then `ServeStatic` |
| `NoncedRoute.ServeHTTP` | `GenerateNonce`, `RenderPolicy`, `ServeNonced`, or `NoncedFails` |
| `StaticRoute.PreCache` | `PreCacheGet`, one per coding |
| the client | `Receive` |

`Get` is one step here, justified by `LruCache`: creating runs under the lock and
only for an absent key. The sized cache is abstracted to "a store may evict any
other keys, or not keep the value": every eviction order, limit and size is
covered. A slot is a cache and a key, so two routes that compute the same key
share a slot. The attributes of the routes are constants: `MCServing` gives them
the values that the operators of the route builder (`RouteAttributes`) compute
from three files and a configuration, so that what a file's name, place and
size decide is what is served. A file is read as a whole: a read torn by a
concurrent write is left out.

`ServeStatic` and `ServeNonced` set the headers and then leave the answer to
`ServeContent`, which is `http.ServeContent` of Go's library: the preconditions
(`If-Match`, `If-Unmodified-Since`: 412), the revalidation (`If-None-Match`,
`If-Modified-Since`: 304), the range (`Range`, `If-Range`: 206, or 416 for one
beyond the content), and otherwise the content. The routes set no `ETag`, so that
a tag never matches. The headers that are set stay on a 412 and a 416, as in the
library of the Go version that the repository asks for; a 304 loses its
`Content-Encoding`. A date is the version it belongs to, and 0 is one before all
of them; a nonced page is dated by a `now` that may be equal to any date of the
client, since dates count seconds. A range is a part of the content, which is not
empty, or beyond it; several ranges in one request are like one.

### Configuration, RouteAttributes: `config.go`, the pure part of `build_route.go`

`Configuration` has `ByteSize`: `Unmarshal` reads a number and a suffix and wraps
like an `int64`, `Marshal` divides as often as the loop of `String` does, which
is once too often above the last suffix. `Base` stands for 1024 and `Word` for
2^63, and `Units` are the powers of `Base` that the suffixes stand for.
`RouteAttributes` is what the builder derives for one file: `InRoot` and
`CacheOf`, `IsVersionned` and `CacheControlOf`, `Extension` and `CompressionOf`,
`StaticRoute`; `CanBeRead` is what `os.ReadFile` needs. A name is the sequence of its parts between dots, a path a
sequence of names, and the constant `Hashes` is the set of parts that the
regular expression accepts.

### BuildRoutes, RouteTable: `build_route.go`

`BuildRoutes` is the walk, from the flags to the map of routes.

| code | actions |
|---|---|
| `flags.Parse` in `Execute` | `ParseFlags`, `ParseFails` |
| `BuildRoutes`, and the first `Lstat` of `WalkDir` | `Start`, `StartFails` |
| a directory: the callback returns nil, `WalkDir` lists it | `VisitDirectory`, `ReadDirFails` |
| `buildNoncedRoute` | `BuildNonced`, `NotNonceable`, `BuildNoncedFails` |
| `buildStaticRoute` | `BuildStatic`, `InfoFails` |
| the end of the walk | `WalkEnds` |

`todo` holds the entries that were listed and not visited, and `Entry` is the
first of them in the order of `WalkDir` (`Rank`). Between any two steps a file or an empty directory may vanish
(`Vanish`). `spaces` are the name spaces of `text/template`: the policy's, and a
clone for each nonced page, which may redefine the policy. What the token, the
syntax and the definitions of a page are is a record of three facts. A link is
neither followed nor resolved, as `WalkDir` does; the directory given on the
command line may itself be a link.

`RouteTable` is what `BuildRoutes` promises, in one step: a table with the route
of every file that is still there, perhaps of some that have vanished, and none
of anything else; or an error for which there is a reason (a flag, the policy,
the root, an entry that is defective, something that vanished). It says
nothing of order, early returns or template clones, nor when the table is made:
that it is made is `WalkIsFinite`. `Table` is the refinement mapping: it replaces a route's name space by what is in it.

### Startup: `main.go`

`Execute` (`ParseFlags`, `SetLogger`, `SetTelemetry`, `Build`, `Spawn`, `Listen`,
`ServeFails`), `main` after it (`Exit`), the printer (`PrintLine`,
`LoopEnds`, `PrintTotal`) and one worker per route (`PreCache`,
`PreCachePanics`, `AddTotal`, `LockScreen`, `UpdateLine`, `UnlockScreen`), with
and without a terminal. `WriteLine` prints a line where the cursor is, and
`UpdateLine` moves the cursor up, prints the line of a route anew and moves it
down. `Terminal` is what a terminal does with that: a line feed on the last row
scrolls, a move stops at the first or the last row, and the parameter 0 is taken
for 1. `cursor` has the line of the report and the row of the window; `rows` is
the height of the window and `first` the row where the report starts, anything
the constant `Heights` and the height allow. Two consequences, both in the model:

* the last route comes back with `ESC[0B` (`main.go:81`), which is one line down.
  Unless the cursor was on the last row it then is one line too low, and the
  workers that come later write over the line of the next route.
* with more routes than rows, `ESC[nA` stops at the first row (`main.go:80`), and
  a worker writes over the line of a later route.

Left out are a window of one row, one that is resized, lines longer than it is
wide, log lines on the same terminal, and an elapsed time of 0 or less, for
which the line would be printed where the cursor is.

`Return` is every
return of `Execute` with what it has deferred. `SetTelemetry` has the three
outcomes of `setTelemetry`: no exporter, which it reports as a success; an
exporter that stays unused, when the host name or the resource fails; a
provider. `Build` succeeds or fails here; `BuildRoutes` says when. Goroutines run
on until `Exit`, and a panic in one of them runs nothing that was deferred.

## 3. The runs

| run | what is checked | instance | distinct states |
|---|---|---|---|
| `cache_race` | `TypeOK`, `SizeAccounts`, `CreateOnlyWhenAbsent`, `MemoryBoundUnlessPanic` | 2 goroutines, 2 keys, 2 elements, Get and Store, capacities 1 and 2, limit 2 | 1.4 M |
| `cache_permanent` | `PermanentNeverPanics`, `PermanentKeeps` | 2 goroutines, 2 keys, Get, capacities 1 and 2, no limit | 0.5 M |
| `cache_liveness` | `CallsReturn` | 3 goroutines, 2 keys, Get and Store, limit 1, no symmetry | 0.1 M |
| `cache_lru` | `RingOfMap`, `IsLru`, `ReturnsToLimit`, `CallsReturn` | 1 goroutine, 3 keys, all methods, capacities 1, 2, 4, limit 3 | 72 k |
| `cache_memory` | `MemoryBound` is violated | 2 goroutines, 3 keys, Get, limit 2 | - |
| `serving` | `TypeOK`, `BodyIsOfRoute`, `NeverOlder`, `PermanentNeverChanges`, `NonceOfPage`, `ErrorsAreBare` | 2 clients; a permanent file, a compressible file of the sized cache, a nonced index; 2 versions, 2 nonces; requests with each condition and each kind of range | 3.2 M |
| `serving_collision` | `BodyIsOfRoute` is violated | as above, the other file is named like the gzip variant and shares the cache | - |
| `serving_revalidation` | `RevalidationIsTrue` is violated | as `serving` | - |
| `startup` | `TypeOK`, `LinesAreRight`, `TotalIsSum`, `ExporterIsShut`, `ReportIsPrinted`, `ServesAnyway` | 3 routes that cache 0, up to 1, up to 2 bytes; no terminal, or one of 2, 3 or 5 rows, with the report starting on any of them | 207 k |
| `build_routes` | `TypeOK`, `SizesReadBack`, `IsRouteTable`, `WalkIsFinite` | 7 directories of up to 6 entries, 11 sets of flags | 86 k |
| `default_directory` | `DirectoryIsServed` is violated | as `build_routes` | - |
| `max_age` | `MaxAgeInSeconds` is violated | as `build_routes` | - |

Why these bounds are enough to mean something:

* Two goroutines are enough for two moves to interleave, and for two `Get` to
  miss together; the third in `cache_liveness` makes a writer wait for a reader
  while another writer waits for it. Calls repeat without bound.
* Capacities 1 and 2 under limit 2 make a store evict none, one or two keys,
  and a replacement grow or shrink; capacity 4 over limit 3 is never stored.
* In the race runs the number of elements is a bound of the model: a corrupted
  ring can keep elements reachable that the map has forgotten (in Go it leaks
  them), and a store then finds no free element. That is where those two runs
  may stop, and why they have `CHECK_DEADLOCK FALSE`. So have `startup`, where a
  process that has exited stops, and the three runs of `BuildRoutes`, which
  returns. No other run does.
* In `cache_permanent` a creator can make two values for a key, so that a value
  created twice would show as one that changed. Nothing is ever removed from an
  unlimited cache, so that the code of `cache.go` cannot make a pointer nil there:
  what `PermanentNeverPanics` could reveal is a list whose insertion leaves one
  nil, and that is the mutant it is tested with.
* `cache_liveness` has one element at rest, hence no moves, and no panics;
  `cache_lru` checks `CallsReturn` with moves and with several evictions in one
  call. That calls return after a panic is checked by neither: the smallest
  instance with a panic has more than ten million states even with symmetry,
  which liveness forbids.
* 3 routes on 2, 3 and 5 rows: more routes than rows, as many, and room below. The
  report starts on any row, so that it ends on the last one or above it.
* Keys, elements, goroutines, clients and nonces are interchangeable, so the
  safety runs use symmetry. The runs with liveness do not.
* Two versions of a file distinguish stale from fresh. `Nonces` bounds how many
  nonced pages are answered, since the 32 random bytes of a nonce never repeat;
  two are enough for two pages in flight.
* The requests have, on one route or another, each answer of `ServeContent`: 200,
  206, 304, 412 and 416. `ErrorsAreBare` says of an error with headers that its
  content was there and that the client had set a condition or a range.
* The directories of `build_routes` have each kind of entry once, two pages that
  may be nonced (so that one clone could leak into another), a file at each
  side of the threshold, a link that leads back, and one defect or none; the
  flags differ from the default in one thing each. Any subset of the files may
  vanish at any time. With `Base` 4 and `Word` 2048 all five suffixes fit; 9T
  wraps to -1792, which `String` divides once too often, and 2048 is not an
  integer of that width. `SizesReadBack` claims nothing from `Base`^5 on, where
  the last suffix does not grow any more.

### What the violations show

* **`cache_memory`.** Two lookups corrupt the ring; a later eviction reaches the
  sentinel, or an element whose key is gone, and panics (`cache.go:73`, `:77`).
  The deferred unlock then frees a cache that is above its limit, although
  `src/README.md:12` promises a reliable memory target. In a request goroutine
  `net/http` recovers the panic; in a `PreCache` goroutine nothing does, and
  the server exits (`PreCachePanics` in `Startup`). `MemoryBoundUnlessPanic`
  holds and is proved, and so is that without two moves at once the limit holds
  and nothing panics: no other path leads there.
* **`serving_collision`.** The cache key of a variant is the path plus `.gz`,
  `.br` or `.deflate` (`routes.go:79`). If the bundle also contains a file of
  that name, as bundles compressed ahead do, the two share a slot.
* **`serving_revalidation`.** `modtime` is read when the routes are built
  (`build_route.go:153`), content when it is not in the cache. After a rewrite,
  a client with the old date is told "not modified".
* **`default_directory`.** The directory is an optional argument, documented to be
  "." by default (`config.go:93`, `src/README.md:90`); nothing sets it, and
  `WalkDir("")` fails. The property speaks of every way to name the directory:
  it is violated as well by one that is a link, for which there is one route,
  that of the link.
* **`max_age`.** `%d` prints a `time.Duration` in nanoseconds
  (`build_route.go:185`). (A second, smaller difference needs no run: the default
  is `no-cache` and not the `max-age=0; must-revalidate` of `src/README.md:54`,
  which means the same to a cache.)

### What the report looks like

`LinesAreRight` and `TotalIsSum` say what is true of the report on a terminal, and
not that it is always right: it is not, because of the two moves above. While the
cursor is undisturbed (off a terminal; in a window with room for all lines whose
last row the report has reached; or in any with room until the last route has been
rewritten) every line has its own route. Afterwards, with room for all lines, a
report slips by one line at most. In any window it slips only downwards, no route
is shown with the size of another, and the total comes below all lines. That is
no violation run, because no document of the repository says what the
report looks like.

### Fairness

* `LruCache`: weak fairness of every goroutine's step (Go's scheduler runs each
  goroutine that can run), and strong fairness of `LockWanted`: `sync.Mutex`,
  on which writers queue inside RWMutex, hands itself over to a goroutine that
  has waited for more than a millisecond. `Call` has none: nobody has to call
  the cache. The creator is assumed to return or to fail.
* `Lru`: weak fairness of `Drop` (`LruProgress`), which is a promise and not an
  assumption: `ReturnsToLimit` says that the fairness of `LruCache` keeps it.
* `BuildRoutes`: weak fairness of its step. It is sequential; only a read that
  never returns (a pipe under the name of a nonced page) could stop it.
* `Startup`: weak fairness of `Execute` up to `Listen` and of `Exit`, of the
  printer and of the workers, except of `PreCache` itself: it may read a pipe
  for ever. `ReportIsPrinted` therefore assumes that the workers leave
  `PreCache`, and `ServesAnyway` does not.

## 4. What is proved

A theorem holds for every value of the constants that the named assumptions of
the modules allow. These say no more than what makes a constant the thing it
stands for: the sentinel, nil, and the absent goroutine are none of the elements,
values and goroutines (`NodesAssumption`, `NilAssumption`,
`NoGoroutineAssumption`, `NoneAssumption`); a terminal has two rows or more
(`HeightsAssumption`); keys, elements and routes are finitely
many (`KeysAssumption`, `FiniteNodesAssumption`, `NAssumption`); capacities and
sizes are natural numbers, the limit is an integer; a route has one kind and a
sequence of codings; the listing order is a sequence of paths, and what is in a
tree is in a directory of it (`OrderAssumption`, `TreesAssumption`); flags have
their types; `Base` is above 1 and `Word` has room for the largest suffix
(`BaseAssumption`, `WordAssumption`). TLC evaluates all of them in the runs.

### The cache: `LruCacheProofs`

| theorem | states |
|---|---|
| `TypeCorrect` | `Spec => []TypeOK` |
| `MovesAreSafe` | no assignment of `MoveToFront` ever meets a nil node, so only the eviction can panic |
| `SizeIsAccounted` | `Spec => []SizeAccounts`: `c.size` is the sum of what the map holds, also after a panic |
| `BoundedUnlessPanic` | `Spec => []MemoryBoundUnlessPanic` |
| `CreatedOnlyWhenAbsent` | `Spec => []CreateOnlyWhenAbsent` |
| `PermanentIsSafe` | `Spec => []PermanentNeverPanics` |
| `PermanentIsKept` | `Spec => PermanentKeeps` |

All for any interleaving, races included. The argument rests on `IInv`, which is
`TypeOK` and three parts:

* `LockInv`: who reads, waits or writes is where the code says so, and a granted
  writer is alone. This is what makes the steps under the write lock atomic.
* `PointerInv`: although racing moves break the ring, they cannot make a pointer
  wild: the pointers of every linked element lead to elements that were pushed
  or to the sentinel, what a move is about to store is such an element, and the
  map refers to linked elements that carry its own keys. `TypeOK` is not
  inductive without it: the model of a move indexes the pointers by its
  operands, as Go dereferences them.
* `CallInv`: a goroutine has a key and a value where it uses them, and a move is
  of an element of the map.

On top of it, `SizeInv` (above the limit, without a panic, only a store that has
yet to evict) gives the bound, `AbsentInv` (the `Get` that stores holds the lock
under which it found the key absent) gives the single creation, and `AccountInv`
(what is not in the map holds nothing) gives the size: storing a key anew adds
its capacity and takes none away.

### Sums: `LeastNumber`, `SumsProofs`

`SumOver` is a fold over a set, in an order that `CHOOSE` fixes. `SumExcept` (the
sum changes by the difference when one summand does), `SumRemove`,
`SumOfNoughts` and `SumSubset` say that this order does not matter. The
induction this needs cannot be cited, because the library states it with an
operator for a parameter. It is done by hand each time: the set of the
cardinalities for which the claim fails is a set of natural numbers, and if it
is not empty it has a least element (`LeastElement`), which leads to a
contradiction.

### Without a race: `LruRefinementProofs`

`cache_race` and `cache_memory` show what two moves at once can do. These theorems
show that nothing else does it, for any number of goroutines. `OneMover` is that
no two goroutines are in `MoveToFront` together, `OneReader` that no two hold the
read lock together; the hypotheses speak of the behaviour, and the code does
nothing to establish them, except where there is one goroutine.

| theorem | states |
|---|---|
| `RingIsOfMap` | `Spec /\ []OneMover => []RingOfMap` |
| `OnlyRacesPanic` | `Spec /\ []OneMover => []~panicked` |
| `BoundedUnlessRace` | `Spec /\ []OneMover => []MemoryBound` |
| `ImplementsLru` | `Spec /\ []OneReader => IsLru` |
| `AloneImplementsLru` | `Spec => IsLru` when there is one goroutine |

`RingOfMap` is not inductive: in the middle of a move there is no ring. `RingInv`
says that some sequence `s` of elements, each once, is what the pointers spell,
or that one goroutine is moving the element at place `j >= 2` of `s` and has made
some of its six assignments. `Stage(s, j, i)` says for each of them what the two
chains spell: `s`, then `s` without the element, then `s` with the element in
front, the `prev` chain out of step with the `next` chain. `MapInv` adds that the
ring has the elements of the map, that a value evaluated for an assignment is
still what it was, and that nobody has panicked. `MoveStage` goes through the six
assignments, both outcomes of the fifth included. That `Walk` finds the sequence
the pointers spell is `WalkIs`, without induction: the explicit sequence solves
the recursive equation, so the `CHOOSE` of the definition has something to choose,
and every solution agrees with it at the least place where it could not.

In the refinement the six assignments are one step: `MoveEvaluate` is a stutter, the
first assignment too (the key counts as moved from `Lookup` on, which is
`Touch`), and so are the others; `LoadHit` is `Answer`, a store `Put`, a turn of
the eviction `Drop`, and every other action leaves the mapping alone. `OneReader`
and not `OneMover` is needed here, because `Reply` is one reader's.

### Serving: `ServingProofs`

| theorem | states |
|---|---|
| `TypeCorrect` | `Spec => []TypeOK` |
| `ErrorsOfRoutesAreBare` | `Spec => []ErrorsAreBare` |
| `NonceIsOfPage` | `Spec => []NonceOfPage` |
| `PermanentIsKept` | `Spec => []PermanentNeverChanges` |
| `BodiesAreOfRoutes` | `KeysAreDistinct` implies `Spec => []BodyIsOfRoute` |
| `VersionsNeverGoBack` | `KeysAreDistinct` implies `Spec => []NeverOlder` |

`KeysAreDistinct` is that no two pairs of a static route and one of its codings
share a slot. It is a fact about the names in the bundle that the code does not
check: the instance of `serving` has it, that of `serving_collision` does not, and
there `BodyIsOfRoute` fails. The other four theorems hold without it.

The invariants and the lemma they share: `RouteInv` (where a goroutine is says which kind of route it serves
and whether it has a body), `ContentServed` (what `http.ServeContent` may do with an
answer, and that it refuses only what has a condition or a range), `FileInv` (each cache holds bodies of its own kind of
file), `NonceInv` (no two goroutines have the same nonce), `PermanentInv` (what the
permanent cache has sent it still holds) and `AgeInv`. The last one is the heart of
`NeverOlder`: `seen`, the newest version sent, the version in the cache, the one
that a goroutine is about to send and the one on the disk are in order, slot by
slot; it is the eviction between a `Get` and its answer that makes it
necessary to say that the body in hand is at most as new as the cached one.

### Startup: `StartupProofs`

| theorem | states |
|---|---|
| `TypeCorrect` | `Spec => []TypeOK`: the WaitGroup never goes below zero |
| `LinesSlipByOne` | `Spec => []LinesAreRight` |
| `TotalIsOfAll` | `Spec => []TotalIsSum` |
| `ExporterIsClosed` | `Spec => []ExporterIsShut` |

For any number of routes, and any window of two rows or more. `LoopInv`
(goroutines start in order), `MutexInv` (on a terminal the mutex is the loop's
until the last line is printed, then that of the goroutine at its line), `CountInv`
(the WaitGroup is the number of goroutines that have started and not ended, the
total the sum of what those past `AddTotal` have cached), `ExporterInv`, and two
for the terminal. `CursorInv` ties the cursor to the loop and to the window: where
a report of that many lines that starts on row `first` must have it, or one line
lower once the last route has been rewritten. `ScreenInv` is `LinesAreRight` with
what a line owes to the goroutines that have been there. `UpdateMoves` is the
arithmetic between them: which line a worker meets from a cursor that is where
`CursorInv` says, clamped or not.

### Route builder and configuration: `BuildRoutesProofs`, `ConfigurationProofs`

| theorem | states |
|---|---|
| `TypeCorrect` | `Spec => []TypeOK` |
| `ImplementsRouteTable` | `Spec => IsRouteTable` |
| `SizesAreReadBack` | `Spec => []SizesReadBack` |

The refinement is for every directory, all flags, and whatever vanishes. Its steps
are `FailsForAReason` (each early return has one of `RouteTable`'s reasons),
`EndsWithTheTable` and stutters. The invariants: `DiskInv` (what was removed has
nothing below it), `FlagsInv`, `TodoInv` (what is listed was in the directory, as it
was), `RoutesInv` (the routes made so far are the right ones, each nonced page with
a name space of its own) and `CoverInv`, which makes the end of the walk the end of
the work: whatever is still on the disk is settled, or at or below an
entry that is still listed. Where it is needed that a path leads down from the
root, the least place at which it leaves what was visited is taken.

The first attempt failed for a good reason: when the directory of the command
line is a link and is named among the nonced pages, the model took a directory
that can be listed for a page that can be read. `CanBeRead` says what
`os.ReadFile` needs, and the flags of `build_routes` have that case now.

`ConfigurationProofs` has the arithmetic: `WrapOfInt64`, `DivisionsAre` (`String`
divides as often as the size allows), `ReadsBack` and `PrintedAsWritten`.

### How it was found out, and what is only model-checked

Every inductive invariant was first given to TLC as an invariant of a run, the
hypotheses `OneMover` and `OneReader` as constraints of an instance with two
goroutines.

Only model-checked:

* All liveness, for which the provers have no means: `CallsReturn`,
  `ReturnsToLimit`, `ReportIsPrinted`, `ServesAnyway`, `WalkIsFinite`.
* The violated properties, which have counterexamples: `MemoryBound` without its
  hypothesis, `BodyIsOfRoute` with a collision, `RevalidationIsTrue`,
  `DirectoryIsServed`, `MaxAgeInSeconds`.
* That `MCServing` gives `Serving` the attributes that the builder computes: the
  two are proved about apart.

Every safety property and every refinement of a passing run is proved, four of
them (`RingOfMap`, `IsLru`, `BodyIsOfRoute`, `NeverOlder`) under the hypotheses
above.

## 5. Not modelled

* What the OpenTelemetry SDK and zap do: spans, batches, log lines. `Startup` has
  the outcomes of setting them up. `setTelemetry` hands out the shutdown of the
  exporter and not of the provider, so that the last batch is lost; the batch is
  the library's and not in the model.
* A signal that ends the process: no code handles one, and nothing is left behind.
* The MIME types of the routes, and the defaults of the flags.
* In `BuildRoutes`, files that appear or are rewritten during the walk, and a
  `float64` that loses digits above 2^53.
* The codecs, `text/template`, `net/http` beyond what the routes rely on: the
  conditions and ranges, the panic that is recovered, the headers of an error.
* Of a nonced page, a policy template without the nonce token: the page then has a
  nonce that its policy does not allow, as the author of the policy wrote it.
* An `Accept-Encoding` with weights: the code looks for names, so that a coding
  refused with `q=0` counts as named, in the model as in the code.
* Sizes from `Base`^5 on are in no property, as said above, although `Configuration`
  computes what is printed for them.
* Weak memory and torn reads of files, as said above.

## 6. Plan

Done: all modules of section 2, their runs, and a theorem for every safety
property and refinement that a passing run checks.

Next:

1. `KeysAreDistinct` from the names: which bundles have it (no path is another one
   followed by the extension of a coding), as a theorem about the slots of
   `Serving`, so that the hypothesis becomes one about file names.
2. The lock by itself: mutual exclusion of `RWMutex` as a specification of its own
   that the steps of `LruCache` implement.
3. `Get` as one step: that `LruCache` implements what `Serving` takes for granted
   of a cache (a hit, a creation, a failure, with any evictions), also when
   lookups race.
4. A cache without a limit implements a map, for any number of goroutines and
   with their races.
