------------------------------ MODULE Serving ------------------------------
(***************************************************************************)
(* Requests: the Handler, StaticRoute and NoncedRoute of internal/ath, with *)
(* the files they serve and the clients that ask for them.  The routes are  *)
(* those that BuildRoutes made when the server started; the files may       *)
(* change afterwards.  Get runs as one step here: LruCache has its own.     *)
(* The sized cache may drop any key when it stores another.                 *)
(***************************************************************************)
EXTENDS Integers, SequencesExt

CONSTANTS
  Clients,        \* each has one request at a time, served by one goroutine
  Static,         \* the paths with a StaticRoute
  Nonced,         \* the paths with a NoncedRoute
  Index,          \* "/index.html"
  Enabled,        \* Enabled[p]: the route's enabledCompression
  Identity,       \* the coding that is none
  CacheKey,       \* CacheKey[p][c]: c.AddExtension(filepath) of route p
  Permanent,      \* the static routes whose cache is the permanent one
  CacheControl,   \* CacheControl[p]: the header of static route p
  Requests,       \* the requests that clients make
  Nonces,         \* the values crypto/rand may return (bounds the nonced answers)
  MaxVersion,     \* bound: how often a file is rewritten
  None

Routes == Static \cup Nonced
Codings == {Identity} \cup UNION {ToSet(Enabled[p]) : p \in Routes}

\* A request: its path, the codings whose names occur in its Accept-Encoding
\* header, and its conditions.  If-Match and If-None-Match name any version or a
\* tag, which no answer has; the dates of If-Unmodified-Since, If-Modified-Since
\* and If-Range are versions, or 0 for one before all of them; a range is part of
\* the content or beyond it.
ASSUME RequestsAssumption ==
  \A r \in Requests :
    /\ r.method \in {"GET", "POST"}
    /\ {r.match, r.noneMatch} \subseteq {"none", "any", "tag"}
    /\ r.since \in 0 .. MaxVersion
    /\ {r.unmodified, r.ifRange} \subseteq 0 .. MaxVersion \cup {None}
    /\ r.range \in {"none", "part", "beyond"}
ASSUME EnabledAssumption == \A p \in Routes : Enabled[p] \in Seq(Codings)
ASSUME MaxVersionAssumption == MaxVersion \in Nat \ {0}
ASSUME RoutesAssumption == Static \cap Nonced = {} /\ Permanent \subseteq Static
ASSUME CacheControlAssumption == \A p \in Static : CacheControl[p] # "no-store"

VARIABLES
  version,   \* version[p]: the last version of the file of p; also its modtime
  readable,  \* the files that can be opened
  cached,    \* cached[s]: what the slot s of a cache holds, or None
  pending,   \* pending[p]: the codings that PreCache has yet to ask for
  pc,        \* where the goroutine of a client is
  req,       \* its request
  data,      \* the body it is about to send
  policy,    \* the nonce in the policy that NoncedRoute has rendered
  resp,      \* the response it has sent
  used,      \* the nonces that have been generated (history)
  seen,      \* seen[s]: the newest version sent from the slot (history)
  floor      \* the newest version sent when the request arrived (history)

fileVars == <<version, readable>>
requestVars == <<req, data, policy, resp>>
historyVars == <<used, seen, floor>>
vars == <<fileVars, cached, pending, pc, requestVars, historyVars>>

\* The modtime of a route is the one its file had when the routes were built.
Modtime == 1

\* The route of a path: any path without one gets the one of Index, if any.
Target(p) == IF p \in Routes THEN p ELSE Index

\* The coding of a response: the route's first for a header that contains "*",
\* otherwise its first whose name the header contains.
FindCompression(p, accept) ==
  LET named == {i \in DOMAIN Enabled[p] : Enabled[p][i] \in accept \/ "*" \in accept} IN
  IF named = {} THEN Identity ELSE Enabled[p][Min(named)]

\* Mutant of Slot: the coding is left out of the key.
SlotPlain(p, c) ==
  <<IF p \in Permanent THEN "permanent" ELSE "sized", CacheKey[p][Identity]>>

\* A place in a cache: the two caches may use the same key.
Slot(p, c) ==
  <<IF p \in Permanent THEN "permanent" ELSE "sized", CacheKey[p][c]>>

SlotFor(r) == Slot(Target(r.path), FindCompression(Target(r.path), r.accept))

Slots == UNION {{Slot(p, c) : c \in Codings} : p \in Static}
Bodies == [file : Routes, version : 1 .. MaxVersion, coding : Codings,
           nonce : Nonces \cup {None}]
Success == {200, 206}
Responses == [status : {200, 206, 304, 404, 412, 416, 500}, body : Bodies \cup {None},
              encoding : Codings, control : {"no-store", ""} \cup {CacheControl[p] : p \in Static},
              csp : Nonces \cup {None}]

ASSUME NoneAssumption == None \notin Bodies \cup Nonces

TypeOK ==
  /\ version \in [Routes -> 1 .. MaxVersion]
  /\ readable \in SUBSET Routes
  /\ cached \in [Slots -> Bodies \cup {None}]
  /\ pending \in [Static -> Seq(Codings)]
  /\ pc \in [Clients -> {"idle", "get", "serve", "nonce", "render", "serveNonced", "done"}]
  /\ req \in [Clients -> Requests \cup {None}]
  /\ data \in [Clients -> Bodies \cup {None}]
  /\ policy \in [Clients -> Nonces \cup {None}]
  /\ resp \in [Clients -> Responses \cup {None}]
  /\ used \in SUBSET Nonces
  /\ seen \in [Slots -> 0 .. MaxVersion]
  /\ floor \in [Clients -> 0 .. MaxVersion]

-----------------------------------------------------------------------------
(* The files *)

Rewrite(p) ==
  /\ version[p] < MaxVersion
  /\ version' = [version EXCEPT ![p] = @ + 1]
  /\ readable' = readable \cup {p}
  /\ UNCHANGED <<cached, pending, pc, requestVars, historyVars>>

Delete(p) ==
  /\ p \in readable
  /\ readable' = readable \ {p}
  /\ UNCHANGED <<version, cached, pending, pc, requestVars, historyVars>>

\* Mutant of Readable: the file was read before the lock was taken.
ReadableEarly(p) == IF p \in readable THEN 1 .. version[p] ELSE {}

\* The versions that a creator which runs under the lock can read.
Readable(p) == IF p \in readable THEN {version[p]} ELSE {}

StaticBody(p, v, c) == [file |-> p, version |-> v, coding |-> c, nonce |-> None]

-----------------------------------------------------------------------------
(* The cache, seen by its callers *)

\* Mutant of Evictable: the permanent cache has a limit too.
EvictableAll == Slots

\* The slots that a store may evict.
Evictable == {s \in Slots : s[1] = "sized"}

\* Store b in slot s: the keys that make room for it go.  The sized cache does
\* not keep a value that is larger than the cache.
StoreIn(s, b) ==
  \/ \E gone \in SUBSET (Evictable \ {s}) :
       /\ s[1] = "permanent" => gone = {}
       /\ cached' = [t \in Slots |-> IF t = s THEN b ELSE IF t \in gone THEN None ELSE cached[t]]
  \/ s[1] = "sized" /\ UNCHANGED cached

-----------------------------------------------------------------------------
(* PreCache: the startup goroutine of a static route *)

PreCacheGet(p) ==
  /\ pending[p] # <<>>
  /\ pending' = [pending EXCEPT ![p] = Tail(@)]
  /\ LET c == Head(pending[p]) IN
       \/ cached[Slot(p, c)] # None /\ UNCHANGED cached
       \/ cached[Slot(p, c)] = None /\ Readable(p) = {} /\ UNCHANGED cached
       \/ /\ cached[Slot(p, c)] = None
          /\ \E v \in Readable(p) : StoreIn(Slot(p, c), StaticBody(p, v, c))
  /\ UNCHANGED <<fileVars, pc, requestVars, historyVars>>

-----------------------------------------------------------------------------
(* A request reaches the Handler *)

Goto(c, l) == pc' = [pc EXCEPT ![c] = l]

SlotOf(c) == SlotFor(req[c])
Coding(c) == FindCompression(Target(req[c].path), req[c].accept)

Response(status, body, encoding, control, csp) ==
  [status |-> status, body |-> body, encoding |-> encoding, control |-> control, csp |-> csp]

\* An answer of http.Error, made before any header is set.
Bare(status) == Response(status, None, Identity, "", None)

Send(c, r) ==
  /\ resp' = [resp EXCEPT ![c] = r]
  /\ Goto(c, "done")

\* The request r arrives, and Handler looks its route up.  The routes never
\* change: nothing can happen in between that matters.
Arrive(c, r) ==
  /\ pc[c] = "idle"
  /\ req' = [req EXCEPT ![c] = r]
  /\ floor' = [floor EXCEPT ![c] = IF Target(r.path) \in Static THEN seen[SlotFor(r)] ELSE 0]
  /\ UNCHANGED <<fileVars, cached, pending, data, policy, used, seen>>

NotFound(c, r) ==
  /\ r.method # "GET" \/ Target(r.path) \notin Routes
  /\ Arrive(c, r)
  /\ Send(c, Bare(404))

Dispatch(c, r) ==
  /\ r.method = "GET"
  /\ Target(r.path) \in Routes
  /\ Arrive(c, r)
  /\ Goto(c, IF Target(r.path) \in Static THEN "get" ELSE "nonce")
  /\ UNCHANGED resp

-----------------------------------------------------------------------------
(* http.ServeContent: request r, content modified at m, ok the answer to a request
   without conditions, whose headers are set already *)

PreconditionFails(r, m) ==
  \/ r.match = "tag"
  \/ r.match = "none" /\ r.unmodified # None /\ m > r.unmodified

NotModified(r, m) ==
  \/ r.noneMatch = "any"
  \/ r.noneMatch = "none" /\ m <= r.since

\* A range of another version is not what the client wants.
Ranged(r, m) == r.range # "none" /\ r.ifRange \in {None, m}

\* Answers that differ from ok keep its headers; only a 304 drops the one of the
\* coding.  (Content is never empty here: a range beyond empty content is ignored.)
Altered(ok, status, body, encoding) == Response(status, body, encoding, ok.control, ok.csp)

ServeContent(r, m, ok) ==
  CASE PreconditionFails(r, m) -> Altered(ok, 412, None, ok.encoding)
    [] ~PreconditionFails(r, m) /\ NotModified(r, m) -> Altered(ok, 304, None, Identity)
    [] OTHER ->
         IF ~Ranged(r, m) THEN ok
         ELSE IF r.range = "part" THEN Altered(ok, 206, ok.body, ok.encoding)
         ELSE Altered(ok, 416, None, ok.encoding)

-----------------------------------------------------------------------------
(* StaticRoute.ServeHTTP *)

\* What the creator of c's route and coding may return.
Made(c) ==
  {StaticBody(Target(req[c].path), v, Coding(c)) : v \in Readable(Target(req[c].path))}

GetHit(c) ==
  /\ pc[c] = "get"
  /\ cached[SlotOf(c)] # None
  /\ data' = [data EXCEPT ![c] = cached[SlotOf(c)]]
  /\ Goto(c, "serve")
  /\ UNCHANGED <<fileVars, cached, pending, req, policy, resp, historyVars>>

GetCreates(c) ==
  /\ pc[c] = "get"
  /\ cached[SlotOf(c)] = None
  /\ \E b \in Made(c) : data' = [data EXCEPT ![c] = b] /\ StoreIn(SlotOf(c), b)
  /\ Goto(c, "serve")
  /\ UNCHANGED <<fileVars, pending, req, policy, resp, historyVars>>

\* Mutants of GetFails: the headers are set before Get is called; the error is
\* ignored, and the nil slice served.
GetFailsLate(c) ==
  /\ pc[c] = "get"
  /\ cached[SlotOf(c)] = None
  /\ Made(c) = {}
  /\ Send(c, Response(500, None, Coding(c), CacheControl[Target(req[c].path)], None))
  /\ UNCHANGED <<fileVars, cached, pending, req, data, policy, historyVars>>

GetFailsSilently(c) ==
  /\ pc[c] = "get"
  /\ cached[SlotOf(c)] = None
  /\ Made(c) = {}
  /\ data' = [data EXCEPT ![c] = <<>>]
  /\ Goto(c, "serve")
  /\ UNCHANGED <<fileVars, cached, pending, req, policy, resp, historyVars>>

GetFails(c) ==
  /\ pc[c] = "get"
  /\ cached[SlotOf(c)] = None
  /\ Made(c) = {}
  /\ Send(c, Bare(500))
  /\ UNCHANGED <<fileVars, cached, pending, req, data, policy, historyVars>>

\* The eviction panics on a list that racing lookups have corrupted (LruCache):
\* the value is stored, net/http recovers, and the client gets no response.
GetPanics(c) ==
  /\ pc[c] = "get"
  /\ SlotOf(c)[1] = "sized"
  /\ cached[SlotOf(c)] = None
  /\ \E b \in Made(c) : StoreIn(SlotOf(c), b)
  /\ Goto(c, "idle")
  /\ req' = [req EXCEPT ![c] = None]
  /\ floor' = [floor EXCEPT ![c] = 0]
  /\ UNCHANGED <<fileVars, pending, data, policy, resp, used, seen>>

\* The headers, then http.ServeContent with the modtime of the route.
ServeStatic(c) ==
  /\ pc[c] = "serve"
  /\ LET control == CacheControl[Target(req[c].path)] IN
       Send(c, ServeContent(req[c], Modtime, Response(200, data[c], Coding(c), control, None)))
  /\ UNCHANGED <<fileVars, cached, pending, req, data, policy, historyVars>>

-----------------------------------------------------------------------------
(* NoncedRoute.ServeHTTP *)

GenerateNonce(c) ==
  /\ pc[c] = "nonce"
  /\ \E n \in Nonces \ used :
       /\ used' = used \cup {n}
       /\ data' = [data EXCEPT ![c] = [file |-> Target(req[c].path), version |-> 1,
                                       coding |-> Coding(c), nonce |-> n]]
  /\ Goto(c, "render")
  /\ UNCHANGED <<fileVars, cached, pending, req, policy, resp, seen, floor>>

\* No nonce, or a template or the compression fails: no header is set yet.
NoncedFails(c) ==
  /\ pc[c] \in {"nonce", "render"}
  /\ Send(c, Bare(500))
  /\ UNCHANGED <<fileVars, cached, pending, req, data, policy, historyVars>>

\* Mutant of RenderPolicy: the policy is rendered with a nonce of its own.
RenderPolicyAgain(c) ==
  /\ pc[c] = "render"
  /\ \E n \in Nonces : policy' = [policy EXCEPT ![c] = n]
  /\ Goto(c, "serveNonced")
  /\ UNCHANGED <<fileVars, cached, pending, req, data, resp, historyVars>>

RenderPolicy(c) ==
  /\ pc[c] = "render"
  /\ policy' = [policy EXCEPT ![c] = data[c].nonce]
  /\ Goto(c, "serveNonced")
  /\ UNCHANGED <<fileVars, cached, pending, req, data, resp, historyVars>>

\* The page is modified now, which may be before, at or after any date of the client:
\* dates count seconds, and are the client's.
ServeNonced(c) ==
  /\ pc[c] = "serveNonced"
  /\ \E now \in 1 .. MaxVersion + 1 :
       Send(c, ServeContent(req[c], now, Response(200, data[c], Coding(c), "no-store", policy[c])))
  /\ UNCHANGED <<fileVars, cached, pending, req, data, policy, historyVars>>

-----------------------------------------------------------------------------
(* The client *)

\* The response has been received: the client may make another request.
Receive(c) ==
  /\ pc[c] = "done"
  /\ Goto(c, "idle")
  /\ req' = [req EXCEPT ![c] = None]
  /\ data' = [data EXCEPT ![c] = None]
  /\ policy' = [policy EXCEPT ![c] = None]
  /\ resp' = [resp EXCEPT ![c] = None]
  /\ seen' = IF resp[c].status \in Success /\ resp[c].body.file \in Static
             THEN [seen EXCEPT ![SlotOf(c)] = IF @ > resp[c].body.version THEN @ ELSE resp[c].body.version]
             ELSE seen
  /\ floor' = [floor EXCEPT ![c] = 0]
  /\ UNCHANGED <<fileVars, cached, pending, used>>

-----------------------------------------------------------------------------
(* Specification *)

Init ==
  /\ version = [p \in Routes |-> 1]
  /\ readable = Routes
  /\ cached = [s \in Slots |-> None]
  /\ pending = [p \in Static |-> Append(Enabled[p], Identity)]
  /\ pc = [c \in Clients |-> "idle"]
  /\ req = [c \in Clients |-> None]
  /\ data = [c \in Clients |-> None]
  /\ policy = [c \in Clients |-> None]
  /\ resp = [c \in Clients |-> None]
  /\ used = {}
  /\ seen = [s \in Slots |-> 0]
  /\ floor = [c \in Clients |-> 0]

Ask(c) == \E r \in Requests : NotFound(c, r) \/ Dispatch(c, r)

Handle(c) ==
  \/ GetHit(c)
  \/ GetCreates(c)
  \/ GetFails(c)
  \/ GetPanics(c)
  \/ ServeStatic(c)
  \/ GenerateNonce(c)
  \/ NoncedFails(c)
  \/ RenderPolicy(c)
  \/ ServeNonced(c)

Next ==
  \/ \E p \in Static : Rewrite(p) \/ Delete(p) \/ PreCacheGet(p)
  \/ \E c \in Clients : Ask(c) \/ Handle(c) \/ Receive(c)

Spec == Init /\ [][Next]_vars

-----------------------------------------------------------------------------
(* What makes the answers right *)

Answered(c) == pc[c] = "done" /\ resp[c].status \in Success
StaticAnswer(c) == Answered(c) /\ resp[c].body.file \in Static

\* A client that gets a page gets the one of the route it asked for, in the
\* coding that the header names, and that coding is one it asked for.
BodyIsOfRoute ==
  \A c \in Clients : Answered(c) =>
    LET r == resp[c] IN
    /\ r.body.file = Target(req[c].path)
    /\ r.body.coding = r.encoding
    /\ r.encoding \in req[c].accept \cup {Identity} \/ "*" \in req[c].accept

\* Once somebody has been sent a version of a file in some coding, nobody who
\* asks later is sent an older one, whatever was evicted in between.
NeverOlder ==
  \A c \in Clients : StaticAnswer(c) => resp[c].body.version >= floor[c]

\* A file of the permanent cache never changes once it has been sent: the cache
\* keeps it, even if the file is rewritten or removed.
PermanentNeverChanges ==
  \A c \in Clients :
    /\ StaticAnswer(c) /\ resp[c].body.file \in Permanent =>
         floor[c] \in {0, resp[c].body.version}
    /\ pc[c] = "done" /\ floor[c] # 0 /\ Target(req[c].path) \in Permanent =>
         resp[c].status # 500

\* The policy of a nonced page allows the nonce of that very page, and no other
\* page in flight has it.
NonceOfPage ==
  \A c \in Clients : Answered(c) /\ resp[c].body.file \in Nonced =>
    /\ resp[c].csp = resp[c].body.nonce
    /\ resp[c].control = "no-store"
    /\ \A d \in Clients \ {c} : data[d] # None => data[d].nonce # resp[c].csp

\* Whether r asks for it that content which is there may be refused with that status.
Conditional(r, status) ==
  \/ status = 412 /\ (r.match # "none" \/ r.unmodified # None)
  \/ status = 416 /\ r.range # "none"

\* When there is nothing to send, the error neither tells caches how long to keep it
\* nor claims a coding or a policy.  An error that does is about content that was
\* there, and only a client that set a condition or a range gets it.
ErrorsAreBare ==
  \A c \in Clients : pc[c] = "done" /\ resp[c].status >= 400 =>
    \/ resp[c] = Bare(resp[c].status)
    \/ data[c] # None /\ Conditional(req[c], resp[c].status)

\* A client is told that a file was not modified since a date only if the content
\* that it would have been sent is no newer.
RevalidationIsTrue ==
  \A c \in Clients :
    pc[c] = "done" /\ resp[c].status = 304 /\ req[c].noneMatch = "none" /\ data[c].file \in Static =>
      data[c].version <= req[c].since

=============================================================================
