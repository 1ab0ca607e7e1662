---------------------------- MODULE ServingProofs ----------------------------
(***************************************************************************)
(* Proofs about Serving, for every set of clients, routes, requests and     *)
(* nonces, and for any number of rewrites of the files.                     *)
(***************************************************************************)
EXTENDS Serving, LeastNumber, TLAPS

-----------------------------------------------------------------------------
(* The inductive invariants *)

\* Whether the goroutine of c is with a static route.
ForStatic(c) == pc[c] # "idle" /\ Target(req[c].path) \in Static

\* Whether c has a static body that it is about to send, or has sent.
Holds(c) == pc[c] = "serve" \/ (Answered(c) /\ Target(req[c].path) \in Static)

\* Where a goroutine is says which kind of route its request has, and whether it
\* has a body.
RouteInv ==
  \A c \in Clients :
    /\ pc[c] # "idle" => req[c] \in Requests
    /\ pc[c] \in {"get", "serve"} => Target(req[c].path) \in Static
    /\ pc[c] \in {"nonce", "render", "serveNonced"} => Target(req[c].path) \in Nonced
    /\ pc[c] \in {"idle", "get", "nonce"} => data[c] = None
    /\ pc[c] \in {"serve", "render", "serveNonced"} => data[c] \in Bodies
    /\ pc[c] = "done" => resp[c] \in Responses
    /\ Answered(c) => Target(req[c].path) \in Routes /\ data[c] \in Bodies /\ resp[c].body = data[c]

\* The caches hold static bodies, each cache those of its own routes.
FileInv ==
  /\ \A s \in Slots : cached[s] # None =>
       /\ cached[s].file \in Static
       /\ cached[s].nonce = None
       /\ cached[s].file \in Permanent <=> s[1] = "permanent"
  /\ \A c \in Clients : Holds(c) =>
       /\ data[c].file \in Static
       /\ data[c].nonce = None
       /\ data[c].file \in Permanent <=> Target(req[c].path) \in Permanent

\* No two goroutines have the same nonce, and the policy has the one of the page.
NonceInv ==
  /\ \A c \in Clients : data[c] # None => data[c].nonce \in used \cup {None}
  /\ \A c, d \in Clients :
       c # d /\ data[c] # None /\ data[d] # None /\ data[c].nonce # None =>
         data[c].nonce # data[d].nonce
  /\ \A c \in Clients :
       /\ pc[c] \in {"render", "serveNonced"} =>
            data[c].file = Target(req[c].path) /\ data[c].coding = Coding(c) /\ data[c].nonce \in Nonces
       /\ pc[c] = "serveNonced" => policy[c] = data[c].nonce
       /\ Answered(c) /\ Target(req[c].path) \in Nonced =>
            /\ data[c].file = Target(req[c].path)
            /\ data[c].coding = Coding(c)
            /\ data[c].nonce \in Nonces
            /\ resp[c].csp = data[c].nonce
            /\ resp[c].control = "no-store"

\* What the permanent cache has sent, it holds: nobody can be sent anything else.
PermanentInv ==
  /\ \A s \in Slots : s[1] = "permanent" /\ seen[s] # 0 =>
       cached[s] # None /\ cached[s].version = seen[s]
  /\ \A c \in Clients : ForStatic(c) /\ Target(req[c].path) \in Permanent =>
       /\ floor[c] # 0 => floor[c] = seen[SlotOf(c)]
       /\ Holds(c) => cached[SlotOf(c)] # None /\ data[c].version = cached[SlotOf(c)].version
       /\ pc[c] = "done" /\ floor[c] # 0 => resp[c].status # 500

\* The codings that the answers of a route may have.
CodingsOf(p) == {Identity} \cup ToSet(Enabled[p])

\* No two routes use the same key of the same cache.
KeysAreDistinct ==
  \A p, q \in Static : \A k \in CodingsOf(p), l \in CodingsOf(q) :
    Slot(p, k) = Slot(q, l) => p = q /\ k = l

\* With distinct keys, a slot holds a body of its own route, no older than any
\* that was sent from it; and so is the body that a goroutine is about to send.
AgeInv ==
  /\ \A p \in Static : pending[p] \in Seq(CodingsOf(p))
  /\ \A p \in Static : \A k \in CodingsOf(p) :
       /\ seen[Slot(p, k)] <= version[p]
       /\ cached[Slot(p, k)] # None =>
            /\ cached[Slot(p, k)].file = p
            /\ cached[Slot(p, k)].coding = k
            /\ cached[Slot(p, k)].version \in seen[Slot(p, k)] .. version[p]
  /\ \A c \in Clients : ForStatic(c) =>
       /\ floor[c] <= seen[SlotOf(c)]
       /\ Holds(c) =>
            /\ data[c].file = Target(req[c].path)
            /\ data[c].coding = Coding(c)
            /\ data[c].version \in floor[c] .. version[Target(req[c].path)]
            /\ cached[SlotOf(c)] # None => data[c].version <= cached[SlotOf(c)].version
  /\ \A c \in Clients : Answered(c) => resp[c].encoding = Coding(c)

-----------------------------------------------------------------------------
(* What the operators give *)

\* The coding of a response is one of its route, and one that was asked for.
LEMMA CodingOfRoute ==
  ASSUME NEW p \in Routes, NEW accept
  PROVE  /\ FindCompression(p, accept) \in CodingsOf(p)
         /\ FindCompression(p, accept) \in accept \cup {Identity} \/ "*" \in accept
<1> DEFINE named == {i \in DOMAIN Enabled[p] : Enabled[p][i] \in accept \/ "*" \in accept}
<1>1. CASE named = {}
  BY <1>1 DEF FindCompression, CodingsOf
<1>2. CASE named # {}
  <2>1. named \in SUBSET Nat
    BY EnabledAssumption
  <2>2. Min(named) \in named
    BY <1>2, <2>1, LeastElement DEF Min
  <2> HIDE DEF named
  <2>3. FindCompression(p, accept) = Enabled[p][Min(named)]
    BY <1>2 DEF FindCompression, named
  <2>4. QED
    BY <2>2, <2>3 DEF CodingsOf, ToSet, named
<1>3. QED
  BY <1>1, <1>2

\* The codings of a route are codings.
LEMMA CodingsOfRoute ==
  ASSUME NEW p \in Routes
  PROVE  CodingsOf(p) \subseteq Codings
BY DEF CodingsOf, Codings

\* A route and a coding have a slot, in the cache of the route.
LEMMA SlotOfRoute ==
  ASSUME NEW p \in Static, NEW k \in Codings
  PROVE  /\ Slot(p, k) \in Slots
         /\ Slot(p, k)[1] = "permanent" <=> p \in Permanent
BY DEF Slot, Slots

\* What the goroutine of c looks for in the cache of its route.
LEMMA SlotOfClient ==
  ASSUME NEW c \in Clients, Target(req[c].path) \in Static
  PROVE  /\ Coding(c) \in CodingsOf(Target(req[c].path))
         /\ Coding(c) \in Codings
         /\ SlotOf(c) = Slot(Target(req[c].path), Coding(c))
         /\ SlotOf(c) \in Slots
         /\ SlotOf(c)[1] = "permanent" <=> Target(req[c].path) \in Permanent
<1>1. Target(req[c].path) \in Routes
  BY DEF Routes
<1>2. Coding(c) \in CodingsOf(Target(req[c].path)) /\ Coding(c) \in Codings
  BY <1>1, CodingOfRoute, CodingsOfRoute DEF Coding
<1>3. SlotOf(c) = Slot(Target(req[c].path), Coding(c))
  BY DEF SlotOf, SlotFor, Coding
<1>4. QED
  BY <1>2, <1>3, SlotOfRoute

\* A store changes its own slot, may empty slots of the sized cache, and keeps
\* what it stores in the permanent one.
LEMMA StoreChanges ==
  ASSUME cached \in [Slots -> Bodies \cup {None}], NEW s \in Slots, NEW b \in Bodies,
         StoreIn(s, b)
  PROVE  /\ cached' \in [Slots -> Bodies \cup {None}]
         /\ \A t \in Slots : cached'[t] \in {cached[t], None} \/ (t = s /\ cached'[t] = b)
         /\ \A t \in Slots : t[1] = "permanent" =>
              cached'[t] = IF t = s THEN b ELSE cached[t]
<1>1. CASE s[1] = "sized" /\ UNCHANGED cached
  BY <1>1
<1>2. ASSUME NEW gone \in SUBSET (Evictable \ {s}),
             cached' = [t \in Slots |-> IF t = s THEN b ELSE IF t \in gone THEN None ELSE cached[t]]
      PROVE  /\ cached' \in [Slots -> Bodies \cup {None}]
             /\ \A t \in Slots : cached'[t] \in {cached[t], None} \/ (t = s /\ cached'[t] = b)
             /\ \A t \in Slots : t[1] = "permanent" =>
                  cached'[t] = IF t = s THEN b ELSE cached[t]
  BY <1>2 DEF Evictable
<1>3. QED
  BY <1>1, <1>2 DEF StoreIn

\* What a creator of a static route reads is the current version of its file.
LEMMA ReadBody ==
  ASSUME version \in [Routes -> 1 .. MaxVersion], NEW p \in Static, NEW k \in Codings,
         NEW v \in Readable(p)
  PROVE  /\ StaticBody(p, v, k) \in Bodies
         /\ v = version[p]
BY DEF Readable, StaticBody, Bodies, Routes

-----------------------------------------------------------------------------
(* Each step preserves each part *)

\* An answer of http.Error is a response with that status.
LEMMA BareAnswer ==
  ASSUME NEW status \in {404, 500}
  PROVE  /\ Bare(status) \in Responses
         /\ Bare(status).status = status
         /\ Bare(status).status \notin Success
BY DEF Bare, Response, Responses, Codings, Success

\* http.ServeContent sends the answer it was given, or part of it; or one without the
\* content, which is an error only if the request has a condition or a range.
LEMMA ContentServed ==
  ASSUME NEW r, NEW m, NEW ok \in Responses, ok.status = 200
  PROVE  LET answer == ServeContent(r, m, ok) IN
         /\ answer \in Responses
         /\ answer.status \in {200, 206, 304, 412, 416}
         /\ answer.status \in Success =>
              /\ answer.body = ok.body /\ answer.encoding = ok.encoding
              /\ answer.control = ok.control /\ answer.csp = ok.csp
         /\ answer.status >= 400 => Conditional(r, answer.status)
<1> DEFINE answer == ServeContent(r, m, ok)
           Controls == {"no-store", ""} \cup {CacheControl[p] : p \in Static}
           Statuses == {200, 206, 304, 404, 412, 416, 500}
<1>1. Responses = [status : Statuses, body : Bodies \cup {None}, encoding : Codings,
                   control : Controls, csp : Nonces \cup {None}]
  BY DEF Responses
<1> HIDE DEF Controls
<1>2. /\ ok.body \in Bodies \cup {None} /\ ok.encoding \in Codings
      /\ ok.control \in Controls /\ ok.csp \in Nonces \cup {None}
  BY <1>1
<1>3. \/ answer = Altered(ok, 412, None, ok.encoding) /\ PreconditionFails(r, m)
      \/ answer = Altered(ok, 304, None, Identity)
      \/ answer = ok
      \/ answer = Altered(ok, 206, ok.body, ok.encoding)
      \/ answer = Altered(ok, 416, None, ok.encoding) /\ r.range # "none"
  BY DEF ServeContent, Ranged
<1>4. \A status \in Statuses, body \in {ok.body, None}, encoding \in {ok.encoding, Identity} :
        Altered(ok, status, body, encoding) \in Responses
  BY <1>1, <1>2 DEF Altered, Response, Codings
<1>5. \A status, body, encoding :
        LET x == Altered(ok, status, body, encoding) IN
        /\ x.status = status /\ x.body = body /\ x.encoding = encoding
        /\ x.control = ok.control /\ x.csp = ok.csp
  BY DEF Altered, Response
<1> HIDE DEF answer
<1>6. CASE answer = Altered(ok, 412, None, ok.encoding) /\ PreconditionFails(r, m)
  <2>1. answer \in Responses /\ answer.status = 412
    BY <1>4, <1>5, <1>6
  <2>2. Conditional(r, 412)
    BY <1>6 DEF Conditional, PreconditionFails
  <2>3. QED
    BY <2>1, <2>2 DEF Success, answer
<1>7. CASE answer = Altered(ok, 304, None, Identity)
  <2>1. answer \in Responses /\ answer.status = 304
    BY <1>4, <1>5, <1>7
  <2>2. QED
    BY <2>1 DEF Success, answer
<1>8. CASE answer = ok
  BY <1>8 DEF answer
<1>9. CASE answer = Altered(ok, 206, ok.body, ok.encoding)
  <2>1. /\ answer \in Responses /\ answer.status = 206
        /\ answer.body = ok.body /\ answer.encoding = ok.encoding
        /\ answer.control = ok.control /\ answer.csp = ok.csp
    BY <1>4, <1>5, <1>9
  <2>2. QED
    BY <2>1 DEF answer
<1>10. CASE answer = Altered(ok, 416, None, ok.encoding) /\ r.range # "none"
  <2>1. answer \in Responses /\ answer.status = 416
    BY <1>4, <1>5, <1>10
  <2>2. QED
    BY <1>10, <2>1 DEF Success, Conditional, answer
<1>11. QED
  BY <1>3, <1>6, <1>7, <1>8, <1>9, <1>10

\* A static route answers with the body it holds, or says why it does not.
LEMMA StaticAnswered ==
  ASSUME TypeOK, RouteInv, NEW c \in Clients, ServeStatic(c)
  PROVE  /\ pc' = [pc EXCEPT ![c] = "done"]
         /\ \E r \in Responses :
              /\ resp' = [resp EXCEPT ![c] = r]
              /\ r.status \in {200, 206, 304, 412, 416}
              /\ r.status \in Success => r.body = data[c] /\ r.encoding = Coding(c)
              /\ r.status >= 400 => Conditional(req[c], r.status)
<1> DEFINE ok == Response(200, data[c], Coding(c), CacheControl[Target(req[c].path)], None)
           r == ServeContent(req[c], Modtime, ok)
<1>1. Target(req[c].path) \in Static /\ data[c] \in Bodies
  BY DEF ServeStatic, RouteInv
<1>2. Coding(c) \in Codings
  BY <1>1, SlotOfClient
<1>3. ok \in Responses /\ ok.status = 200 /\ ok.body = data[c] /\ ok.encoding = Coding(c)
  BY <1>1, <1>2 DEF Response, Responses
<1>4. pc' = [pc EXCEPT ![c] = "done"] /\ resp' = [resp EXCEPT ![c] = r]
  BY DEF ServeStatic, Send, Goto
<1> HIDE DEF ok
<1>5. /\ r \in Responses
      /\ r.status \in {200, 206, 304, 412, 416}
      /\ r.status \in Success =>
           /\ r.body = ok.body /\ r.encoding = ok.encoding
           /\ r.control = ok.control /\ r.csp = ok.csp
      /\ r.status >= 400 => Conditional(req[c], r.status)
  BY <1>3, ContentServed
<1> HIDE DEF r
<1>6. r.status \in Success => r.body = data[c] /\ r.encoding = Coding(c)
  BY <1>3, <1>5
<1>7. QED
  BY <1>4, <1>5, <1>6

\* A nonced route answers with its page and its policy, or says why it does not.
LEMMA NoncedAnswered ==
  ASSUME TypeOK, RouteInv, NEW c \in Clients, ServeNonced(c)
  PROVE  /\ pc' = [pc EXCEPT ![c] = "done"]
         /\ \E r \in Responses :
              /\ resp' = [resp EXCEPT ![c] = r]
              /\ r.status \in {200, 206, 304, 412, 416}
              /\ r.status \in Success =>
                   /\ r.body = data[c]
                   /\ r.encoding = Coding(c)
                   /\ r.control = "no-store"
                   /\ r.csp = policy[c]
              /\ r.status >= 400 => Conditional(req[c], r.status)
<1> DEFINE ok == Response(200, data[c], Coding(c), "no-store", policy[c])
           r(m) == ServeContent(req[c], m, ok)
<1>1. Target(req[c].path) \in Nonced /\ data[c] \in Bodies /\ policy[c] \in Nonces \cup {None}
  BY DEF ServeNonced, RouteInv, TypeOK
<1>2. Coding(c) \in Codings
  BY <1>1, CodingOfRoute, CodingsOfRoute DEF Coding, Routes
<1>3. /\ ok \in Responses /\ ok.status = 200 /\ ok.body = data[c] /\ ok.encoding = Coding(c)
      /\ ok.control = "no-store" /\ ok.csp = policy[c]
  BY <1>1, <1>2 DEF Response, Responses
<1>4. PICK now \in 1 .. MaxVersion + 1 :
        pc' = [pc EXCEPT ![c] = "done"] /\ resp' = [resp EXCEPT ![c] = r(now)]
  BY DEF ServeNonced, Send, Goto
<1> HIDE DEF ok
<1>5. /\ r(now) \in Responses
      /\ r(now).status \in {200, 206, 304, 412, 416}
      /\ r(now).status \in Success =>
           /\ r(now).body = ok.body /\ r(now).encoding = ok.encoding
           /\ r(now).control = ok.control /\ r(now).csp = ok.csp
      /\ r(now).status >= 400 => Conditional(req[c], r(now).status)
  BY <1>3, ContentServed
<1> HIDE DEF r
<1>6. r(now).status \in Success =>
        /\ r(now).body = data[c]
        /\ r(now).encoding = Coding(c)
        /\ r(now).control = "no-store"
        /\ r(now).csp = policy[c]
  BY <1>3, <1>5
<1>7. QED
  BY <1>4, <1>5, <1>6

\* What the creator of c returns is a body of the route and the coding of c, with
\* the current version of the file.
LEMMA MadeBody ==
  ASSUME version \in [Routes -> 1 .. MaxVersion], NEW c \in Clients,
         Target(req[c].path) \in Static, NEW b \in Made(c)
  PROVE  /\ b \in Bodies
         /\ b = StaticBody(Target(req[c].path), version[Target(req[c].path)], Coding(c))
<1>1. PICK v \in Readable(Target(req[c].path)) : b = StaticBody(Target(req[c].path), v, Coding(c))
  BY DEF Made
<1>2. QED
  BY <1>1, ReadBody, SlotOfClient

\* The newest version that was sent when a request arrives is a version.
LEMMA FloorType ==
  ASSUME TypeOK, NEW c \in Clients, NEW r \in Requests, Arrive(c, r)
  PROVE  floor' \in [Clients -> 0 .. MaxVersion]
<1>1. 0 \in 0 .. MaxVersion
  BY MaxVersionAssumption
<1>2. ASSUME Target(r.path) \in Static PROVE SlotFor(r) \in Slots
  BY <1>2, SlotOfRoute, CodingOfRoute, CodingsOfRoute DEF SlotFor, Routes
<1>3. QED
  BY <1>1, <1>2 DEF Arrive, TypeOK

\* The variables keep their types.
LEMMA TypeStep ==
  ASSUME TypeOK, RouteInv, [Next]_vars
  PROVE  TypeOK'
<1> USE DEF TypeOK
<1>1. CASE UNCHANGED vars
  BY <1>1 DEF vars, fileVars, requestVars, historyVars
<1>2. ASSUME NEW p \in Static, Rewrite(p) \/ Delete(p) \/ PreCacheGet(p)
      PROVE  TypeOK'
  <2>1. CASE Rewrite(p)
    BY <2>1, MaxVersionAssumption DEF Rewrite, Routes, requestVars, historyVars
  <2>2. CASE Delete(p)
    BY <2>2 DEF Delete, requestVars, historyVars
  <2>3. CASE PreCacheGet(p)
    <3> DEFINE k == Head(pending[p])
    <3>1. k \in Codings /\ pending' \in [Static -> Seq(Codings)]
      BY <2>3 DEF PreCacheGet
    <3>2. Slot(p, k) \in Slots
      BY <3>1, SlotOfRoute
    <3>3. cached' \in [Slots -> Bodies \cup {None}]
      <4>1. CASE UNCHANGED cached
        BY <4>1
      <4>2. ASSUME NEW v \in Readable(p), StoreIn(Slot(p, k), StaticBody(p, v, k))
            PROVE  cached' \in [Slots -> Bodies \cup {None}]
        BY <4>2, <3>1, <3>2, ReadBody, StoreChanges
      <4>3. QED
        BY <4>1, <4>2, <2>3 DEF PreCacheGet
    <3>4. QED
      BY <3>1, <3>3, <2>3 DEF PreCacheGet, fileVars, requestVars, historyVars
  <2>4. QED
    BY <1>2, <2>1, <2>2, <2>3
<1>3. ASSUME NEW c \in Clients, Ask(c) \/ Handle(c) \/ Receive(c)
      PROVE  TypeOK'
  <2>1. ASSUME NEW r \in Requests, NotFound(c, r)
        PROVE  TypeOK'
    <3>1. floor' \in [Clients -> 0 .. MaxVersion]
      BY <2>1, FloorType DEF NotFound
    <3>2. QED
      BY <3>1, <2>1, BareAnswer DEF NotFound, Arrive, Send, Goto, fileVars
  <2>2. ASSUME NEW r \in Requests, Dispatch(c, r)
        PROVE  TypeOK'
    <3>1. floor' \in [Clients -> 0 .. MaxVersion]
      BY <2>2, FloorType DEF Dispatch
    <3>2. QED
      BY <3>1, <2>2 DEF Dispatch, Arrive, Goto, fileVars
  <2>3. CASE GetHit(c)
    <3>1. SlotOf(c) \in Slots
      BY <2>3, SlotOfClient DEF GetHit, RouteInv
    <3>2. QED
      BY <3>1, <2>3 DEF GetHit, Goto, fileVars, historyVars
  <2>4. CASE GetCreates(c)
    <3>1. Target(req[c].path) \in Static /\ SlotOf(c) \in Slots
      BY <2>4, SlotOfClient DEF GetCreates, RouteInv
    <3>2. PICK b \in Made(c) : data' = [data EXCEPT ![c] = b] /\ StoreIn(SlotOf(c), b)
      BY <2>4 DEF GetCreates
    <3>3. b \in Bodies
      BY <3>1, MadeBody
    <3>4. cached' \in [Slots -> Bodies \cup {None}]
      BY <3>1, <3>2, <3>3, StoreChanges
    <3>5. QED
      BY <3>2, <3>3, <3>4, <2>4 DEF GetCreates, Goto, fileVars, historyVars
  <2>5. CASE GetFails(c)
    BY <2>5, BareAnswer DEF GetFails, Send, Goto, fileVars, historyVars
  <2>6. CASE GetPanics(c)
    <3>1. Target(req[c].path) \in Static /\ SlotOf(c) \in Slots
      BY <2>6, SlotOfClient DEF GetPanics, RouteInv
    <3>2. PICK b \in Made(c) : StoreIn(SlotOf(c), b)
      BY <2>6 DEF GetPanics
    <3>3. cached' \in [Slots -> Bodies \cup {None}]
      BY <3>1, <3>2, MadeBody, StoreChanges
    <3>4. 0 \in 0 .. MaxVersion
      BY MaxVersionAssumption
    <3>5. QED
      BY <3>3, <3>4, <2>6 DEF GetPanics, Goto, fileVars
  <2>7. CASE ServeStatic(c)
    <3>1. pc' = [pc EXCEPT ![c] = "done"] /\ \E r \in Responses : resp' = [resp EXCEPT ![c] = r]
      BY <2>7, StaticAnswered
    <3>2. QED
      BY <3>1, <2>7 DEF ServeStatic, fileVars, historyVars
  <2>8. CASE GenerateNonce(c)
    <3>1. Target(req[c].path) \in Nonced
      BY <2>8 DEF GenerateNonce, RouteInv
    <3>2. Target(req[c].path) \in Routes /\ Coding(c) \in Codings
      BY <3>1, CodingOfRoute, CodingsOfRoute DEF Coding, Routes
    <3>3. PICK n \in Nonces \ used :
            /\ used' = used \cup {n}
            /\ data' = [data EXCEPT ![c] = [file |-> Target(req[c].path), version |-> 1,
                                            coding |-> Coding(c), nonce |-> n]]
      BY <2>8 DEF GenerateNonce
    <3>4. [file |-> Target(req[c].path), version |-> 1, coding |-> Coding(c), nonce |-> n] \in Bodies
      BY <3>2, MaxVersionAssumption DEF Bodies
    <3>5. data' \in [Clients -> Bodies \cup {None}] /\ used' \in SUBSET Nonces
      BY <3>3, <3>4
    <3>6. QED
      BY <3>5, <2>8 DEF GenerateNonce, Goto, fileVars
  <2>9. CASE NoncedFails(c)
    BY <2>9, BareAnswer DEF NoncedFails, Send, Goto, fileVars, historyVars
  <2>10. CASE RenderPolicy(c)
    <3>1. data[c].nonce \in Nonces \cup {None}
      BY <2>10 DEF RenderPolicy, RouteInv, Bodies
    <3>2. QED
      BY <3>1, <2>10 DEF RenderPolicy, Goto, fileVars, historyVars
  <2>11. CASE ServeNonced(c)
    <3>1. pc' = [pc EXCEPT ![c] = "done"] /\ \E r \in Responses : resp' = [resp EXCEPT ![c] = r]
      BY <2>11, NoncedAnswered
    <3>2. QED
      BY <3>1, <2>11 DEF ServeNonced, fileVars, historyVars
  <2>12. CASE Receive(c)
    <3>1. 0 \in 0 .. MaxVersion
      BY MaxVersionAssumption
    <3>2. seen' \in [Slots -> 0 .. MaxVersion]
      <4>1. CASE resp[c].status \in Success /\ resp[c].body.file \in Static
        <5>1. resp[c].body.version \in 0 .. MaxVersion
          <6>1. Answered(c)
            BY <2>12, <4>1 DEF Receive, Answered
          <6>2. resp[c].body \in Bodies
            BY <6>1 DEF RouteInv
          <6>3. QED
            BY <6>2, MaxVersionAssumption DEF Bodies
        <5> DEFINE s == SlotOf(c)
                   v == IF seen[s] > resp[c].body.version THEN seen[s] ELSE resp[c].body.version
        <5>2. seen' = [seen EXCEPT ![s] = v]
          BY <4>1, <2>12 DEF Receive
        <5>3. s \in Slots => v \in 0 .. MaxVersion
          BY <5>1
        <5> HIDE DEF s, v
        <5>4. QED
          BY <5>2, <5>3
      <4>2. CASE ~(resp[c].status \in Success /\ resp[c].body.file \in Static)
        BY <4>2, <2>12 DEF Receive
      <4>3. QED
        BY <4>1, <4>2
    <3>3. QED
      BY <3>1, <3>2, <2>12 DEF Receive, Goto, fileVars
  <2>13. QED
    BY <1>3, <2>1, <2>2, <2>3, <2>4, <2>5, <2>6,
       <2>7, <2>8, <2>9, <2>10, <2>11, <2>12 DEF Ask, Handle
<1>4. QED
  BY <1>1, <1>2, <1>3 DEF Next

\* A goroutine stays with the route of its request.
LEMMA RouteStep ==
  ASSUME TypeOK, RouteInv, [Next]_vars
  PROVE  RouteInv'
<1> USE DEF TypeOK, RouteInv
<1>1. CASE UNCHANGED vars
  BY <1>1 DEF vars, fileVars, requestVars, historyVars, Answered
<1>2. ASSUME NEW p \in Static, Rewrite(p) \/ Delete(p) \/ PreCacheGet(p)
      PROVE  RouteInv'
  <2>1. CASE Rewrite(p)
    BY <2>1 DEF Rewrite, Goto, Send, Answered, requestVars, fileVars, historyVars
  <2>2. CASE Delete(p)
    BY <2>2 DEF Delete, Goto, Send, Answered, requestVars, fileVars, historyVars
  <2>3. CASE PreCacheGet(p)
    BY <2>3 DEF PreCacheGet, Goto, Send, Answered, requestVars, fileVars, historyVars
  <2>4. QED
    BY <1>2, <2>1, <2>2, <2>3
<1>3. ASSUME NEW c \in Clients, Ask(c) \/ Handle(c) \/ Receive(c)
      PROVE  RouteInv'
  <2>1. ASSUME NEW r \in Requests, NotFound(c, r)
        PROVE  RouteInv'
    <3>1. resp' = [resp EXCEPT ![c] = Bare(404)] /\ pc' = [pc EXCEPT ![c] = "done"]
      BY <2>1 DEF NotFound, Send, Goto
    <3>2. Bare(404) \in Responses /\ Bare(404).status \notin Success
      BY BareAnswer
    <3>3. req' = [req EXCEPT ![c] = r] /\ UNCHANGED data
      BY <2>1 DEF NotFound, Arrive
    <3>4. QED
      BY <3>1, <3>2, <3>3 DEF Answered
  <2>2. ASSUME NEW r \in Requests, Dispatch(c, r)
        PROVE  RouteInv'
    <3>1. req' = [req EXCEPT ![c] = r] /\ UNCHANGED <<data, resp>> /\ pc[c] = "idle"
      BY <2>2 DEF Dispatch, Arrive
    <3>2. pc' = [pc EXCEPT ![c] = IF Target(r.path) \in Static THEN "get" ELSE "nonce"]
      BY <2>2 DEF Dispatch, Goto
    <3>3. Target(r.path) \in Static \cup Nonced
      BY <2>2 DEF Dispatch, Routes
    <3>4. QED
      BY <3>1, <3>2, <3>3 DEF Answered
  <2>3. CASE GetHit(c)
    <3>1. SlotOf(c) \in Slots
      BY <2>3, SlotOfClient DEF GetHit
    <3>2. QED
      BY <3>1, <2>3 DEF GetHit, Goto, Answered
  <2>4. CASE GetCreates(c)
    <3>1. PICK b \in Made(c) : data' = [data EXCEPT ![c] = b]
      BY <2>4 DEF GetCreates
    <3>2. b \in Bodies
      BY <3>1, <2>4, MadeBody DEF GetCreates
    <3>3. QED
      BY <3>1, <3>2, <2>4 DEF GetCreates, Goto, Answered
  <2>5. CASE GetFails(c)
    <3>1. resp' = [resp EXCEPT ![c] = Bare(500)] /\ pc' = [pc EXCEPT ![c] = "done"]
      BY <2>5 DEF GetFails, Send, Goto
    <3>2. Bare(500) \in Responses /\ Bare(500).status \notin Success
      BY BareAnswer
    <3>3. QED
      BY <3>1, <3>2, <2>5 DEF GetFails, Answered
  <2>6. CASE GetPanics(c)
    BY <2>6 DEF GetPanics, Goto, Send, Answered, requestVars, fileVars, historyVars
  <2>7. CASE ServeStatic(c)
    <3>1. PICK r \in Responses :
            resp' = [resp EXCEPT ![c] = r] /\ (r.status \in Success => r.body = data[c])
      BY <2>7, StaticAnswered
    <3>2. pc' = [pc EXCEPT ![c] = "done"] /\ pc[c] = "serve" /\ UNCHANGED <<data, req>>
      BY <2>7, StaticAnswered DEF ServeStatic
    <3>3. QED
      BY <3>1, <3>2 DEF Answered, Routes
  <2>8. CASE GenerateNonce(c)
    <3>1. Target(req[c].path) \in Routes
      BY <2>8 DEF GenerateNonce, Routes
    <3>2. Coding(c) \in Codings
      BY <3>1, CodingOfRoute, CodingsOfRoute DEF Coding
    <3>3. PICK n \in Nonces :
            data' = [data EXCEPT ![c] = [file |-> Target(req[c].path), version |-> 1,
                                         coding |-> Coding(c), nonce |-> n]]
      BY <2>8 DEF GenerateNonce
    <3>4. [file |-> Target(req[c].path), version |-> 1, coding |-> Coding(c), nonce |-> n] \in Bodies
      BY <3>1, <3>2, MaxVersionAssumption DEF Bodies
    <3>5. QED
      BY <3>3, <3>4, <2>8 DEF GenerateNonce, Goto, Answered
  <2>9. CASE NoncedFails(c)
    <3>1. resp' = [resp EXCEPT ![c] = Bare(500)] /\ pc' = [pc EXCEPT ![c] = "done"]
      BY <2>9 DEF NoncedFails, Send, Goto
    <3>2. Bare(500) \in Responses /\ Bare(500).status \notin Success
      BY BareAnswer
    <3>3. QED
      BY <3>1, <3>2, <2>9 DEF NoncedFails, Answered
  <2>10. CASE RenderPolicy(c)
    BY <2>10 DEF RenderPolicy, Goto, Send, Answered, requestVars, fileVars, historyVars
  <2>11. CASE ServeNonced(c)
    <3>1. PICK r \in Responses :
            resp' = [resp EXCEPT ![c] = r] /\ (r.status \in Success => r.body = data[c])
      BY <2>11, NoncedAnswered
    <3>2. pc' = [pc EXCEPT ![c] = "done"] /\ pc[c] = "serveNonced" /\ UNCHANGED <<data, req>>
      BY <2>11, NoncedAnswered DEF ServeNonced
    <3>3. QED
      BY <3>1, <3>2 DEF Answered, Routes
  <2>12. CASE Receive(c)
    BY <2>12 DEF Receive, Goto, Send, Answered, requestVars, fileVars, historyVars
  <2>13. QED
    BY <1>3, <2>1, <2>2, <2>3, <2>4, <2>5, <2>6,
       <2>7, <2>8, <2>9, <2>10, <2>11, <2>12 DEF Ask, Handle
<1>4. QED
  BY <1>1, <1>2, <1>3 DEF Next

\* Only http.Error reports an error, and http.ServeContent to a request that has a
\* condition or a range.
LEMMA ErrorsStep ==
  ASSUME TypeOK, RouteInv, ErrorsAreBare, [Next]_vars
  PROVE  ErrorsAreBare'
<1> USE DEF ErrorsAreBare, TypeOK
<1>1. CASE UNCHANGED vars
  BY <1>1 DEF vars, fileVars, requestVars, historyVars, Answered
<1>2. ASSUME NEW p \in Static, Rewrite(p) \/ Delete(p) \/ PreCacheGet(p)
      PROVE  ErrorsAreBare'
  <2>1. CASE Rewrite(p)
    BY <2>1 DEF Rewrite, Goto, Arrive, fileVars, requestVars, historyVars
  <2>2. CASE Delete(p)
    BY <2>2 DEF Delete, Goto, Arrive, fileVars, requestVars, historyVars
  <2>3. CASE PreCacheGet(p)
    BY <2>3 DEF PreCacheGet, Goto, Arrive, fileVars, requestVars, historyVars
  <2>4. QED
    BY <1>2, <2>1, <2>2, <2>3
<1>3. ASSUME NEW c \in Clients, Ask(c) \/ Handle(c) \/ Receive(c)
      PROVE  ErrorsAreBare'
  <2>1. ASSUME NEW r \in Requests, NotFound(c, r)
        PROVE  ErrorsAreBare'
    <3>1. Bare(404).status = 404
      BY BareAnswer
    <3>2. /\ resp' = [resp EXCEPT ![c] = Bare(404)] /\ pc' = [pc EXCEPT ![c] = "done"]
          /\ req' = [req EXCEPT ![c] = r] /\ UNCHANGED data
      BY <2>1 DEF NotFound, Send, Goto, Arrive
    <3>3. QED
      BY <3>1, <3>2
  <2>2. ASSUME NEW r \in Requests, Dispatch(c, r)
        PROVE  ErrorsAreBare'
    BY <2>2 DEF Dispatch, Goto, Arrive, fileVars, requestVars, historyVars
  <2>3. CASE GetHit(c)
    BY <2>3 DEF GetHit, Goto, Arrive, fileVars, requestVars, historyVars
  <2>4. CASE GetCreates(c)
    BY <2>4 DEF GetCreates, Goto, Arrive, fileVars, requestVars, historyVars
  <2>5. CASE GetFails(c)
    BY <2>5, BareAnswer DEF GetFails, Send, Goto
  <2>6. CASE GetPanics(c)
    BY <2>6 DEF GetPanics, Goto, Arrive, fileVars, requestVars, historyVars
  <2>7. CASE ServeStatic(c)
    <3>1. PICK r \in Responses :
            /\ resp' = [resp EXCEPT ![c] = r]
            /\ r.status >= 400 => Conditional(req[c], r.status)
      BY <2>7, StaticAnswered
    <3>2. pc' = [pc EXCEPT ![c] = "done"] /\ UNCHANGED <<req, data>>
      BY <2>7, StaticAnswered DEF ServeStatic
    <3>3. data[c] # None
      BY <2>7, NoneAssumption DEF ServeStatic, RouteInv
    <3>4. QED
      BY <3>1, <3>2, <3>3
  <2>8. CASE GenerateNonce(c)
    BY <2>8 DEF GenerateNonce, Goto, Arrive, fileVars, requestVars, historyVars
  <2>9. CASE NoncedFails(c)
    BY <2>9, BareAnswer DEF NoncedFails, Send, Goto
  <2>10. CASE RenderPolicy(c)
    BY <2>10 DEF RenderPolicy, Goto, Arrive, fileVars, requestVars, historyVars
  <2>11. CASE ServeNonced(c)
    <3>1. PICK r \in Responses :
            /\ resp' = [resp EXCEPT ![c] = r]
            /\ r.status >= 400 => Conditional(req[c], r.status)
      BY <2>11, NoncedAnswered
    <3>2. pc' = [pc EXCEPT ![c] = "done"] /\ UNCHANGED <<req, data>>
      BY <2>11, NoncedAnswered DEF ServeNonced
    <3>3. data[c] # None
      BY <2>11, NoneAssumption DEF ServeNonced, RouteInv
    <3>4. QED
      BY <3>1, <3>2, <3>3
  <2>12. CASE Receive(c)
    BY <2>12 DEF Receive, Goto, Arrive, fileVars, requestVars, historyVars
  <2>13. QED
    BY <1>3, <2>1, <2>2, <2>3, <2>4, <2>5, <2>6,
       <2>7, <2>8, <2>9, <2>10, <2>11, <2>12 DEF Ask, Handle
<1>4. QED
  BY <1>1, <1>2, <1>3 DEF Next

\* A store keeps FileInv's part about the caches.
LEMMA StoreKeepsFiles ==
  ASSUME TypeOK, FileInv, NEW p \in Static, NEW k \in Codings, NEW v \in Readable(p),
         StoreIn(Slot(p, k), StaticBody(p, v, k))
  PROVE  \A s \in Slots : cached'[s] # None =>
           /\ cached'[s].file \in Static
           /\ cached'[s].nonce = None
           /\ cached'[s].file \in Permanent <=> s[1] = "permanent"
<1> DEFINE b == StaticBody(p, v, k)
           t == Slot(p, k)
<1>1. b \in Bodies
  BY ReadBody DEF TypeOK
<1>2. b.file = p /\ b.nonce = None
  BY DEF StaticBody
<1>3. t \in Slots /\ (t[1] = "permanent" <=> p \in Permanent)
  BY SlotOfRoute
<1> HIDE DEF b, t
<1>4. \A s \in Slots : cached'[s] \in {cached[s], None} \/ (s = t /\ cached'[s] = b)
  BY <1>1, <1>3, StoreChanges DEF TypeOK, b, t
<1>5. QED
  BY <1>2, <1>3, <1>4 DEF FileInv

\* The caches keep holding static bodies, each cache those of its own routes.
LEMMA FileStep ==
  ASSUME TypeOK, RouteInv, FileInv, [Next]_vars
  PROVE  FileInv'
<1> USE DEF TypeOK, RouteInv, FileInv
<1>1. CASE UNCHANGED vars
  BY <1>1 DEF vars, fileVars, requestVars, historyVars, Answered, Holds
<1>2. ASSUME NEW p \in Static, Rewrite(p) \/ Delete(p) \/ PreCacheGet(p)
      PROVE  FileInv'
  <2>1. CASE Rewrite(p)
    BY <2>1 DEF Rewrite, Goto, Send, Arrive, Answered, Holds, fileVars, requestVars, historyVars
  <2>2. CASE Delete(p)
    BY <2>2 DEF Delete, Goto, Send, Arrive, Answered, Holds, fileVars, requestVars, historyVars
  <2>3. CASE PreCacheGet(p)
    <3>1. Head(pending[p]) \in Codings
      BY <2>3 DEF PreCacheGet
    <3>2. CASE UNCHANGED cached
      BY <3>2, <2>3 DEF PreCacheGet, Answered, Holds, requestVars
    <3>3. ASSUME NEW v \in Readable(p),
                 StoreIn(Slot(p, Head(pending[p])), StaticBody(p, v, Head(pending[p])))
          PROVE  FileInv'
      BY <3>1, <3>3, <2>3, StoreKeepsFiles DEF PreCacheGet, Answered, Holds, requestVars
    <3>4. QED
      BY <3>2, <3>3, <2>3 DEF PreCacheGet
  <2>4. QED
    BY <1>2, <2>1, <2>2, <2>3
<1>3. ASSUME NEW c \in Clients, Ask(c) \/ Handle(c) \/ Receive(c)
      PROVE  FileInv'
  <2>1. ASSUME NEW r \in Requests, NotFound(c, r)
        PROVE  FileInv'
    <3>1. resp' = [resp EXCEPT ![c] = Bare(404)] /\ Bare(404).status \notin Success
      BY <2>1, BareAnswer DEF NotFound, Send
    <3>2. pc' = [pc EXCEPT ![c] = "done"]
      BY <2>1 DEF NotFound, Send, Goto
    <3>3. QED
      BY <3>1, <3>2, <2>1 DEF NotFound, Arrive, Answered, Holds
  <2>2. ASSUME NEW r \in Requests, Dispatch(c, r)
        PROVE  FileInv'
    BY <2>2 DEF Dispatch, Goto, Send, Arrive, Answered, Holds, fileVars, requestVars, historyVars
  <2>3. CASE GetHit(c)
    <3>1. SlotOf(c) \in Slots /\ (SlotOf(c)[1] = "permanent" <=> Target(req[c].path) \in Permanent)
      BY <2>3, SlotOfClient DEF GetHit
    <3>2. QED
      BY <3>1, <2>3 DEF GetHit, Goto, Answered, Holds
  <2>4. CASE GetCreates(c)
    <3>1. /\ Target(req[c].path) \in Static
          /\ Coding(c) \in Codings
          /\ SlotOf(c) = Slot(Target(req[c].path), Coding(c))
      BY <2>4, SlotOfClient DEF GetCreates
    <3>2. PICK b \in Made(c) : data' = [data EXCEPT ![c] = b] /\ StoreIn(SlotOf(c), b)
      BY <2>4 DEF GetCreates
    <3>3. PICK v \in Readable(Target(req[c].path)) : b = StaticBody(Target(req[c].path), v, Coding(c))
      BY DEF Made
    <3>4. b.file = Target(req[c].path) /\ b.nonce = None
      BY <3>3 DEF StaticBody
    <3>5. QED
      BY <3>1, <3>2, <3>3, <3>4, <2>4, StoreKeepsFiles DEF GetCreates, Goto, Answered, Holds
  <2>5. CASE GetFails(c)
    <3>1. resp' = [resp EXCEPT ![c] = Bare(500)] /\ Bare(500).status \notin Success
      BY <2>5, BareAnswer DEF GetFails, Send
    <3>2. pc' = [pc EXCEPT ![c] = "done"]
      BY <2>5 DEF GetFails, Send, Goto
    <3>3. QED
      BY <3>1, <3>2, <2>5 DEF GetFails, Answered, Holds
  <2>6. CASE GetPanics(c)
    <3>1. /\ Target(req[c].path) \in Static
          /\ Coding(c) \in Codings
          /\ SlotOf(c) = Slot(Target(req[c].path), Coding(c))
      BY <2>6, SlotOfClient DEF GetPanics
    <3>2. PICK b \in Made(c) : StoreIn(SlotOf(c), b)
      BY <2>6 DEF GetPanics
    <3>3. PICK v \in Readable(Target(req[c].path)) : b = StaticBody(Target(req[c].path), v, Coding(c))
      BY DEF Made
    <3>4. QED
      BY <3>1, <3>2, <3>3, <2>6, StoreKeepsFiles DEF GetPanics, Goto, Answered, Holds
  <2>7. CASE ServeStatic(c)
    <3>1. PICK r \in Responses : resp' = [resp EXCEPT ![c] = r]
      BY <2>7, StaticAnswered
    <3>2. pc' = [pc EXCEPT ![c] = "done"] /\ pc[c] = "serve" /\ UNCHANGED <<cached, data, req>>
      BY <2>7, StaticAnswered DEF ServeStatic
    <3>3. QED
      BY <3>1, <3>2 DEF Answered, Holds
  <2>8. CASE GenerateNonce(c)
    BY <2>8 DEF GenerateNonce, Goto, Send, Arrive, Answered, Holds, fileVars, requestVars, historyVars
  <2>9. CASE NoncedFails(c)
    <3>1. resp' = [resp EXCEPT ![c] = Bare(500)] /\ Bare(500).status \notin Success
      BY <2>9, BareAnswer DEF NoncedFails, Send
    <3>2. pc' = [pc EXCEPT ![c] = "done"]
      BY <2>9 DEF NoncedFails, Send, Goto
    <3>3. QED
      BY <3>1, <3>2, <2>9 DEF NoncedFails, Answered, Holds
  <2>10. CASE RenderPolicy(c)
    BY <2>10 DEF RenderPolicy, Goto, Send, Arrive, Answered, Holds, fileVars, requestVars, historyVars
  <2>11. CASE ServeNonced(c)
    <3>1. pc' = [pc EXCEPT ![c] = "done"] /\ Target(req[c].path) \notin Static
      BY <2>11, NoncedAnswered, RoutesAssumption DEF ServeNonced
    <3>2. \A d \in Clients \ {c} : resp'[d] = resp[d]
      BY <2>11, NoncedAnswered
    <3>3. QED
      BY <3>1, <3>2, <2>11 DEF ServeNonced, Answered, Holds
  <2>12. CASE Receive(c)
    BY <2>12 DEF Receive, Goto, Send, Arrive, Answered, Holds, fileVars, requestVars, historyVars
  <2>13. QED
    BY <1>3, <2>1, <2>2, <2>3, <2>4, <2>5, <2>6,
       <2>7, <2>8, <2>9, <2>10, <2>11, <2>12 DEF Ask, Handle
<1>4. QED
  BY <1>1, <1>2, <1>3 DEF Next

\* A nonce stays with the page it was generated for.
LEMMA NonceStep ==
  ASSUME TypeOK, RouteInv, FileInv, NonceInv, [Next]_vars
  PROVE  NonceInv'
<1> USE DEF TypeOK, RouteInv, NonceInv
<1>1. CASE UNCHANGED vars
  BY <1>1 DEF vars, fileVars, requestVars, historyVars, Answered, Coding
<1>2. ASSUME NEW p \in Static, Rewrite(p) \/ Delete(p) \/ PreCacheGet(p)
      PROVE  NonceInv'
  <2>1. CASE Rewrite(p)
    BY <2>1 DEF Rewrite, Goto, Arrive, Answered, Coding, fileVars, requestVars, historyVars
  <2>2. CASE Delete(p)
    BY <2>2 DEF Delete, Goto, Arrive, Answered, Coding, fileVars, requestVars, historyVars
  <2>3. CASE PreCacheGet(p)
    BY <2>3 DEF PreCacheGet, Goto, Arrive, Answered, Coding, fileVars, requestVars, historyVars
  <2>4. QED
    BY <1>2, <2>1, <2>2, <2>3
<1>3. ASSUME NEW c \in Clients, Ask(c) \/ Handle(c) \/ Receive(c)
      PROVE  NonceInv'
  <2>1. ASSUME NEW r \in Requests, NotFound(c, r)
        PROVE  NonceInv'
    <3>1. resp' = [resp EXCEPT ![c] = Bare(404)] /\ Bare(404).status \notin Success
      BY <2>1, BareAnswer DEF NotFound, Send
    <3>2. pc' = [pc EXCEPT ![c] = "done"]
      BY <2>1 DEF NotFound, Send, Goto
    <3>3. QED
      BY <3>1, <3>2, <2>1 DEF NotFound, Answered, Coding, Arrive, historyVars
  <2>2. ASSUME NEW r \in Requests, Dispatch(c, r)
        PROVE  NonceInv'
    BY <2>2 DEF Dispatch, Goto, Arrive, Answered, Coding, fileVars, requestVars, historyVars
  <2>3. CASE GetHit(c)
    <3>1. SlotOf(c) \in Slots
      BY <2>3, SlotOfClient DEF GetHit
    <3>2. cached[SlotOf(c)].nonce = None
      BY <3>1, <2>3 DEF GetHit, FileInv
    <3>3. QED
      BY <3>2, <2>3 DEF GetHit, Goto, Answered, Coding, historyVars
  <2>4. CASE GetCreates(c)
    <3>1. PICK b \in Made(c) : data' = [data EXCEPT ![c] = b]
      BY <2>4 DEF GetCreates
    <3>2. b.nonce = None
      BY <3>1 DEF Made, StaticBody
    <3>3. QED
      BY <3>1, <3>2, <2>4 DEF GetCreates, Goto, Answered, Coding, historyVars
  <2>5. CASE GetFails(c)
    <3>1. resp' = [resp EXCEPT ![c] = Bare(500)] /\ Bare(500).status \notin Success
      BY <2>5, BareAnswer DEF GetFails, Send
    <3>2. pc' = [pc EXCEPT ![c] = "done"]
      BY <2>5 DEF GetFails, Send, Goto
    <3>3. QED
      BY <3>1, <3>2, <2>5 DEF GetFails, Answered, Coding, historyVars
  <2>6. CASE GetPanics(c)
    BY <2>6 DEF GetPanics, Goto, Arrive, Answered, Coding, fileVars, requestVars, historyVars
  <2>7. CASE ServeStatic(c)
    <3>1. PICK r \in Responses : resp' = [resp EXCEPT ![c] = r]
      BY <2>7, StaticAnswered
    <3>2. /\ pc' = [pc EXCEPT ![c] = "done"]
          /\ Target(req[c].path) \notin Nonced
          /\ UNCHANGED <<data, req, policy, used>>
      BY <2>7, StaticAnswered, RoutesAssumption DEF ServeStatic, historyVars
    <3>3. QED
      BY <3>1, <3>2 DEF Answered, Coding
  <2>8. CASE GenerateNonce(c)
    <3> DEFINE Page(n) == [file |-> Target(req[c].path), version |-> 1, coding |-> Coding(c), nonce |-> n]
    <3>1. PICK n \in Nonces \ used :
            used' = used \cup {n} /\ data' = [data EXCEPT ![c] = Page(n)]
      BY <2>8 DEF GenerateNonce
    <3>2. n # None
      BY NoneAssumption
    <3>3. /\ Page(n).file = Target(req[c].path)
          /\ Page(n).coding = Coding(c)
          /\ Page(n).nonce = n
      OBVIOUS
    <3>4. pc' = [pc EXCEPT ![c] = "render"] /\ UNCHANGED <<req, policy, resp>>
      BY <2>8 DEF GenerateNonce, Goto
    <3> HIDE DEF Page
    <3>5. data'[c] = Page(n) /\ \A d \in Clients \ {c} : data'[d] = data[d]
      BY <3>1
    <3>6. \A d \in Clients : data'[d] # None => data'[d].nonce \in used' \cup {None}
      BY <3>1, <3>3, <3>5
    <3>7. \A d, e \in Clients :
            d # e /\ data'[d] # None /\ data'[e] # None /\ data'[d].nonce # None =>
              data'[d].nonce # data'[e].nonce
      BY <3>1, <3>2, <3>3, <3>5
    <3>8. QED
      BY <3>3, <3>4, <3>5, <3>6, <3>7 DEF Answered, Coding
  <2>9. CASE NoncedFails(c)
    <3>1. resp' = [resp EXCEPT ![c] = Bare(500)] /\ Bare(500).status \notin Success
      BY <2>9, BareAnswer DEF NoncedFails, Send
    <3>2. pc' = [pc EXCEPT ![c] = "done"]
      BY <2>9 DEF NoncedFails, Send, Goto
    <3>3. QED
      BY <3>1, <3>2, <2>9 DEF NoncedFails, Answered, Coding, historyVars
  <2>10. CASE RenderPolicy(c)
    <3>1. /\ pc' = [pc EXCEPT ![c] = "serveNonced"]
          /\ policy' = [policy EXCEPT ![c] = data[c].nonce]
          /\ pc[c] = "render"
          /\ UNCHANGED <<data, req, resp, used>>
      BY <2>10 DEF RenderPolicy, Goto, historyVars
    <3>2. QED
      BY <3>1 DEF Answered, Coding
  <2>11. CASE ServeNonced(c)
    <3>1. PICK r \in Responses :
            /\ resp' = [resp EXCEPT ![c] = r]
            /\ r.status \in Success => r.control = "no-store" /\ r.csp = policy[c]
      BY <2>11, NoncedAnswered
    <3>2. /\ pc' = [pc EXCEPT ![c] = "done"]
          /\ pc[c] = "serveNonced"
          /\ UNCHANGED <<data, req, policy, used>>
      BY <2>11, NoncedAnswered DEF ServeNonced, historyVars
    <3>3. QED
      BY <3>1, <3>2 DEF Answered, Coding
  <2>12. CASE Receive(c)
    BY <2>12 DEF Receive, Goto, Arrive, Answered, Coding, fileVars, requestVars, historyVars
  <2>13. QED
    BY <1>3, <2>1, <2>2, <2>3, <2>4, <2>5, <2>6,
       <2>7, <2>8, <2>9, <2>10, <2>11, <2>12 DEF Ask, Handle
<1>4. QED
  BY <1>1, <1>2, <1>3 DEF Next

\* A store into a slot that is empty keeps what the permanent cache holds.
LEMMA PermanentKept ==
  ASSUME TypeOK, NEW s \in Slots, NEW b \in Bodies, cached[s] = None, StoreIn(s, b)
  PROVE  /\ \A t \in Slots : t[1] = "permanent" /\ cached[t] # None => cached'[t] = cached[t]
         /\ s[1] = "permanent" => cached'[s] = b /\ b # None
BY StoreChanges, NoneAssumption DEF TypeOK

\* A client that receives a static body was sent it by a static route.
LEMMA ReceivedIsHeld ==
  ASSUME RouteInv, NonceInv, NEW c \in Clients, StaticAnswer(c)
  PROVE  ForStatic(c) /\ Holds(c) /\ resp[c].body = data[c] /\ data[c] \in Bodies
<1>1. Answered(c) /\ data[c].file \in Static /\ resp[c].body = data[c] /\ data[c] \in Bodies
  BY DEF StaticAnswer, RouteInv
<1>2. Target(req[c].path) \notin Nonced
  BY <1>1, RoutesAssumption DEF NonceInv
<1>3. Target(req[c].path) \in Static
  BY <1>1, <1>2 DEF RouteInv, Routes
<1>4. QED
  BY <1>1, <1>3 DEF ForStatic, Holds, Answered

\* What was received from a permanent slot is what is in it, and the newest
\* version that was sent from it.
LEMMA ReceivedIsCached ==
  ASSUME TypeOK, RouteInv, NonceInv, PermanentInv, NEW c \in Clients, Receive(c),
         NEW s \in Slots, s[1] = "permanent"
  PROVE  /\ seen[s] # 0 => seen'[s] = seen[s]
         /\ seen'[s] # seen[s] => cached[s] # None /\ cached[s].version = seen'[s]
<1> DEFINE v == resp[c].body.version
<1>1. CASE s = SlotOf(c) /\ resp[c].status \in Success /\ resp[c].body.file \in Static
  <2>1. StaticAnswer(c)
    BY <1>1 DEF Receive, StaticAnswer, Answered
  <2>2. ForStatic(c) /\ Holds(c) /\ v = data[c].version /\ data[c] \in Bodies
    BY <2>1, ReceivedIsHeld
  <2>3. Target(req[c].path) \in Permanent
    BY <1>1, <2>2, SlotOfClient DEF ForStatic
  <2>4. cached[s] # None /\ cached[s].version = v
    BY <1>1, <2>2, <2>3 DEF PermanentInv
  <2>5. seen[s] # 0 => seen[s] = v
    BY <2>4 DEF PermanentInv
  <2>6. v \in 1 .. MaxVersion /\ seen[s] \in 0 .. MaxVersion
    BY <2>2 DEF Bodies, TypeOK
  <2>7. seen'[s] = IF seen[s] > v THEN seen[s] ELSE v
    BY <1>1 DEF Receive, TypeOK
  <2>8. seen'[s] = v
    BY <2>5, <2>6, <2>7, MaxVersionAssumption
  <2>9. QED
    BY <2>4, <2>5, <2>8
<1>2. CASE ~(s = SlotOf(c) /\ resp[c].status \in Success /\ resp[c].body.file \in Static)
  BY <1>2 DEF Receive, TypeOK
<1>3. QED
  BY <1>1, <1>2

\* The permanent cache keeps holding what it has sent.
LEMMA PermanentStep ==
  ASSUME TypeOK, RouteInv, FileInv, NonceInv, PermanentInv, [Next]_vars
  PROVE  PermanentInv'
<1> USE DEF TypeOK, RouteInv, PermanentInv
<1>1. CASE UNCHANGED vars
  BY <1>1 DEF vars, fileVars, requestVars, historyVars, ForStatic, Holds, Answered, SlotOf
<1>2. ASSUME NEW p \in Static, Rewrite(p) \/ Delete(p) \/ PreCacheGet(p)
      PROVE  PermanentInv'
  <2>1. CASE Rewrite(p)
    BY <2>1 DEF Rewrite, Goto, ForStatic, Holds, Answered, SlotOf, fileVars, requestVars, historyVars
  <2>2. CASE Delete(p)
    BY <2>2 DEF Delete, Goto, ForStatic, Holds, Answered, SlotOf, fileVars, requestVars, historyVars
  <2>3. CASE PreCacheGet(p)
    <3> DEFINE s == Slot(p, Head(pending[p]))
    <3>1. Head(pending[p]) \in Codings
      BY <2>3 DEF PreCacheGet
    <3>2. s \in Slots
      BY <3>1, SlotOfRoute
    <3>3. \A t \in Slots : t[1] = "permanent" /\ cached[t] # None => cached'[t] = cached[t]
      BY <3>1, <3>2, <2>3, ReadBody, PermanentKept DEF PreCacheGet
    <3>4. \A c \in Clients : ForStatic(c) => SlotOf(c) \in Slots
                              /\ (SlotOf(c)[1] = "permanent" <=> Target(req[c].path) \in Permanent)
      BY SlotOfClient DEF ForStatic
    <3>5. QED
      BY <3>3, <3>4, <2>3 DEF PreCacheGet, ForStatic, Holds, Answered, SlotOf, requestVars, historyVars
  <2>4. QED
    BY <1>2, <2>1, <2>2, <2>3
<1>3. ASSUME NEW c \in Clients, Ask(c) \/ Handle(c) \/ Receive(c)
      PROVE  PermanentInv'
  <2>1. ASSUME NEW r \in Requests, NotFound(c, r)
        PROVE  PermanentInv'
    <3>1. /\ pc' = [pc EXCEPT ![c] = "done"]
          /\ resp'[c].status = 404 /\ resp'[c].status \notin Success
          /\ \A d \in Clients \ {c} : resp'[d] = resp[d]
      BY <2>1, BareAnswer DEF NotFound, Send, Goto
    <3>2. /\ UNCHANGED <<cached, data, seen>>
          /\ req' = [req EXCEPT ![c] = r]
          /\ floor' = [floor EXCEPT ![c] = IF Target(r.path) \in Static THEN seen[SlotFor(r)] ELSE 0]
      BY <2>1 DEF NotFound, Arrive
    <3>3. QED
      BY <3>1, <3>2 DEF ForStatic, Holds, Answered, SlotOf
  <2>2. ASSUME NEW r \in Requests, Dispatch(c, r)
        PROVE  PermanentInv'
    BY <2>2 DEF Dispatch, Goto, ForStatic, Holds, Answered, SlotOf, fileVars, requestVars, historyVars, Arrive
  <2>3. CASE GetHit(c)
    <3>1. SlotOf(c) \in Slots
      BY <2>3, SlotOfClient DEF GetHit
    <3>2. QED
      BY <3>1, <2>3 DEF GetHit, Goto, ForStatic, Holds, Answered, SlotOf, historyVars
  <2>4. CASE GetCreates(c)
    <3>1. Target(req[c].path) \in Static /\ SlotOf(c) \in Slots
          /\ (SlotOf(c)[1] = "permanent" <=> Target(req[c].path) \in Permanent)
      BY <2>4, SlotOfClient DEF GetCreates
    <3>2. PICK b \in Made(c) : data' = [data EXCEPT ![c] = b] /\ StoreIn(SlotOf(c), b)
      BY <2>4 DEF GetCreates
    <3>3. b \in Bodies
      BY <3>1, MadeBody
    <3>4. /\ \A t \in Slots : t[1] = "permanent" /\ cached[t] # None => cached'[t] = cached[t]
          /\ SlotOf(c)[1] = "permanent" => cached'[SlotOf(c)] = b /\ b # None
      BY <3>1, <3>2, <3>3, <2>4, PermanentKept DEF GetCreates
    <3>5. \A d \in Clients : ForStatic(d) => SlotOf(d) \in Slots
                              /\ (SlotOf(d)[1] = "permanent" <=> Target(req[d].path) \in Permanent)
      BY SlotOfClient DEF ForStatic
    <3>6. QED
      BY <3>1, <3>2, <3>4, <3>5, <2>4 DEF GetCreates, Goto, ForStatic, Holds, Answered, SlotOf, historyVars
  <2>5. CASE GetFails(c)
    <3>1. resp' = [resp EXCEPT ![c] = Bare(500)] /\ pc' = [pc EXCEPT ![c] = "done"]
          /\ Bare(500).status \notin Success
      BY <2>5, BareAnswer DEF GetFails, Send, Goto
    <3>2. /\ SlotOf(c) \in Slots
          /\ SlotOf(c)[1] = "permanent" <=> Target(req[c].path) \in Permanent
          /\ cached[SlotOf(c)] = None
          /\ ForStatic(c)
      BY <2>5, SlotOfClient DEF GetFails, ForStatic
    <3>3. Target(req[c].path) \in Permanent => floor[c] = 0
      BY <3>2
    <3>4. QED
      BY <3>1, <3>3, <2>5 DEF GetFails, ForStatic, Holds, Answered, SlotOf, historyVars
  <2>6. CASE GetPanics(c)
    <3>1. Target(req[c].path) \in Static /\ SlotOf(c) \in Slots
      BY <2>6, SlotOfClient DEF GetPanics
    <3>2. PICK b \in Made(c) : StoreIn(SlotOf(c), b)
      BY <2>6 DEF GetPanics
    <3>3. \A t \in Slots : t[1] = "permanent" /\ cached[t] # None => cached'[t] = cached[t]
      BY <3>1, <3>2, <2>6, MadeBody, PermanentKept DEF GetPanics
    <3>4. \A d \in Clients : ForStatic(d) => SlotOf(d) \in Slots
                              /\ (SlotOf(d)[1] = "permanent" <=> Target(req[d].path) \in Permanent)
      BY SlotOfClient DEF ForStatic
    <3>5. QED
      BY <3>3, <3>4, <2>6 DEF GetPanics, Goto, ForStatic, Holds, Answered, SlotOf
  <2>7. CASE ServeStatic(c)
    <3>1. PICK r \in Responses : resp' = [resp EXCEPT ![c] = r] /\ r.status \in {200, 206, 304, 412, 416}
      BY <2>7, StaticAnswered
    <3>2. pc' = [pc EXCEPT ![c] = "done"] /\ pc[c] = "serve" /\ UNCHANGED <<cached, data, req, seen, floor>>
      BY <2>7, StaticAnswered DEF ServeStatic, historyVars
    <3>3. QED
      BY <3>1, <3>2 DEF ForStatic, Holds, Answered, SlotOf
  <2>8. CASE GenerateNonce(c)
    BY <2>8 DEF GenerateNonce, Goto, ForStatic, Holds, Answered, SlotOf, fileVars, requestVars, historyVars
  <2>9. CASE NoncedFails(c)
    <3>1. Target(req[c].path) \notin Static
      BY <2>9, RoutesAssumption DEF NoncedFails
    <3>2. pc' = [pc EXCEPT ![c] = "done"] /\ \A d \in Clients \ {c} : resp'[d] = resp[d]
      BY <2>9 DEF NoncedFails, Send, Goto
    <3>3. QED
      BY <3>1, <3>2, <2>9 DEF NoncedFails, ForStatic, Holds, Answered, SlotOf, historyVars
  <2>10. CASE RenderPolicy(c)
    BY <2>10 DEF RenderPolicy, Goto, ForStatic, Holds, Answered, SlotOf, fileVars, requestVars, historyVars
  <2>11. CASE ServeNonced(c)
    <3>1. pc' = [pc EXCEPT ![c] = "done"] /\ Target(req[c].path) \notin Static
      BY <2>11, NoncedAnswered, RoutesAssumption DEF ServeNonced
    <3>2. \A d \in Clients \ {c} : resp'[d] = resp[d]
      BY <2>11, NoncedAnswered
    <3>3. QED
      BY <3>1, <3>2, <2>11 DEF ServeNonced, ForStatic, Holds, Answered, SlotOf, historyVars
  <2>12. CASE Receive(c)
    <3>1. \A d \in Clients : ForStatic(d) => SlotOf(d) \in Slots
                              /\ (SlotOf(d)[1] = "permanent" <=> Target(req[d].path) \in Permanent)
      BY SlotOfClient DEF ForStatic
    <3>2. \A s \in Slots : s[1] = "permanent" /\ seen[s] # 0 => seen'[s] = seen[s]
      BY <2>12, <3>1, ReceivedIsCached DEF Receive
    <3>3. \A s \in Slots : s[1] = "permanent" /\ seen'[s] # seen[s] =>
            cached[s] # None /\ cached[s].version = seen'[s]
      BY <2>12, ReceivedIsCached DEF Receive
    <3>4. UNCHANGED cached /\ pc' = [pc EXCEPT ![c] = "idle"]
          /\ \A d \in Clients \ {c} : /\ req'[d] = req[d]
                                      /\ data'[d] = data[d]
                                      /\ resp'[d] = resp[d]
                                      /\ floor'[d] = floor[d]
      BY <2>12 DEF Receive, Goto
    <3>5. \A s \in Slots : s[1] = "permanent" /\ seen'[s] # 0 =>
            cached'[s] # None /\ cached'[s].version = seen'[s]
      BY <3>2, <3>3, <3>4
    <3>6. QED
      BY <3>1, <3>2, <3>4, <3>5 DEF ForStatic, Holds, Answered, SlotOf
  <2>13. QED
    BY <1>3, <2>1, <2>2, <2>3, <2>4, <2>5, <2>6,
       <2>7, <2>8, <2>9, <2>10, <2>11, <2>12 DEF Ask, Handle
<1>4. QED
  BY <1>1, <1>2, <1>3 DEF Next

\* With distinct keys, a store puts the current version of its own route into its
\* slot, and leaves in the others what is there or nothing.
LEMMA StoreKeepsAge ==
  ASSUME TypeOK, KeysAreDistinct, AgeInv, NEW p \in Static, NEW k \in CodingsOf(p),
         NEW v \in Readable(p), StoreIn(Slot(p, k), StaticBody(p, v, k)),
         NEW q \in Static, NEW l \in CodingsOf(q), cached'[Slot(q, l)] # None,
         cached'[Slot(q, l)] # cached[Slot(q, l)]
  PROVE  /\ cached'[Slot(q, l)].file = q
         /\ cached'[Slot(q, l)].coding = l
         /\ cached'[Slot(q, l)].version = version[q]
<1> DEFINE b == StaticBody(p, v, k)
<1>1. k \in Codings /\ l \in Codings
  BY CodingsOfRoute DEF Routes
<1>2. b \in Bodies /\ b.file = p /\ b.coding = k /\ b.version = version[p]
  BY <1>1, ReadBody DEF TypeOK, StaticBody
<1>3. Slot(p, k) \in Slots /\ Slot(q, l) \in Slots
  BY <1>1, SlotOfRoute
<1> HIDE DEF b
<1>4. Slot(q, l) = Slot(p, k) /\ cached'[Slot(q, l)] = b
  BY <1>2, <1>3, StoreChanges DEF TypeOK, b
<1>5. q = p /\ l = k
  BY <1>4 DEF KeysAreDistinct
<1>6. QED
  BY <1>2, <1>4, <1>5

\* The same for the bodies that goroutines hold: what is in their slot after a
\* store is no older.
LEMMA StoreKeepsOrder ==
  ASSUME TypeOK, KeysAreDistinct, AgeInv, NEW p \in Static, NEW k \in CodingsOf(p),
         NEW v \in Readable(p), StoreIn(Slot(p, k), StaticBody(p, v, k))
  PROVE  /\ \A q \in Static : \A l \in CodingsOf(q) : cached'[Slot(q, l)] # None =>
              /\ cached'[Slot(q, l)].file = q
              /\ cached'[Slot(q, l)].coding = l
              /\ cached'[Slot(q, l)].version \in seen[Slot(q, l)] .. version[q]
         /\ \A c \in Clients : ForStatic(c) /\ Holds(c) /\ cached'[SlotOf(c)] # None =>
              data[c].version <= cached'[SlotOf(c)].version
<1>1. ASSUME NEW q \in Static, NEW l \in CodingsOf(q), cached'[Slot(q, l)] # None
      PROVE  /\ cached'[Slot(q, l)].file = q
             /\ cached'[Slot(q, l)].coding = l
             /\ cached'[Slot(q, l)].version \in seen[Slot(q, l)] .. version[q]
  <2>1. seen[Slot(q, l)] \in Nat /\ version[q] \in Nat /\ seen[Slot(q, l)] <= version[q]
    BY CodingsOfRoute, SlotOfRoute, MaxVersionAssumption DEF TypeOK, AgeInv, Routes
  <2>2. CASE cached'[Slot(q, l)] = cached[Slot(q, l)]
    BY <1>1, <2>2 DEF AgeInv
  <2>3. CASE cached'[Slot(q, l)] # cached[Slot(q, l)]
    BY <1>1, <2>1, <2>3, StoreKeepsAge
  <2>4. QED
    BY <2>2, <2>3
<1>2. ASSUME NEW c \in Clients, ForStatic(c), Holds(c), cached'[SlotOf(c)] # None
      PROVE  data[c].version <= cached'[SlotOf(c)].version
  <2> DEFINE q == Target(req[c].path)
  <2>1. q \in Static /\ Coding(c) \in CodingsOf(q) /\ SlotOf(c) = Slot(q, Coding(c))
    BY <1>2, SlotOfClient DEF ForStatic
  <2>2. data[c].version \in floor[c] .. version[q]
    BY <1>2 DEF AgeInv
  <2>3. CASE cached'[SlotOf(c)] = cached[SlotOf(c)]
    BY <1>2, <2>3 DEF AgeInv
  <2>4. CASE cached'[SlotOf(c)] # cached[SlotOf(c)]
    <3>1. cached'[SlotOf(c)].version = version[q]
      BY <1>2, <2>1, <2>4, StoreKeepsAge
    <3>2. QED
      BY <2>2, <3>1
  <2>5. QED
    BY <2>3, <2>4
<1>3. QED
  BY <1>1, <1>2

\* With distinct keys, what was received from a slot is a version of its route, and
\* no newer than what is in it.
LEMMA ReceivedIsNew ==
  ASSUME TypeOK, RouteInv, NonceInv, KeysAreDistinct, AgeInv, NEW c \in Clients, Receive(c),
         NEW q \in Static, NEW l \in CodingsOf(q)
  PROVE  /\ seen[Slot(q, l)] \in Nat /\ seen'[Slot(q, l)] \in Nat /\ version[q] \in Nat
         /\ seen[Slot(q, l)] <= seen'[Slot(q, l)]
         /\ seen'[Slot(q, l)] <= version[q]
         /\ cached[Slot(q, l)] # None => seen'[Slot(q, l)] <= cached[Slot(q, l)].version
<1> DEFINE s == Slot(q, l)
           v == resp[c].body.version
<1>1. s \in Slots
  BY SlotOfRoute, CodingsOfRoute DEF Routes
<1>2. seen[s] \in Nat /\ version[q] \in Nat /\ seen[s] <= version[q]
      /\ (cached[s] # None => cached[s].version \in seen[s] .. version[q])
  BY <1>1, MaxVersionAssumption DEF TypeOK, AgeInv, Routes
<1>3. CASE s = SlotOf(c) /\ resp[c].status \in Success /\ resp[c].body.file \in Static
  <2>1. StaticAnswer(c)
    BY <1>3 DEF Receive, StaticAnswer, Answered
  <2>2. ForStatic(c) /\ Holds(c) /\ v = data[c].version /\ data[c] \in Bodies
    BY <2>1, ReceivedIsHeld
  <2>3. q = Target(req[c].path)
    BY <1>3, <2>2, SlotOfClient DEF ForStatic, KeysAreDistinct
  <2>4. v \in Nat /\ v <= version[q] /\ (cached[s] # None => v <= cached[s].version)
    <3>1. v \in Nat
      BY <2>2, MaxVersionAssumption DEF Bodies
    <3>2. v \in floor[c] .. version[q] /\ (cached[s] # None => v <= cached[s].version)
      BY <1>3, <2>2, <2>3 DEF AgeInv
    <3>3. QED
      BY <3>1, <3>2
  <2>5. seen'[s] = IF seen[s] > v THEN seen[s] ELSE v
    BY <1>1, <1>3 DEF Receive, TypeOK
  <2> HIDE DEF s, v
  <2>6. seen'[s] \in Nat /\ seen[s] <= seen'[s] /\ seen'[s] <= version[q]
    BY <1>2, <2>4, <2>5
  <2>7. cached[s] # None => seen'[s] <= cached[s].version
    BY <1>2, <2>4, <2>5
  <2>8. QED
    BY <1>2, <2>6, <2>7 DEF s
<1>4. CASE ~(s = SlotOf(c) /\ resp[c].status \in Success /\ resp[c].body.file \in Static)
  <2>1. seen'[s] = seen[s]
    BY <1>1, <1>4 DEF Receive, TypeOK
  <2> HIDE DEF s
  <2>2. QED
    BY <1>2, <2>1 DEF s
<1>5. QED
  BY <1>3, <1>4

\* Versions only grow, and so do those that are sent.
LEMMA AgeStep ==
  ASSUME TypeOK, RouteInv, FileInv, NonceInv, KeysAreDistinct, AgeInv, [Next]_vars
  PROVE  AgeInv'
<1> USE DEF TypeOK, RouteInv, AgeInv
<1>1. CASE UNCHANGED vars
  BY <1>1 DEF vars, fileVars, requestVars, historyVars, ForStatic, Holds, Answered, SlotOf, Coding
<1>2. ASSUME NEW p \in Static, Rewrite(p) \/ Delete(p) \/ PreCacheGet(p)
      PROVE  AgeInv'
  <2>1. CASE Rewrite(p)
    <3>1. UNCHANGED <<cached, pending, pc, req, data, resp, seen, floor>>
      BY <2>1 DEF Rewrite, requestVars, historyVars
    <3>2. \A q \in Static : version[q] \in Nat /\ version'[q] \in Nat /\ version[q] <= version'[q]
      BY <2>1, MaxVersionAssumption DEF Rewrite, Routes
    <3>3. \A q \in Static : \A k \in CodingsOf(q) :
            /\ seen'[Slot(q, k)] <= version'[q]
            /\ cached'[Slot(q, k)] # None =>
                 cached'[Slot(q, k)].version \in seen'[Slot(q, k)] .. version'[q]
      <4> SUFFICES ASSUME NEW q \in Static, NEW k \in CodingsOf(q)
                   PROVE  /\ seen[Slot(q, k)] <= version'[q]
                          /\ cached[Slot(q, k)] # None =>
                               cached[Slot(q, k)].version \in seen[Slot(q, k)] .. version'[q]
        BY <3>1
      <4> DEFINE s == Slot(q, k)
      <4>1. seen[s] \in Nat
        BY CodingsOfRoute, SlotOfRoute, MaxVersionAssumption DEF Routes
      <4>2. seen[s] <= version[q] /\ (cached[s] # None => cached[s].version \in seen[s] .. version[q])
        OBVIOUS
      <4> HIDE DEF s
      <4>3. QED
        BY <3>2, <4>1, <4>2 DEF s
    <3>4. \A c \in Clients : ForStatic(c) /\ Holds(c) =>
            data[c].version \in floor[c] .. version'[Target(req[c].path)]
      <4> SUFFICES ASSUME NEW c \in Clients, ForStatic(c), Holds(c)
                   PROVE  data[c].version \in floor[c] .. version'[Target(req[c].path)]
        OBVIOUS
      <4> DEFINE q == Target(req[c].path)
      <4>1. q \in Static /\ data[c].version \in floor[c] .. version[q] /\ floor[c] \in Nat
        BY MaxVersionAssumption DEF ForStatic
      <4> HIDE DEF q
      <4>2. QED
        BY <3>2, <4>1 DEF q
    <3>5. QED
      BY <3>1, <3>3, <3>4 DEF ForStatic, Holds, Answered, SlotOf, Coding
  <2>2. CASE Delete(p)
    BY <2>2 DEF Delete, Goto, ForStatic, Holds, Answered, SlotOf, Coding, fileVars, requestVars, historyVars
  <2>3. CASE PreCacheGet(p)
    <3> DEFINE k == Head(pending[p])
    <3>1. k \in CodingsOf(p) /\ pending' \in [Static -> Seq(Codings)]
          /\ \A q \in Static : pending'[q] \in Seq(CodingsOf(q))
      BY <2>3 DEF PreCacheGet
    <3>2. UNCHANGED <<version, pc, req, data, resp, seen, floor>>
      BY <2>3 DEF PreCacheGet, fileVars, requestVars, historyVars
    <3>3. CASE UNCHANGED cached
      BY <3>1, <3>2, <3>3 DEF ForStatic, Holds, Answered, SlotOf, Coding
    <3>4. ASSUME NEW v \in Readable(p), StoreIn(Slot(p, k), StaticBody(p, v, k))
          PROVE  AgeInv'
      BY <3>1, <3>2, <3>4, StoreKeepsOrder DEF ForStatic, Holds, Answered, SlotOf, Coding
    <3>5. QED
      BY <3>3, <3>4, <2>3 DEF PreCacheGet
  <2>4. QED
    BY <1>2, <2>1, <2>2, <2>3
<1>3. ASSUME NEW c \in Clients, Ask(c) \/ Handle(c) \/ Receive(c)
      PROVE  AgeInv'
  <2>1. ASSUME NEW r \in Requests, NotFound(c, r)
        PROVE  AgeInv'
    <3>1. resp' = [resp EXCEPT ![c] = Bare(404)] /\ Bare(404).status \notin Success
      BY <2>1, BareAnswer DEF NotFound, Send
    <3>2. pc' = [pc EXCEPT ![c] = "done"]
      BY <2>1 DEF NotFound, Send, Goto
    <3>3. floor'[c] = IF Target(r.path) \in Static THEN seen[SlotFor(r)] ELSE 0
      BY <2>1 DEF NotFound, Arrive
    <3>4. Target(r.path) \in Static => seen[SlotFor(r)] \in 0 .. MaxVersion
      BY SlotOfRoute, CodingOfRoute, CodingsOfRoute DEF SlotFor, Routes
    <3>5. QED
      BY <3>1, <3>2, <3>3, <3>4, <2>1, MaxVersionAssumption DEF NotFound, Arrive, fileVars, ForStatic, Holds, Answered, SlotOf, Coding
  <2>2. ASSUME NEW r \in Requests, Dispatch(c, r)
        PROVE  AgeInv'
    <3>1. pc' = [pc EXCEPT ![c] = IF Target(r.path) \in Static THEN "get" ELSE "nonce"]
      BY <2>2 DEF Dispatch, Goto
    <3>2. floor'[c] = IF Target(r.path) \in Static THEN seen[SlotFor(r)] ELSE 0
      BY <2>2 DEF Dispatch, Arrive
    <3>3. Target(r.path) \in Static => seen[SlotFor(r)] \in 0 .. MaxVersion
      BY SlotOfRoute, CodingOfRoute, CodingsOfRoute DEF SlotFor, Routes
    <3>4. QED
      BY <3>1, <3>2, <3>3, <2>2, MaxVersionAssumption DEF Dispatch, Arrive, fileVars, ForStatic, Holds, Answered, SlotOf, Coding
  <2>3. CASE GetHit(c)
    <3>1. /\ Target(req[c].path) \in Static
          /\ Coding(c) \in CodingsOf(Target(req[c].path))
          /\ SlotOf(c) = Slot(Target(req[c].path), Coding(c))
          /\ SlotOf(c) \in Slots
          /\ ForStatic(c)
      BY <2>3, SlotOfClient DEF GetHit, ForStatic
    <3>2. /\ cached[SlotOf(c)].file = Target(req[c].path)
          /\ cached[SlotOf(c)].coding = Coding(c)
          /\ cached[SlotOf(c)].version \in seen[SlotOf(c)] .. version[Target(req[c].path)]
      BY <3>1, <2>3 DEF GetHit
    <3>3. floor[c] \in Nat /\ seen[SlotOf(c)] \in Nat /\ floor[c] <= seen[SlotOf(c)]
      BY <3>1, MaxVersionAssumption
    <3>4. cached[SlotOf(c)].version \in floor[c] .. version[Target(req[c].path)]
      BY <3>2, <3>3
    <3>5. QED
      BY <3>2, <3>4, <2>3 DEF GetHit, Goto, historyVars, fileVars, ForStatic, Holds, Answered, SlotOf, Coding
  <2>4. CASE GetCreates(c)
    <3>1. /\ Target(req[c].path) \in Static
          /\ Coding(c) \in CodingsOf(Target(req[c].path))
          /\ SlotOf(c) = Slot(Target(req[c].path), Coding(c))
          /\ SlotOf(c) \in Slots
          /\ ForStatic(c)
      BY <2>4, SlotOfClient DEF GetCreates, ForStatic
    <3>2. PICK b \in Made(c) : data' = [data EXCEPT ![c] = b] /\ StoreIn(SlotOf(c), b)
      BY <2>4 DEF GetCreates
    <3>3. PICK v \in Readable(Target(req[c].path)) : b = StaticBody(Target(req[c].path), v, Coding(c))
      BY DEF Made
    <3>4. /\ b.file = Target(req[c].path)
          /\ b.coding = Coding(c)
          /\ b.version = version[Target(req[c].path)]
      BY <3>1, <3>3, MadeBody DEF StaticBody
    <3>5. /\ floor[c] \in Nat
          /\ version[Target(req[c].path)] \in Nat
          /\ floor[c] <= version[Target(req[c].path)]
      <4>1. floor[c] <= seen[SlotOf(c)] /\ seen[SlotOf(c)] <= version[Target(req[c].path)]
        BY <3>1
      <4>2. floor[c] \in Nat /\ seen[SlotOf(c)] \in Nat /\ version[Target(req[c].path)] \in Nat
        BY <3>1, MaxVersionAssumption DEF Routes
      <4>3. QED
        BY <4>1, <4>2
    <3>6. b.version \in floor[c] .. version[Target(req[c].path)]
      BY <3>4, <3>5
    <3>7. /\ \A q \in Static : \A l \in CodingsOf(q) : cached'[Slot(q, l)] # None =>
               /\ cached'[Slot(q, l)].file = q
               /\ cached'[Slot(q, l)].coding = l
               /\ cached'[Slot(q, l)].version \in seen[Slot(q, l)] .. version[q]
          /\ \A d \in Clients : ForStatic(d) /\ Holds(d) /\ cached'[SlotOf(d)] # None =>
               data[d].version <= cached'[SlotOf(d)].version
      BY <3>1, <3>2, <3>3, StoreKeepsOrder
    <3>8. cached'[SlotOf(c)] # None => b.version <= cached'[SlotOf(c)].version
      <4>1. SUFFICES ASSUME cached'[SlotOf(c)] # None PROVE b.version <= cached'[SlotOf(c)].version
        OBVIOUS
      <4>2. cached'[SlotOf(c)].version = version[Target(req[c].path)]
        BY <3>1, <3>2, <3>3, <4>1, <2>4, StoreKeepsAge DEF GetCreates
      <4>3. QED
        BY <3>4, <3>5, <4>2
    <3>9. /\ data'[c] = b
          /\ \A d \in Clients \ {c} : data'[d] = data[d]
          /\ pc' = [pc EXCEPT ![c] = "serve"]
          /\ UNCHANGED <<version, pending, req, resp, seen, floor>>
      BY <3>2, <2>4 DEF GetCreates, Goto, historyVars, fileVars
    <3>10. \A d \in Clients : ForStatic(d)' =>
             /\ floor'[d] <= seen'[SlotOf(d)']
             /\ Holds(d)' =>
                  /\ data'[d].file = Target(req'[d].path)
                  /\ data'[d].coding = Coding(d)'
                  /\ data'[d].version \in floor'[d] .. version'[Target(req'[d].path)]
                  /\ cached'[SlotOf(d)'] # None => data'[d].version <= cached'[SlotOf(d)'].version
      <4> TAKE d \in Clients
      <4>1. SlotOf(d)' = SlotOf(d) /\ Coding(d)' = Coding(d)
        BY <3>9 DEF SlotOf, Coding
      <4>2. CASE d = c
        <5>1. floor[c] <= seen[SlotOf(c)]
          BY <3>1
        <5>2. QED
          BY <3>4, <3>6, <3>8, <3>9, <4>1, <4>2, <5>1
      <4>3. CASE d # c
        <5>1. pc'[d] = pc[d] /\ data'[d] = data[d]
          BY <3>9, <4>3
        <5>2. ForStatic(d)' = ForStatic(d) /\ Holds(d)' = Holds(d)
          BY <3>9, <5>1 DEF ForStatic, Holds, Answered
        <5>3. ForStatic(d) => floor[d] <= seen[SlotOf(d)]
          OBVIOUS
        <5>4. ForStatic(d) /\ Holds(d) =>
                /\ data[d].file = Target(req[d].path)
                /\ data[d].coding = Coding(d)
                /\ data[d].version \in floor[d] .. version[Target(req[d].path)]
          OBVIOUS
        <5>5. ForStatic(d) /\ Holds(d) /\ cached'[SlotOf(d)] # None =>
                data[d].version <= cached'[SlotOf(d)].version
          BY <3>7
        <5> HIDE DEF TypeOK, RouteInv, AgeInv
        <5>6. QED
          BY <3>9, <4>1, <5>1, <5>2, <5>3, <5>4, <5>5
      <4>4. QED
        BY <4>2, <4>3
    <3>11. \A d \in Clients : Answered(d)' => Answered(d) /\ Coding(d)' = Coding(d)
      BY <3>9 DEF Answered, Coding
    <3>12. QED
      BY <3>7, <3>9, <3>10, <3>11
  <2>5. CASE GetFails(c)
    <3>1. resp' = [resp EXCEPT ![c] = Bare(500)] /\ Bare(500).status \notin Success
      BY <2>5, BareAnswer DEF GetFails, Send
    <3>2. pc' = [pc EXCEPT ![c] = "done"] /\ pc[c] = "get"
      BY <2>5 DEF GetFails, Send, Goto
    <3>3. QED
      BY <3>1, <3>2, <2>5 DEF GetFails, fileVars, historyVars, ForStatic, Holds, Answered, SlotOf, Coding
  <2>6. CASE GetPanics(c)
    <3>1. /\ Target(req[c].path) \in Static
          /\ Coding(c) \in CodingsOf(Target(req[c].path))
          /\ SlotOf(c) = Slot(Target(req[c].path), Coding(c))
      BY <2>6, SlotOfClient DEF GetPanics
    <3>2. PICK b \in Made(c) : StoreIn(SlotOf(c), b)
      BY <2>6 DEF GetPanics
    <3>3. PICK v \in Readable(Target(req[c].path)) : b = StaticBody(Target(req[c].path), v, Coding(c))
      BY DEF Made
    <3>4. /\ \A q \in Static : \A l \in CodingsOf(q) : cached'[Slot(q, l)] # None =>
               /\ cached'[Slot(q, l)].file = q
               /\ cached'[Slot(q, l)].coding = l
               /\ cached'[Slot(q, l)].version \in seen[Slot(q, l)] .. version[q]
          /\ \A d \in Clients : ForStatic(d) /\ Holds(d) /\ cached'[SlotOf(d)] # None =>
               data[d].version <= cached'[SlotOf(d)].version
      BY <3>1, <3>2, <3>3, StoreKeepsOrder
    <3>5. /\ \A d \in Clients \ {c} : req'[d] = req[d] /\ floor'[d] = floor[d] /\ pc'[d] = pc[d]
          /\ pc'[c] = "idle"
          /\ UNCHANGED <<version, pending, data, resp, seen>>
      BY <2>6 DEF GetPanics, Goto, fileVars
    <3>6. ~ForStatic(c)' /\ ~Answered(c)'
      BY <3>5 DEF ForStatic, Answered
    <3>7. \A d \in Clients \ {c} :
            /\ ForStatic(d)' = ForStatic(d) /\ Holds(d)' = Holds(d) /\ Answered(d)' = Answered(d)
            /\ SlotOf(d)' = SlotOf(d) /\ Coding(d)' = Coding(d)
      BY <3>5 DEF ForStatic, Holds, Answered, SlotOf, Coding
    <3>8. \A d \in Clients : ForStatic(d)' =>
            /\ floor'[d] <= seen'[SlotOf(d)']
            /\ Holds(d)' =>
                 /\ data'[d].file = Target(req'[d].path)
                 /\ data'[d].coding = Coding(d)'
                 /\ data'[d].version \in floor'[d] .. version'[Target(req'[d].path)]
                 /\ cached'[SlotOf(d)'] # None => data'[d].version <= cached'[SlotOf(d)'].version
      BY <3>4, <3>5, <3>6, <3>7
    <3>9. QED
      BY <3>4, <3>5, <3>6, <3>7, <3>8, SMTT(20)
  <2>7. CASE ServeStatic(c)
    <3>1. PICK r \in Responses :
            /\ resp' = [resp EXCEPT ![c] = r]
            /\ r.status \in Success => r.encoding = Coding(c)
      BY <2>7, StaticAnswered
    <3>2. pc' = [pc EXCEPT ![c] = "done"] /\ pc[c] = "serve"
      BY <2>7, StaticAnswered DEF ServeStatic
    <3>3. QED
      BY <3>1, <3>2, <2>7 DEF ServeStatic, fileVars, historyVars, ForStatic, Holds, Answered, SlotOf, Coding
  <2>8. CASE GenerateNonce(c)
    BY <2>8 DEF GenerateNonce, Goto, ForStatic, Holds, Answered, SlotOf, Coding, fileVars, requestVars, historyVars
  <2>9. CASE NoncedFails(c)
    <3>1. resp' = [resp EXCEPT ![c] = Bare(500)] /\ Bare(500).status \notin Success
      BY <2>9, BareAnswer DEF NoncedFails, Send
    <3>2. pc' = [pc EXCEPT ![c] = "done"] /\ pc[c] # "idle"
      BY <2>9 DEF NoncedFails, Send, Goto
    <3>3. QED
      BY <3>1, <3>2, <2>9 DEF NoncedFails, fileVars, historyVars, ForStatic, Holds, Answered, SlotOf, Coding
  <2>10. CASE RenderPolicy(c)
    BY <2>10 DEF RenderPolicy, Goto, ForStatic, Holds, Answered, SlotOf, Coding, fileVars, requestVars, historyVars
  <2>11. CASE ServeNonced(c)
    <3>1. PICK r \in Responses :
            /\ resp' = [resp EXCEPT ![c] = r]
            /\ r.status \in Success => r.encoding = Coding(c)
      BY <2>11, NoncedAnswered
    <3>2. pc' = [pc EXCEPT ![c] = "done"] /\ Target(req[c].path) \notin Static
      BY <2>11, NoncedAnswered, RoutesAssumption DEF ServeNonced
    <3>3. QED
      BY <3>1, <3>2, <2>11 DEF ServeNonced, fileVars, historyVars, ForStatic, Holds, Answered, SlotOf, Coding
  <2>12. CASE Receive(c)
    <3>1. \A q \in Static : \A l \in CodingsOf(q) :
            /\ seen[Slot(q, l)] \in Nat /\ seen'[Slot(q, l)] \in Nat /\ version[q] \in Nat
            /\ seen[Slot(q, l)] <= seen'[Slot(q, l)]
            /\ seen'[Slot(q, l)] <= version[q]
            /\ cached[Slot(q, l)] # None => seen'[Slot(q, l)] <= cached[Slot(q, l)].version
      BY <2>12, ReceivedIsNew
    <3>2. UNCHANGED <<version, cached, pending>> /\ pc' = [pc EXCEPT ![c] = "idle"]
          /\ \A d \in Clients \ {c} : /\ req'[d] = req[d]
                                      /\ data'[d] = data[d]
                                      /\ resp'[d] = resp[d]
                                      /\ floor'[d] = floor[d]
      BY <2>12 DEF Receive, Goto, fileVars
    <3>3. \A d \in Clients : ForStatic(d) =>
            /\ Target(req[d].path) \in Static
            /\ Coding(d) \in CodingsOf(Target(req[d].path))
            /\ SlotOf(d) = Slot(Target(req[d].path), Coding(d))
      BY SlotOfClient DEF ForStatic
    <3>4. \A d \in Clients : ForStatic(d) => floor[d] <= seen'[SlotOf(d)]
      <4> SUFFICES ASSUME NEW d \in Clients, ForStatic(d)
                   PROVE  floor[d] <= seen'[SlotOf(d)]
        OBVIOUS
      <4> DEFINE s == SlotOf(d)
      <4>1. floor[d] \in Nat /\ floor[d] <= seen[s]
        BY MaxVersionAssumption
      <4>2. seen[s] \in Nat /\ seen'[s] \in Nat /\ seen[s] <= seen'[s]
        BY <3>1, <3>3
      <4> HIDE DEF s
      <4>3. QED
        BY <4>1, <4>2 DEF s
    <3>5. \A q \in Static : \A l \in CodingsOf(q) : cached'[Slot(q, l)] # None =>
            cached'[Slot(q, l)].version \in seen'[Slot(q, l)] .. version'[q]
      BY <3>1, <3>2
    <3>6. QED
      BY <3>1, <3>2, <3>4, <3>5 DEF ForStatic, Holds, Answered, SlotOf, Coding
  <2>13. QED
    BY <1>3, <2>1, <2>2, <2>3, <2>4, <2>5, <2>6,
       <2>7, <2>8, <2>9, <2>10, <2>11, <2>12 DEF Ask, Handle
<1>4. QED
  BY <1>1, <1>2, <1>3 DEF Next

-----------------------------------------------------------------------------
(* The theorems *)

\* PreCache starts with the codings of its route.
LEMMA PendingAtFirst ==
  ASSUME NEW p \in Routes
  PROVE  Append(Enabled[p], Identity) \in Seq(CodingsOf(p))
<1>1. Enabled[p] \in Seq(Codings)
  BY EnabledAssumption
<1>2. \A i \in 1 .. Len(Enabled[p]) : Enabled[p][i] \in CodingsOf(p)
  BY <1>1 DEF CodingsOf, ToSet
<1>3. Enabled[p] \in Seq(CodingsOf(p))
  BY <1>1, <1>2
<1>4. Identity \in CodingsOf(p)
  BY DEF CodingsOf
<1>5. QED
  BY <1>3, <1>4

\* At first nothing is cached, nothing was sent and every client is idle.
LEMMA Initially ==
  ASSUME Init
  PROVE  TypeOK /\ RouteInv /\ ErrorsAreBare /\ FileInv /\ NonceInv /\ PermanentInv /\ AgeInv
<1>1. \A p \in Static : pending[p] \in Seq(CodingsOf(p)) /\ CodingsOf(p) \subseteq Codings
  BY PendingAtFirst, CodingsOfRoute DEF Init, Routes
<1>2. pending \in [Static -> Seq(Codings)]
  <2>1. \A p \in Static : pending[p] \in Seq(Codings)
    BY <1>1
  <2>2. QED
    BY <2>1 DEF Init
<1>3. TypeOK
  BY <1>2, MaxVersionAssumption DEF Init, TypeOK
<1>4. \A c \in Clients : pc[c] = "idle" /\ data[c] = None
  BY DEF Init
<1>5. \A s \in Slots : cached[s] = None /\ seen[s] = 0
  BY DEF Init
<1>6. RouteInv /\ ErrorsAreBare
  BY <1>4 DEF RouteInv, ErrorsAreBare, Answered
<1>7. FileInv /\ NonceInv /\ PermanentInv
  BY <1>4, <1>5 DEF FileInv, NonceInv, PermanentInv, ForStatic, Holds, Answered
<1>8. AgeInv
  <2>1. \A p \in Static : version[p] \in Nat
    BY <1>3, MaxVersionAssumption DEF TypeOK, Routes
  <2>2. \A p \in Static : \A k \in CodingsOf(p) :
          cached[Slot(p, k)] = None /\ seen[Slot(p, k)] <= version[p]
    BY <1>1, <1>5, <2>1, SlotOfRoute
  <2>3. \A c \in Clients : ~ForStatic(c) /\ ~Answered(c)
    BY <1>4 DEF ForStatic, Answered
  <2>4. QED
    BY <1>1, <2>2, <2>3 DEF AgeInv
<1>9. QED
  BY <1>3, <1>6, <1>7, <1>8

\* What holds of every state, whatever the keys.
LEMMA Invariance ==
  Spec => [](TypeOK /\ RouteInv /\ ErrorsAreBare /\ FileInv /\ NonceInv /\ PermanentInv)
<1> DEFINE Inv == TypeOK /\ RouteInv /\ ErrorsAreBare /\ FileInv /\ NonceInv /\ PermanentInv
<1>1. Init => Inv
  BY Initially
<1>2. Inv /\ [Next]_vars => Inv'
  BY TypeStep, RouteStep, ErrorsStep, FileStep, NonceStep, PermanentStep
<1>3. QED
  BY <1>1, <1>2, PTL DEF Spec

\* What holds besides when no two routes use the same key.
LEMMA AgeInvariance ==
  ASSUME KeysAreDistinct
  PROVE  Spec => []AgeInv
<1>1. Init => AgeInv
  BY Initially
<1>2. TypeOK /\ RouteInv /\ FileInv /\ NonceInv /\ AgeInv /\ [Next]_vars => AgeInv'
  BY AgeStep
<1>3. Spec => [](TypeOK /\ RouteInv /\ ErrorsAreBare /\ FileInv /\ NonceInv /\ PermanentInv)
  BY Invariance
<1>4. QED
  BY <1>1, <1>2, <1>3, PTL DEF Spec

\* Every variable keeps its type: no request meets a file, a coding or a status that
\* the handlers do not know.
THEOREM TypeCorrect == Spec => []TypeOK
BY Invariance, PTL

\* An error that carries a header of the route is about content that was there, and is
\* sent only to a client whose own condition or range that content does not meet:
\* wherever there is nothing to send, both routes reach http.Error before any header
\* is set.
THEOREM ErrorsOfRoutesAreBare == Spec => []ErrorsAreBare
BY Invariance, PTL

\* The body of an answer is one of the route's kind.
LEMMA KindOfAnswer ==
  ASSUME RouteInv, FileInv, NonceInv, NEW c \in Clients, Answered(c)
  PROVE  /\ Target(req[c].path) \in Routes
         /\ resp[c].body = data[c]
         /\ data[c].file \in Static <=> Target(req[c].path) \in Static
         /\ data[c].file \in Nonced <=> Target(req[c].path) \in Nonced
<1>1. Target(req[c].path) \in Static \cup Nonced /\ resp[c].body = data[c]
  BY DEF RouteInv, Routes
<1>2. CASE Target(req[c].path) \in Static
  <2>1. data[c].file \in Static
    BY <1>2 DEF FileInv, Holds
  <2>2. \A p : p \in Static => p \notin Nonced
    BY RoutesAssumption
  <2>3. QED
    BY <1>1, <1>2, <2>1, <2>2 DEF Routes
<1>3. CASE Target(req[c].path) \in Nonced
  <2>1. data[c].file \in Nonced
    BY <1>3 DEF NonceInv
  <2>2. \A p : p \in Static => p \notin Nonced
    BY RoutesAssumption
  <2>3. QED
    BY <1>1, <1>3, <2>1, <2>2 DEF Routes
<1>4. QED
  BY <1>1, <1>2, <1>3 DEF Routes

\* The policy that goes with a nonced page allows the nonce of that page, which no
\* other page has, however the requests interleave.
THEOREM NonceIsOfPage == Spec => []NonceOfPage
<1>1. TypeOK /\ RouteInv /\ FileInv /\ NonceInv => NonceOfPage
  <2> SUFFICES ASSUME TypeOK, RouteInv, FileInv, NonceInv, NEW c \in Clients,
                      Answered(c), resp[c].body.file \in Nonced
               PROVE  /\ resp[c].csp = resp[c].body.nonce
                      /\ resp[c].control = "no-store"
                      /\ \A d \in Clients \ {c} : data[d] # None => data[d].nonce # resp[c].csp
    BY DEF NonceOfPage
  <2>1. Target(req[c].path) \in Nonced /\ resp[c].body = data[c]
    BY KindOfAnswer
  <2>2. /\ data[c].nonce \in Nonces
        /\ resp[c].csp = data[c].nonce
        /\ resp[c].control = "no-store"
    BY <2>1 DEF NonceInv
  <2>3. data[c] # None /\ data[c].nonce # None
    BY <2>2, NoneAssumption DEF RouteInv
  <2>4. \A d \in Clients \ {c} : data[d] # None => data[d].nonce # data[c].nonce
    BY <2>3 DEF NonceInv
  <2>5. QED
    BY <2>1, <2>2, <2>4
<1>2. QED
  BY <1>1, Invariance, PTL

\* A file of the permanent cache is sent as it was the first time, whatever happens
\* to it on the disk and to the other cache; and it does not fail any more.
THEOREM PermanentIsKept == Spec => []PermanentNeverChanges
<1>1. TypeOK /\ RouteInv /\ FileInv /\ NonceInv /\ PermanentInv => PermanentNeverChanges
  <2> SUFFICES ASSUME TypeOK, RouteInv, FileInv, NonceInv, PermanentInv, NEW c \in Clients
               PROVE  /\ StaticAnswer(c) /\ resp[c].body.file \in Permanent =>
                           floor[c] \in {0, resp[c].body.version}
                      /\ pc[c] = "done" /\ floor[c] # 0 /\ Target(req[c].path) \in Permanent =>
                           resp[c].status # 500
    BY DEF PermanentNeverChanges
  <2>1. ASSUME StaticAnswer(c), resp[c].body.file \in Permanent, floor[c] # 0
        PROVE  floor[c] = resp[c].body.version
    <3>1. Answered(c) /\ resp[c].body = data[c] /\ Target(req[c].path) \in Static
      BY <2>1, KindOfAnswer DEF StaticAnswer
    <3>2. ForStatic(c) /\ Holds(c)
      BY <3>1 DEF ForStatic, Holds, Answered
    <3>3. Target(req[c].path) \in Permanent
      BY <2>1, <3>1, <3>2 DEF FileInv
    <3>4. /\ floor[c] = seen[SlotOf(c)]
          /\ cached[SlotOf(c)] # None
          /\ data[c].version = cached[SlotOf(c)].version
      BY <2>1, <3>2, <3>3 DEF PermanentInv
    <3>5. SlotOf(c) \in Slots /\ SlotOf(c)[1] = "permanent"
      BY <3>1, <3>3, SlotOfClient
    <3>6. cached[SlotOf(c)].version = seen[SlotOf(c)]
      BY <2>1, <3>4, <3>5 DEF PermanentInv
    <3>7. QED
      BY <3>1, <3>4, <3>6
  <2>2. ASSUME pc[c] = "done", floor[c] # 0, Target(req[c].path) \in Permanent
        PROVE  resp[c].status # 500
    <3>1. ForStatic(c)
      BY <2>2, RoutesAssumption DEF ForStatic
    <3>2. QED
      BY <2>2, <3>1 DEF PermanentInv
  <2>3. QED
    BY <2>1, <2>2
<1>2. QED
  BY <1>1, Invariance, PTL

\* When no two routes use the same key, the body that a client gets is the one of the
\* route it asked for, in the coding that the header names and that it accepts.
THEOREM BodiesAreOfRoutes ==
  ASSUME KeysAreDistinct
  PROVE  Spec => []BodyIsOfRoute
<1>1. TypeOK /\ RouteInv /\ FileInv /\ NonceInv /\ AgeInv => BodyIsOfRoute
  <2> SUFFICES ASSUME TypeOK, RouteInv, FileInv, NonceInv, AgeInv, NEW c \in Clients, Answered(c)
               PROVE  /\ resp[c].body.file = Target(req[c].path)
                      /\ resp[c].body.coding = resp[c].encoding
                      /\ \/ resp[c].encoding \in req[c].accept \cup {Identity}
                         \/ "*" \in req[c].accept
    BY DEF BodyIsOfRoute
  <2>1. Target(req[c].path) \in Static \cup Nonced /\ resp[c].body = data[c]
    BY KindOfAnswer DEF Routes
  <2>2. resp[c].encoding = Coding(c)
    BY DEF AgeInv
  <2>3. data[c].file = Target(req[c].path) /\ data[c].coding = Coding(c)
    <3>1. CASE Target(req[c].path) \in Static
      BY <3>1 DEF AgeInv, ForStatic, Holds, Answered
    <3>2. CASE Target(req[c].path) \in Nonced
      BY <3>2 DEF NonceInv
    <3>3. QED
      BY <2>1, <3>1, <3>2
  <2>4. Coding(c) \in req[c].accept \cup {Identity} \/ "*" \in req[c].accept
    BY <2>1, CodingOfRoute DEF Coding, Routes
  <2>5. QED
    BY <2>1, <2>2, <2>3, <2>4
<1>2. QED
  BY <1>1, Invariance, AgeInvariance, PTL

\* When no two routes use the same key, no client is sent a version older than one
\* that had been sent, in that coding, before it asked: evictions and rewrites
\* only bring newer ones.
THEOREM VersionsNeverGoBack ==
  ASSUME KeysAreDistinct
  PROVE  Spec => []NeverOlder
<1>1. TypeOK /\ RouteInv /\ FileInv /\ NonceInv /\ AgeInv => NeverOlder
  <2> SUFFICES ASSUME TypeOK, RouteInv, FileInv, NonceInv, AgeInv, NEW c \in Clients, StaticAnswer(c)
               PROVE  resp[c].body.version >= floor[c]
    BY DEF NeverOlder
  <2>1. Answered(c) /\ resp[c].body = data[c] /\ Target(req[c].path) \in Static
    BY KindOfAnswer DEF StaticAnswer
  <2>2. data[c].version \in floor[c] .. version[Target(req[c].path)]
    BY <2>1 DEF AgeInv, ForStatic, Holds, Answered
  <2>3. floor[c] \in Nat
    BY MaxVersionAssumption DEF TypeOK
  <2>4. QED
    BY <2>1, <2>2, <2>3
<1>2. QED
  BY <1>1, Invariance, AgeInvariance, PTL

=============================================================================
