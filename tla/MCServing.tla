----------------------------- MODULE MCServing -----------------------------
(***************************************************************************)
(* Serving for TLC, with the routes that BuildRoutes makes of three files:  *)
(* a nonced index, a small file beside it, whose cache is the permanent     *)
(* one, and a versionned script of a subdirectory, which is compressible.   *)
(***************************************************************************)
EXTENDS Serving, TLC

CONSTANT Collide   \* whether "script.gz" is also the name of a file that is served

Script == "/assets/script"
Icon == IF Collide THEN "/assets/script.gz" ELSE "/favicon"
Page == "/index.html"
Files == {Script, Icon, Page}

PathOf ==
  Script :> <<<<"assets">>, <<"script", "d9", "js">>>>
    @@ Icon :> (IF Collide THEN <<<<"assets">>, <<"script", "d9", "js", "gz">>>>
                           ELSE <<<<"favicon", "ico">>>>)
    @@ Page :> <<<<"index", "html">>>>

Config ==
  [maxSize |-> 48, threshold |-> 4, maxAge |-> 0, rootInLRU |-> FALSE, noncing |-> TRUE,
   nonced |-> {PathOf[Page]}, disabled |-> {"br", "deflate"}, eligible |-> {<<"js">>, <<"html">>}]

Builder == INSTANCE RouteAttributes WITH
  Base <- 4, Word <- 2048, Hashes <- {"d9"}, Year <- 100, RootName <- <<"app">>

MCNonced == {p \in Files : Builder!MayBeNonced(Config, PathOf[p])}
MCStatic == Files \ MCNonced

RouteOf(p) ==
  Builder!StaticRoute(Config, PathOf[p], Last(PathOf[p]), [size |-> 5, modtime |-> Modtime])

\* (TLC evaluates this function once.)
Table == Script :> RouteOf(Script) @@ Icon :> RouteOf(Icon)
NoncedCodings == Builder!EnabledCompressions(Config)

MCPermanent == {p \in MCStatic : Table[p].cache = "permanent"}
MCEnabled == [p \in Files |-> IF p \in MCStatic THEN Table[p].codings ELSE NoncedCodings]
MCCacheControl == [p \in MCStatic |-> Table[p].control.directive]
MCCacheKey ==
  [p \in MCStatic |-> [c \in {"identity", "gzip"} |->
     IF c = "gzip" THEN p \o ".gz" ELSE p]]

Get(p) == [method |-> "GET", path |-> p, accept |-> {"gzip"}, match |-> "none", unmodified |-> None,
           noneMatch |-> "none", since |-> 0, range |-> "none", ifRange |-> None]

\* Each answer of ServeContent to some request (the page of a path without a route is
\* answered 416, 200 or 412, as time goes by), and the answer of the Handler.
MCRequests ==
  {Get(Script),
   [Get(Script) EXCEPT !.accept = {"*"}, !.since = 1],
   [Get(Icon) EXCEPT !.match = "any", !.range = "part", !.ifRange = 1],
   [Get("/unknown") EXCEPT !.accept = {}, !.unmodified = 2, !.range = "beyond", !.ifRange = 1],
   [Get(Page) EXCEPT !.method = "POST"]}

Symmetric == Permutations(Clients) \cup Permutations(Nonces)

=============================================================================
