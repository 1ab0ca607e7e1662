-------------------------- MODULE RouteAttributes --------------------------
(***************************************************************************)
(* What a file's name, place and size make of its route: the methods of     *)
(* the routeBuilder of internal/ath/build_route.go that change nothing.     *)
(*                                                                          *)
(* A name is the sequence of its parts, which dots separate; a path is the  *)
(* sequence of the names that lead to it from the root of the walk, and so  *)
(* stands for the target as well.  An extension is a sequence of parts too. *)
(***************************************************************************)
EXTENDS Configuration

CONSTANTS
  Hashes,   \* the parts that are a hexadecimal number, or v and a decimal one
  Year,     \* the max-age of a file that never changes, in seconds
  RootName  \* the last name of the root's own path

Present(tree, p) == tree[p].kind # "absent"

\* What is left of an entry that was removed.
Absent(info) == [info EXCEPT !.kind = "absent"]

\* os.ReadFile follows a link, which may lead nowhere or to a directory.
CanBeRead(info) == info.kind \in {"file", "link"} /\ info.readable

\* What Lstat tells of a path; the directory's own may be that of a link to it.
KindOf(f, tree, p) ==
  IF p = <<>> /\ f.directory = "link" THEN "link" ELSE tree[p].kind

Name(p) == IF p = <<>> THEN RootName ELSE Last(p)

\* The extension of a name: its last part, and the one before for a source map.
Extension(name) ==
  IF Len(name) >= 3 /\ IsSuffix(<<"js", "map">>, name) THEN <<"js", "map">>
  ELSE IF Len(name) >= 2 THEN <<Last(name)>>
  ELSE <<>>

\* isVersionned: the part before the last one is a hash or a version.
IsVersionned(name) == Len(name) >= 3 /\ name[Len(name) - 1] \in Hashes

\* inRoot
InRoot(path) == Len(path) = 1

\* BuildRoutes makes one cache, or two.
RootCache(config) == IF config.rootInLRU THEN "sized" ELSE "permanent"

\* getCache
CacheOf(config, path) == IF InRoot(path) THEN RootCache(config) ELSE "sized"

\* buildRoute tries to nonce what it is told to.
MayBeNonced(config, p) == config.noncing /\ p \in config.nonced

\* getCacheControl: a duration is a number of nanoseconds, and printed as such.
CacheControlOf(config, name) ==
  CASE IsVersionned(name) -> [directive |-> "immutable", age |-> Year]
    [] ~IsVersionned(name) /\ config.maxAge <= 0 -> [directive |-> "no-cache", age |-> 0]
    [] OTHER -> [directive |-> "must-revalidate", age |-> config.maxAge]

\* getCompression
CompressionOf(config, name, size) ==
  IF Extension(name) \in config.eligible /\ size >= config.threshold
  THEN EnabledCompressions(config)
  ELSE <<>>

\* buildStaticRoute, of a file or link and its name.  What Info returns is of
\* the link itself.
StaticRoute(config, path, name, info) ==
  [kind |-> "static", path |-> path, modtime |-> info.modtime,
   cache |-> CacheOf(config, path), control |-> CacheControlOf(config, name),
   codings |-> CompressionOf(config, name, info.size)]

=============================================================================
