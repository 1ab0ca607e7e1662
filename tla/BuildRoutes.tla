---------------------------- MODULE BuildRoutes ----------------------------
(***************************************************************************)
(* BuildRoutes of internal/ath/build_route.go: from the flags to the map of *)
(* routes, file by file along filepath.WalkDir, while files may still be    *)
(* removed from the directory.  The first error ends everything.            *)
(***************************************************************************)
EXTENDS RouteAttributes

CONSTANTS
  Flags,      \* the flags a server may be started with
  Trees,      \* the directories it may find
  Order,      \* the paths below the root, in the order of the walk
  Second      \* a second in nanoseconds

Kinds == {"dir", "file", "link", "absent"}
Paths == {<<>>} \cup ToSet(Order)

Texts == [number : Int, suffix : STRING]
Pages == [token : BOOLEAN, parses : BOOLEAN, redefines : BOOLEAN]
Infos == [kind : Kinds, size : Nat, page : Pages, readable : BOOLEAN, modtime : Nat]

ASSUME OrderAssumption == Order \in Seq(Seq(Seq(STRING)) \ {<<>>})
ASSUME FlagsAssumption ==
  Flags \subseteq
    [directory : {"", "path", "link"}, policyParses : BOOLEAN, maxSize : Texts,
     threshold : Texts, maxAge : Int, rootInLRU : BOOLEAN, noncing : BOOLEAN,
     nonced : SUBSET Seq(Seq(STRING)), disabled : SUBSET STRING, eligible : SUBSET Seq(STRING)]

\* What is there is in a directory, up to the root.
ASSUME TreesAssumption ==
  /\ Trees \subseteq [Paths -> Infos]
  /\ \A tree \in Trees : \A p \in Paths : Present(tree, p) =>
       \A n \in 0 .. Len(p) - 1 : SubSeq(p, 1, n) \in Paths /\ tree[SubSeq(p, 1, n)].kind = "dir"

VARIABLES
  flags,    \* the flags as they were given
  before,   \* the directory when the server started (history)
  disk,     \* disk[p]: the entry of path p
  pc,       \* where BuildRoutes is
  config,   \* the flags once they are parsed
  todo,     \* the entries that the walk has listed and not visited
  spaces,   \* the template name spaces: the policy's first, then the clones
  routes    \* the map of routes, with the path for the target

inputVars == <<flags, before>>
vars == <<inputVars, disk, pc, config, todo, spaces, routes>>

Ended == pc \in {"done", "failed"}

\* The routes, with what a template is made of in the place of its name space.
Table ==
  [p \in DOMAIN routes |->
     IF routes[p].kind = "static" THEN routes[p]
     ELSE [kind |-> "nonced", path |-> p, codings |-> routes[p].codings,
           content |-> spaces[routes[p].space].content,
           policy |-> spaces[routes[p].space].policy]]

T == INSTANCE RouteTable WITH
       status <- IF Ended THEN IF pc = "done" THEN "built" ELSE "failed" ELSE "building",
       table <- IF pc = "done" THEN Table ELSE [p \in {} |-> <<>>]

\* The sizes are zero until they have been read.
Unparsed == [flags EXCEPT !.threshold = 0, !.maxSize = 0]

Entries == [path : Paths, kind : Kinds \ {"absent"}]
Spaces == [content : Paths, policy : Paths]

\* The route of an entry, if it has been made.
NoncedRoute(p, space) ==
  [kind |-> "nonced", path |-> p, codings |-> EnabledCompressions(config), space |-> space]

TypeOK ==
  /\ flags \in Flags
  /\ before \in Trees
  /\ disk \in [Paths -> Infos]
  /\ \A p \in Paths : disk[p] \in {before[p], Absent(before[p])}
  /\ pc \in {"flags", "start", "walk", "static", "done", "failed"}
  /\ config \in IF pc = "flags" \/ Parse(flags) = {} THEN {Unparsed} ELSE Parse(flags)
  /\ todo \in SUBSET Entries
  /\ spaces \in Seq(Spaces)
  /\ DOMAIN routes \subseteq Paths
  /\ \A p \in DOMAIN routes :
       \/ \E s \in DOMAIN spaces : routes[p] = NoncedRoute(p, s)
       \/ routes[p] = StaticRoute(config, p, Name(p), before[p])

Init ==
  /\ flags \in Flags
  /\ disk \in Trees
  /\ before = disk
  /\ pc = "flags"
  /\ config = Unparsed
  /\ todo = {}
  /\ spaces = <<>>
  /\ routes = [p \in {} |-> <<>>]

-----------------------------------------------------------------------------
(* Others remove a file, or an empty directory *)

IsChild(p, q) == p # <<>> /\ Front(p) = q

Vanish(p) ==
  /\ ~Ended
  /\ p # <<>>
  /\ Present(disk, p)
  /\ \A q \in Paths : IsChild(q, p) => ~Present(disk, q)
  /\ disk' = [disk EXCEPT ![p] = Absent(@)]
  /\ UNCHANGED <<inputVars, pc, config, todo, spaces, routes>>

-----------------------------------------------------------------------------
(* Before the walk *)

Failed == pc' = "failed" /\ UNCHANGED <<inputVars, disk, config, todo, spaces, routes>>

ParseFlags ==
  /\ pc = "flags"
  /\ config' \in Parse(flags)
  /\ pc' = "start"
  /\ UNCHANGED <<inputVars, disk, todo, spaces, routes>>

ParseFails ==
  /\ pc = "flags"
  /\ Parse(flags) = {}
  /\ Failed

\* The policy is parsed, and the root looked up.
Start ==
  /\ pc = "start"
  /\ config.policyParses
  /\ config.directory # ""
  /\ KindOf(config, disk, <<>>) # "absent"
  /\ spaces' = <<[content |-> <<>>, policy |-> <<>>]>>
  /\ todo' = {[path |-> <<>>, kind |-> KindOf(config, disk, <<>>)]}
  /\ pc' = "walk"
  /\ UNCHANGED <<inputVars, disk, config, routes>>

StartFails ==
  /\ pc = "start"
  /\ ~config.policyParses \/ config.directory = "" \/ KindOf(config, disk, <<>>) = "absent"
  /\ Failed

-----------------------------------------------------------------------------
(* The walk: one entry after the other *)

\* Where a path comes in the walk: a directory before what is in it.
Rank == [p \in Paths |-> CHOOSE i \in 0 .. Len(Order) : p = IF i = 0 THEN <<>> ELSE Order[i]]

\* The entry that is visited next.
Entry == CHOOSE e \in todo : \A d \in todo : Rank[e.path] <= Rank[d.path]
Path == Entry.path

\* The entries that a directory has now.
Listing(q) ==
  {[path |-> p, kind |-> disk[p].kind] : p \in {r \in Paths : IsChild(r, q) /\ Present(disk, r)}}

\* Whether d.IsDir() is true.
Descends(entry) == entry.kind = "dir"

\* Mutant of VisitDirectory: links are followed too, and lead back to the root.
VisitDirectoryAlong ==
  /\ pc = "walk"
  /\ todo # {}
  /\ Entry.kind \in {"dir", "link"}
  /\ todo' = Listing(IF Entry.kind = "dir" THEN Path ELSE <<>>) \cup (todo \ {Entry})
  /\ UNCHANGED <<inputVars, disk, pc, config, spaces, routes>>

VisitDirectory ==
  /\ pc = "walk"
  /\ todo # {}
  /\ Descends(Entry)
  /\ Present(disk, Path) /\ disk[Path].readable
  /\ todo' = Listing(Path) \cup (todo \ {Entry})
  /\ UNCHANGED <<inputVars, disk, pc, config, spaces, routes>>

ReadDirFails ==
  /\ pc = "walk"
  /\ todo # {}
  /\ Descends(Entry)
  /\ ~(Present(disk, Path) /\ disk[Path].readable)
  /\ Failed

ToNonce ==
  /\ pc = "walk"
  /\ todo # {}
  /\ ~Descends(Entry)
  /\ MayBeNonced(config, Path)

Page == disk[Path].page

\* Mutant of AddRoute: the target is the name of the file without its directory.
AddRouteByName(route) ==
  /\ routes' = (<<Name(Path)>> :> route) @@ routes
  /\ todo' = todo \ {Entry}
  /\ pc' = "walk"
  /\ UNCHANGED <<inputVars, disk, config>>

\* The entry is done with: its route is in the map.
AddRoute(route) ==
  /\ routes' = [p \in DOMAIN routes \cup {Path} |-> IF p = Path THEN route ELSE routes[p]]
  /\ todo' = todo \ {Entry}
  /\ pc' = "walk"
  /\ UNCHANGED <<inputVars, disk, config>>

\* Mutant of BuildNonced: the page is parsed into the template that all share.
BuildNoncedShared ==
  /\ ToNonce
  /\ CanBeRead(disk[Path])
  /\ Page.token /\ Page.parses
  /\ spaces' = [spaces EXCEPT ![1] =
                  [content |-> Path, policy |-> IF Page.redefines THEN Path ELSE @.policy]]
  /\ AddRoute(NoncedRoute(Path, 1))

\* The page is parsed into a clone of the policy's name space.
BuildNonced ==
  /\ ToNonce
  /\ CanBeRead(disk[Path])
  /\ Page.token /\ Page.parses
  /\ spaces' = Append(spaces, [content |-> Path,
                                policy |-> IF Page.redefines THEN Path ELSE spaces[1].policy])
  /\ AddRoute(NoncedRoute(Path, Len(spaces) + 1))

\* ErrNonNonceable: the file gets a static route.
NotNonceable ==
  /\ ToNonce
  /\ CanBeRead(disk[Path])
  /\ ~Page.token
  /\ pc' = "static"
  /\ UNCHANGED <<inputVars, disk, config, todo, spaces, routes>>

BuildNoncedFails ==
  /\ ToNonce
  /\ ~CanBeRead(disk[Path]) \/ (Page.token /\ ~Page.parses)
  /\ Failed

\* buildStaticRoute is reached at once, or after ErrNonNonceable.
Static ==
  \/ pc = "static"
  \/ /\ pc = "walk"
     /\ todo # {}
     /\ ~Descends(Entry)
     /\ ~MayBeNonced(config, Path)

\* The information about the root is there already.
BuildStatic ==
  /\ Static
  /\ Path = <<>> \/ Present(disk, Path)
  /\ AddRoute(StaticRoute(config, Path, Name(Path), disk[Path]))
  /\ UNCHANGED spaces

InfoFails ==
  /\ Static
  /\ Path # <<>> /\ ~Present(disk, Path)
  /\ Failed

WalkEnds ==
  /\ pc = "walk"
  /\ todo = {}
  /\ pc' = "done"
  /\ UNCHANGED <<inputVars, disk, config, todo, spaces, routes>>

-----------------------------------------------------------------------------
(* Specification *)

Walk ==
  \/ VisitDirectory
  \/ ReadDirFails
  \/ BuildNonced
  \/ NotNonceable
  \/ BuildNoncedFails
  \/ BuildStatic
  \/ InfoFails
  \/ WalkEnds

Step == ParseFlags \/ ParseFails \/ Start \/ StartFails \/ Walk

Next == Step \/ \E p \in Paths : Vanish(p)

Spec == Init /\ [][Next]_vars

\* BuildRoutes goes on, unless a read never returns.
FairSpec == Spec /\ WF_vars(Step)

-----------------------------------------------------------------------------
(* What makes the routes right *)

\* The walk, with its order, its early returns and its clones of the template,
\* makes the table that the flags and the directory call for, or fails for a
\* reason.  In particular every nonced page has its own content and, unless it
\* defines one itself, the policy of the flags.
IsRouteTable == T!TableSpec

\* The walk comes to one of these ends, whatever the links in the directory lead to.
WalkIsFinite == <>Ended

\* A size that is printed and read again is the same, rounded down to a unit of
\* what was printed, up to the last suffix; and the flag of a size comes out of
\* String as it went into UnmarshalFlag, if it was written in the largest unit.
SizesReadBack ==
  \A text \in {flags.maxSize, flags.threshold} : \A size \in Unmarshal(text) :
    /\ Magnitude(size) < Units[Len(SizePrefixes) + 1] =>
         \E read \in Unmarshal(Marshal(size)) :
           Magnitude(size) - Magnitude(read) \in 0 .. Units[Divisions(size) + 1] - 1
    /\ Magnitude(text.number) \in 1 .. Base - 1 => Marshal(size) = text

\* However the directory is named (the default is '.'), BuildRoutes ends with a
\* route for each of its files, if nothing is wrong with them.
DirectoryIsServed ==
  Ended /\ disk = before /\ flags.policyParses /\ Present(before, <<>>)
    /\ (\E c \in Parse(flags) :
          \A p \in Paths : ~T!Defective([c EXCEPT !.directory = "path"], before, p))
  => {p \in Paths : before[p].kind \in {"file", "link"}} \subseteq DOMAIN routes

\* The max-age of a file that may change is the duration of the flag in seconds,
\* the unit of that header.
MaxAgeInSeconds ==
  \A p \in DOMAIN routes :
    routes[p].kind = "static" /\ routes[p].control.directive = "must-revalidate" =>
      routes[p].control.age = flags.maxAge \div Second

=============================================================================
