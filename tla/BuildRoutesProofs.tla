-------------------------- MODULE BuildRoutesProofs --------------------------
(***************************************************************************)
(* Proofs about BuildRoutes, for every directory and all flags: its steps   *)
(* are those that RouteTable allows.                                        *)
(***************************************************************************)
EXTENDS BuildRoutes, ConfigurationProofs, LeastNumber, SequenceTheorems, TLAPS

-----------------------------------------------------------------------------
(* The inductive invariants *)

\* What was removed has nothing below it: the directory is one at any time.
DiskInv ==
  \A p \in Paths : Present(disk, p) =>
    \A n \in 0 .. Len(p) - 1 : SubSeq(p, 1, n) \in Paths /\ disk[SubSeq(p, 1, n)].kind = "dir"

\* The flags are read before the walk, which starts only if it can.
FlagsInv ==
  /\ pc \in {"flags", "start"} => DOMAIN routes = {}
  /\ pc \in {"start", "walk", "static", "done"} => config \in Parse(flags)
  /\ pc \in {"walk", "static", "done"} => config.directory # "" /\ config.policyParses

\* The walk visits what was in the directory, as it was.
TodoInv ==
  /\ pc \in {"walk", "static"} => \A e \in todo :
       e.path \in T!Walked(config, before) /\ e.kind = KindOf(config, before, e.path)
  /\ pc = "static" =>
       /\ todo # {}
       /\ ~Descends(Entry)
       /\ MayBeNonced(config, Path)
       /\ disk[Path].readable
       /\ ~Page.token
       /\ Path = <<>> => CanBeRead(disk[Path])
  /\ pc = "done" => todo = {}

\* A page that was nonced has a name space of its own.
Clone(p) == [content |-> p, policy |-> IF before[p].page.redefines THEN p ELSE <<>>]

\* The route of p is the one that RouteTable asks for.
Right(p) ==
  IF MayBeNonced(config, p) /\ before[p].page.token
  THEN \E s \in DOMAIN spaces : routes[p] = NoncedRoute(p, s) /\ spaces[s] = Clone(p)
  ELSE routes[p] = StaticRoute(config, p, Name(p), before[p])

\* The routes are those of files, and right.
RoutesInv ==
  pc \in {"walk", "static", "done"} =>
    /\ Len(spaces) > 0 /\ spaces[1] = [content |-> <<>>, policy |-> <<>>]
    /\ \A p \in DOMAIN routes : p \in T!Files(config, before) /\ Right(p)

\* p has been visited, or will be when what is at q is.
Settled(p) ==
  ~T!Defective(config, disk, p) /\ (p \in T!Files(config, disk) => p \in DOMAIN routes)
IsAbove(q, p) == Len(q) <= Len(p) /\ \A i \in 1 .. Len(q) : q[i] = p[i]

\* Nothing that is still there is forgotten.
CoverInv ==
  pc \in {"walk", "static", "done"} =>
    \A p \in T!Walked(config, disk) : Settled(p) \/ \E e \in todo : IsAbove(e.path, p)

-----------------------------------------------------------------------------
(* What the operators give *)

\* The parsed flags are the given ones but for two sizes: they name the same
\* directory, and the walk of it is the same.
LEMMA ParseKeeps ==
  ASSUME NEW f \in Flags, NEW c \in Parse(f)
  PROVE  /\ c.directory = f.directory
         /\ c.policyParses = f.policyParses
         /\ \A tree : T!Walked(c, tree) = T!Walked(f, tree)
         /\ \A tree : T!Files(c, tree) = T!Files(f, tree)
         /\ \A tree, p : KindOf(c, tree, p) = KindOf(f, tree, p)
<1>1. c.directory = f.directory /\ c.policyParses = f.policyParses
  <2>1. PICK m \in Unmarshal(f.maxSize), t \in Unmarshal(f.threshold) :
          c = [f EXCEPT !.threshold = t, !.maxSize = m]
    BY DEF Parse
  <2>2. {"directory", "policyParses"} \subseteq DOMAIN f
    BY FlagsAssumption
  <2>3. QED
    BY <2>1, <2>2, Zenon
<1>2. QED
  BY <1>1 DEF T!Walked, T!Files, T!KindOf, T!Present, KindOf

\* A path is a sequence of names.
LEMMA PathsAreSequences ==
  Paths \subseteq Seq(Seq(STRING)) /\ <<>> \in Paths
<1>1. \A i \in 1 .. Len(Order) : Order[i] \in Seq(Seq(STRING))
  BY OrderAssumption
<1>2. \A p \in ToSet(Order) : p \in Seq(Seq(STRING))
  BY <1>1, OrderAssumption DEF ToSet
<1>3. <<>> \in Seq(Seq(STRING))
  OBVIOUS
<1>4. QED
  BY <1>2, <1>3 DEF Paths

\* All that is changed of an entry that is removed is that it is absent.
LEMMA AbsentInfo ==
  ASSUME NEW info \in Infos
  PROVE  /\ Absent(info) \in Infos
         /\ Absent(info).kind = "absent"
         /\ Absent(info).size = info.size
         /\ Absent(info).modtime = info.modtime
         /\ Absent(info).page = info.page
         /\ Absent(info).readable = info.readable
BY Zenon DEF Absent, Infos, Kinds

\* What is removed is only marked as absent.
LEMMA DiskOf ==
  ASSUME TypeOK, NEW p \in Paths
  PROVE  /\ disk[p].size = before[p].size
         /\ disk[p].modtime = before[p].modtime
         /\ disk[p].page = before[p].page
         /\ disk[p].readable = before[p].readable
         /\ Present(disk, p) => disk[p] = before[p]
         /\ before[p] \in Infos
<1>1. before[p] \in Infos
  BY TreesAssumption DEF TypeOK
<1>2. disk[p] = before[p] \/ disk[p] = Absent(before[p])
  BY DEF TypeOK
<1>3. QED
  BY <1>1, <1>2, AbsentInfo DEF Present

\* The entry that is visited next is one of those that are left.
LEMMA EntryIsLeft ==
  ASSUME TypeOK, todo # {}
  PROVE  Entry \in todo /\ Path \in Paths
<1> DEFINE Ranks == {Rank[e.path] : e \in todo}
<1>1. \A e \in todo : e.path \in Paths
  BY DEF TypeOK, Entries
<1>2. \A p \in Paths : Rank[p] \in Nat
  <2>1. ASSUME NEW p \in Paths PROVE \E i \in 0 .. Len(Order) : p = IF i = 0 THEN <<>> ELSE Order[i]
    <3>1. Len(Order) \in Nat
      BY OrderAssumption
    <3>2. CASE p = <<>>
      BY <3>1, <3>2
    <3>3. CASE p # <<>>
      <4>1. p \in ToSet(Order)
        BY <3>3 DEF Paths
      <4>2. DOMAIN Order = 1 .. Len(Order)
        BY OrderAssumption
      <4>3. PICK i \in 1 .. Len(Order) : p = Order[i]
        BY <4>1, <4>2 DEF ToSet
      <4>4. i \in 0 .. Len(Order) /\ i # 0
        BY <3>1
      <4>5. QED
        BY <4>3, <4>4
    <3>4. QED
      BY <3>2, <3>3
  <2>2. Len(Order) \in Nat
    BY OrderAssumption
  <2>3. QED
    BY <2>1, <2>2 DEF Rank
<1>3. Ranks \in SUBSET Nat /\ Ranks # {}
  BY <1>1, <1>2
<1>4. PICK n \in Ranks : \A m \in Ranks : n <= m
  BY <1>3, LeastElement
<1>5. \E e \in todo : \A d \in todo : Rank[e.path] <= Rank[d.path]
  BY <1>4
<1>6. Entry \in todo
  BY <1>5 DEF Entry
<1>7. QED
  BY <1>1, <1>6 DEF Path

\* Above a path there is the way to it from the root, one directory after the other.
LEMMA WayDown ==
  ASSUME TypeOK, DiskInv, NEW p \in Paths, NEW q \in Paths, Present(disk, p), IsAbove(q, p), q # p
  PROVE  /\ disk[q].kind = "dir"
         /\ \E r \in Paths : Present(disk, r) /\ IsChild(r, q) /\ IsAbove(r, p)
<1>1. p \in Seq(Seq(STRING)) /\ q \in Seq(Seq(STRING))
  BY PathsAreSequences
<1>2. Len(q) < Len(p)
  <2>1. SUFFICES ASSUME Len(q) = Len(p) PROVE q = p
    BY <1>1 DEF IsAbove
  <2>2. \A i \in 1 .. Len(q) : q[i] = p[i]
    BY DEF IsAbove
  <2>3. QED
    BY <1>1, <2>1, <2>2, SeqEqual
<1>3. SubSeq(p, 1, Len(q)) = q
  <2> DEFINE s == SubSeq(p, 1, Len(q))
  <2>1. s \in Seq(Seq(STRING)) /\ Len(s) = Len(q) /\ \A i \in 1 .. Len(q) : s[i] = p[i]
    BY <1>1, <1>2
  <2> HIDE DEF s
  <2>2. \A i \in 1 .. Len(s) : s[i] = q[i]
    BY <2>1 DEF IsAbove
  <2>3. QED
    BY <1>1, <2>1, <2>2, SeqEqual DEF s
<1>4. Len(q) \in 0 .. Len(p) - 1
  BY <1>1, <1>2
<1>5. disk[q].kind = "dir"
  BY <1>3, <1>4 DEF DiskInv
<1> DEFINE r == SubSeq(p, 1, Len(q) + 1)
<1>6. /\ r \in Seq(Seq(STRING)) /\ Len(r) = Len(q) + 1
      /\ \A i \in 1 .. Len(r) : r[i] = p[i]
  BY <1>1, <1>2
<1>7. r \in Paths /\ Present(disk, r)
  <2>1. CASE Len(q) + 1 = Len(p)
    <3>1. r = p
      BY <1>1, <1>6, <2>1, SeqEqual
    <3>2. QED
      BY <3>1
  <2>2. CASE Len(q) + 1 # Len(p)
    <3>1. Len(q) + 1 \in 0 .. Len(p) - 1
      BY <1>1, <1>2, <2>2
    <3>2. QED
      BY <3>1 DEF DiskInv, Present
  <2>3. QED
    BY <2>1, <2>2
<1> HIDE DEF r
<1>8. IsChild(r, q)
  <2> DEFINE s == SubSeq(r, 1, Len(r) - 1)
  <2>1. s \in Seq(Seq(STRING)) /\ Len(s) = Len(q) /\ \A i \in 1 .. Len(q) : s[i] = r[i]
    BY <1>1, <1>6
  <2> HIDE DEF s
  <2>2. \A i \in 1 .. Len(s) : s[i] = q[i]
    <3>1. \A i \in 1 .. Len(q) : i \in 1 .. Len(r)
      BY <1>1, <1>6
    <3>2. \A i \in 1 .. Len(q) : q[i] = p[i] /\ r[i] = p[i]
      BY <1>6, <3>1 DEF IsAbove
    <3>3. QED
      BY <2>1, <3>2
  <2>3. s = q
    BY <1>1, <2>1, <2>2, SeqEqual
  <2>4. r # <<>>
    BY <1>1, <1>6
  <2>5. QED
    BY <2>3, <2>4 DEF IsChild, Front, s
<1>9. IsAbove(r, p)
  BY <1>1, <1>2, <1>6 DEF IsAbove
<1>10. QED
  BY <1>5, <1>7, <1>8, <1>9

\* The operators of RouteTable are those of BuildRoutes.
LEMMA SameOperators ==
  ASSUME NEW c, NEW tree, NEW p
  PROVE  /\ T!EnabledCompressions(c) = EnabledCompressions(c)
         /\ T!KindOf(c, tree, p) = KindOf(c, tree, p)
         /\ T!Present(tree, p) = Present(tree, p)
         /\ T!MayBeNonced(c, p) = MayBeNonced(c, p)
         /\ T!CanBeRead(c) = CanBeRead(c)
         /\ T!Parse(c) = Parse(c)
         /\ T!Absent(c) = Absent(c)
         /\ T!StaticRoute(c, p, T!Name(p), tree) = StaticRoute(c, p, Name(p), tree)
<1>1. T!EnabledCompressions(c) = EnabledCompressions(c)
  BY DEF T!EnabledCompressions, EnabledCompressions
<1>2. T!KindOf(c, tree, p) = KindOf(c, tree, p) /\ T!Present(tree, p) = Present(tree, p)
  BY DEF T!KindOf, KindOf, T!Present, Present
<1>3. T!MayBeNonced(c, p) = MayBeNonced(c, p)
  BY DEF T!MayBeNonced, MayBeNonced
<1>4. T!Parse(c) = Parse(c)
  <2>1. T!Units = Units /\ T!SizePrefixes = SizePrefixes /\ T!Int64 = Int64
    BY DEF T!Units, Units, T!SizePrefixes, SizePrefixes, T!Int64, Int64
  <2>2. \A n : T!Wrap(n) = Wrap(n)
    BY DEF T!Wrap, Wrap
  <2>3. \A text : T!Unmarshal(text) = Unmarshal(text)
    BY <2>1, <2>2 DEF T!Unmarshal, Unmarshal
  <2> DEFINE Sized(T1, M1) ==
        UNION {{[c EXCEPT !.threshold = t, !.maxSize = m] : t \in T1} : m \in M1}
  <2>4. /\ T!Parse(c) = Sized(T!Unmarshal(c.threshold), T!Unmarshal(c.maxSize))
        /\ Parse(c) = Sized(Unmarshal(c.threshold), Unmarshal(c.maxSize))
    BY DEF T!Parse, Parse
  <2> HIDE DEF Sized
  <2>5. QED
    BY <2>3, <2>4
<1>5. T!Absent(c) = Absent(c) /\ T!CanBeRead(c) = CanBeRead(c)
  BY DEF T!Absent, Absent, T!CanBeRead, CanBeRead
<1>6. T!Name(p) = Name(p)
  BY DEF T!Name, Name, T!Last, Last
<1>7. T!CacheOf(c, p) = CacheOf(c, p)
  BY DEF T!CacheOf, CacheOf, T!InRoot, InRoot, T!RootCache, RootCache
<1>8. ASSUME NEW name
      PROVE  T!CacheControlOf(c, name) = CacheControlOf(c, name) /\ T!Extension(name) = Extension(name)
  <2>1. T!IsVersionned(name) = IsVersionned(name)
    BY DEF T!IsVersionned, IsVersionned
  <2>2. T!CacheControlOf(c, name) = CacheControlOf(c, name)
    BY <2>1 DEF T!CacheControlOf, CacheControlOf
  <2>3. T!IsSuffix(<<"js", "map">>, name) = IsSuffix(<<"js", "map">>, name)
    BY DEF T!IsSuffix, IsSuffix, T!IsPrefix, IsPrefix, T!Reverse, Reverse
  <2>4. T!Extension(name) = Extension(name)
    BY <2>3 DEF T!Extension, Extension, T!Last, Last
  <2>5. QED
    BY <2>2, <2>4
<1>9. T!StaticRoute(c, p, Name(p), tree) = StaticRoute(c, p, Name(p), tree)
  <2>1. T!CompressionOf(c, Name(p), tree.size) = CompressionOf(c, Name(p), tree.size)
    BY <1>1, <1>8 DEF T!CompressionOf, CompressionOf
  <2>2. QED
    BY <1>7, <1>8, <2>1 DEF T!StaticRoute, StaticRoute
<1>10. QED
  BY <1>1, <1>2, <1>3, <1>4, <1>5, <1>6, <1>9

\* What RouteTable asks for, in the terms of BuildRoutes.
LEMMA TableOperators ==
  ASSUME NEW c, NEW tree
  PROVE  /\ T!Walked(c, tree) =
              IF c.directory = "link" THEN {<<>>} ELSE {p \in DOMAIN tree : Present(tree, p)}
         /\ T!Files(c, tree) = {p \in T!Walked(c, tree) : KindOf(c, tree, p) \in {"file", "link"}}
         /\ \A p : T!Defective(c, tree, p) <=>
              \/ KindOf(c, tree, p) = "dir" /\ ~tree[p].readable
              \/ /\ p \in T!Files(c, tree)
                 /\ MayBeNonced(c, p)
                 /\ ~CanBeRead(tree[p]) \/ (tree[p].page.token /\ ~tree[p].page.parses)
         /\ \A p : T!RouteOf(c, tree, p) =
              IF MayBeNonced(c, p) /\ tree[p].page.token
              THEN [kind |-> "nonced", path |-> p, codings |-> EnabledCompressions(c),
                    content |-> p, policy |-> IF tree[p].page.redefines THEN p ELSE <<>>]
              ELSE StaticRoute(c, p, Name(p), tree[p])
<1>1. /\ \A p : T!KindOf(c, tree, p) = KindOf(c, tree, p)
      /\ \A p : T!Present(tree, p) = Present(tree, p)
      /\ \A p : T!MayBeNonced(c, p) = MayBeNonced(c, p)
      /\ \A p : T!CanBeRead(tree[p]) = CanBeRead(tree[p])
  BY SameOperators
<1>2. T!Walked(c, tree) =
        IF c.directory = "link" THEN {<<>>} ELSE {p \in DOMAIN tree : Present(tree, p)}
  BY <1>1 DEF T!Walked
<1>3. T!Files(c, tree) = {p \in T!Walked(c, tree) : KindOf(c, tree, p) \in {"file", "link"}}
  BY <1>1 DEF T!Files
<1>4. \A p : T!Defective(c, tree, p) <=>
        \/ KindOf(c, tree, p) = "dir" /\ ~tree[p].readable
        \/ /\ p \in T!Files(c, tree)
           /\ MayBeNonced(c, p)
           /\ ~CanBeRead(tree[p]) \/ (tree[p].page.token /\ ~tree[p].page.parses)
  BY <1>1 DEF T!Defective
<1>5. ASSUME NEW p
      PROVE  T!RouteOf(c, tree, p) =
              IF MayBeNonced(c, p) /\ tree[p].page.token
              THEN [kind |-> "nonced", path |-> p, codings |-> EnabledCompressions(c),
                    content |-> p, policy |-> IF tree[p].page.redefines THEN p ELSE <<>>]
              ELSE StaticRoute(c, p, Name(p), tree[p])
  <2>1. /\ T!EnabledCompressions(c) = EnabledCompressions(c)
        /\ T!MayBeNonced(c, p) = MayBeNonced(c, p)
        /\ T!StaticRoute(c, p, T!Name(p), tree[p]) = StaticRoute(c, p, Name(p), tree[p])
    BY SameOperators
  <2>2. QED
    BY <2>1 DEF T!RouteOf
<1>6. QED
  BY <1>2, <1>3, <1>4, <1>5

\* What a static route has of its file is there after the file was removed.
LEMMA StaticRouteOf ==
  ASSUME TypeOK, NEW p \in Paths
  PROVE  StaticRoute(config, p, Name(p), disk[p]) = StaticRoute(config, p, Name(p), before[p])
BY DiskOf DEF StaticRoute

-----------------------------------------------------------------------------
(* What the steps change *)

\* The directory is not changed by the server.
LEMMA StepAside ==
  ASSUME Step
  PROVE  UNCHANGED <<flags, before, disk>>
BY DEF Step, Walk, ParseFlags, ParseFails, Start, StartFails, VisitDirectory, ReadDirFails,
       BuildNonced, NotNonceable, BuildNoncedFails, BuildStatic, InfoFails, WalkEnds,
       Failed, AddRoute, inputVars

\* Every error leaves everything as it is.
LEMMA FailAside ==
  ASSUME ParseFails \/ StartFails \/ ReadDirFails \/ BuildNoncedFails \/ InfoFails
  PROVE  /\ pc' = "failed"
         /\ UNCHANGED <<flags, before, disk, config, todo, spaces, routes>>
BY DEF ParseFails, StartFails, ReadDirFails, BuildNoncedFails, InfoFails, Failed, inputVars

\* Somebody removes one path, which had nothing below it.
LEMMA VanishAside ==
  ASSUME TypeOK, NEW q \in Paths, Vanish(q)
  PROVE  /\ UNCHANGED <<flags, before, pc, config, todo, spaces, routes>>
         /\ disk' \in [Paths -> Infos]
         /\ q # <<>> /\ ~Present(disk', q) /\ disk'[q] = Absent(disk[q])
         /\ \A p \in Paths \ {q} : disk'[p] = disk[p]
         /\ \A p \in Paths : disk'[p].page = disk[p].page /\ disk'[p].readable = disk[p].readable
<1>1. disk' = [disk EXCEPT ![q] = Absent(disk[q])]
  BY DEF Vanish
<1>2. disk[q] \in Infos
  BY DEF TypeOK
<1>3. disk' \in [Paths -> Infos] /\ disk'[q] = Absent(disk[q])
      /\ \A p \in Paths \ {q} : disk'[p] = disk[p]
  BY <1>1, <1>2, AbsentInfo DEF TypeOK
<1>4. /\ disk'[q].page = disk[q].page
      /\ disk'[q].readable = disk[q].readable
      /\ disk'[q].kind = "absent"
  BY <1>2, <1>3, AbsentInfo
<1>5. QED
  BY <1>3, <1>4 DEF Vanish, inputVars, Present

\* The route of an entry replaces nothing but that entry.
LEMMA RouteAdded ==
  ASSUME NEW route, AddRoute(route)
  PROVE  /\ DOMAIN routes' = DOMAIN routes \cup {Path}
         /\ routes'[Path] = route
         /\ \A p \in DOMAIN routes \ {Path} : routes'[p] = routes[p]
         /\ todo' = todo \ {Entry}
         /\ pc' = "walk"
         /\ UNCHANGED <<flags, before, disk, config>>
BY DEF AddRoute, inputVars

\* The entry that gets a route is a file or a link that was there at first.
LEMMA EntryIsFile ==
  ASSUME TypeOK, TodoInv, todo # {}, pc \in {"walk", "static"}, ~Descends(Entry)
  PROVE  /\ Entry \in todo /\ Path \in Paths
         /\ Path \in T!Files(config, before)
<1>1. Entry \in todo /\ Path \in Paths
  BY EntryIsLeft
<1>2. Path \in T!Walked(config, before) /\ Entry.kind = KindOf(config, before, Path)
  BY <1>1 DEF TodoInv, Path
<1>3. Entry.kind \in Kinds \ {"absent"}
  BY <1>1 DEF TypeOK, Entries
<1>4. Entry.kind \in {"file", "link"}
  BY <1>3 DEF Kinds, Descends
<1>5. QED
  BY <1>1, <1>2, <1>4, TableOperators

-----------------------------------------------------------------------------
(* Each step preserves each part *)

\* What is removed has nothing below it.
LEMMA DiskStep ==
  ASSUME TypeOK, DiskInv, [Next]_vars
  PROVE  DiskInv'
<1>1. CASE UNCHANGED vars
  BY <1>1 DEF vars, DiskInv, Present
<1>2. CASE Step
  BY <1>2, StepAside DEF DiskInv, Present
<1>3. ASSUME NEW q \in Paths, Vanish(q) PROVE DiskInv'
  <2> SUFFICES ASSUME NEW p \in Paths, Present(disk', p), NEW n \in 0 .. Len(p) - 1
               PROVE  SubSeq(p, 1, n) \in Paths /\ disk'[SubSeq(p, 1, n)].kind = "dir"
    BY DEF DiskInv, Present
  <2> DEFINE r == SubSeq(p, 1, n)
  <2>1. p # q /\ Present(disk, p)
    BY <1>3, VanishAside DEF Present
  <2>2. r \in Paths /\ disk[r].kind = "dir"
    BY <2>1 DEF DiskInv
  <2>3. r # q
    <3>1. SUFFICES ASSUME r = q PROVE FALSE
      OBVIOUS
    <3>2. IsAbove(q, p) /\ q # p
      <4>1. p \in Seq(Seq(STRING))
        BY PathsAreSequences
      <4>2. Len(r) = n /\ \A i \in 1 .. n : r[i] = p[i]
        BY <4>1
      <4>3. QED
        BY <2>1, <3>1, <4>1, <4>2 DEF IsAbove
    <3>3. \E t \in Paths : Present(disk, t) /\ IsChild(t, q)
      BY <2>1, <3>2, WayDown
    <3>4. QED
      BY <1>3, <3>3 DEF Vanish
  <2>4. QED
    BY <1>3, <2>2, <2>3, VanishAside
<1>4. QED
  BY <1>1, <1>2, <1>3 DEF Next

\* The walk starts with flags that were read and let it start.
LEMMA FlagsStep ==
  ASSUME TypeOK, FlagsInv, [Next]_vars
  PROVE  FlagsInv'
<1> USE DEF FlagsInv
<1>1. CASE UNCHANGED vars
  BY <1>1 DEF vars, inputVars
<1>2. ASSUME NEW q \in Paths, Vanish(q) PROVE FlagsInv'
  BY <1>2, VanishAside
<1>3. CASE ParseFlags
  BY <1>3 DEF ParseFlags, inputVars
<1>4. CASE Start
  BY <1>4 DEF Start, inputVars
<1>5. CASE VisitDirectory
  BY <1>5 DEF VisitDirectory, inputVars
<1>6. CASE BuildNonced
  BY <1>6, RouteAdded DEF BuildNonced, ToNonce
<1>7. CASE NotNonceable
  BY <1>7 DEF NotNonceable, ToNonce, inputVars
<1>8. CASE BuildStatic
  BY <1>8, RouteAdded DEF BuildStatic, Static
<1>9. CASE WalkEnds
  BY <1>9 DEF WalkEnds, inputVars
<1>10. CASE ParseFails \/ StartFails \/ ReadDirFails \/ BuildNoncedFails \/ InfoFails
  BY <1>10, FailAside
<1>11. QED
  BY <1>1, <1>2, <1>3, <1>4, <1>5, <1>6, <1>7, <1>8, <1>9, <1>10 DEF Next, Step, Walk

\* What is left to visit was in the directory.
LEMMA TodoStep ==
  ASSUME TypeOK, DiskInv, FlagsInv, TodoInv, [Next]_vars
  PROVE  TodoInv'
<1> USE DEF TodoInv
<1>1. CASE UNCHANGED vars
  BY <1>1 DEF vars, inputVars, Entry, Path, Page
<1>2. ASSUME NEW q \in Paths, Vanish(q) PROVE TodoInv'
  <2>1. UNCHANGED <<flags, before, pc, config, todo, spaces, routes>>
    BY <1>2, VanishAside
  <2>2. Entry' = Entry /\ Path' = Path
    BY <2>1 DEF Entry, Path
  <2>3. pc = "static" => Page' = Page /\ disk'[Path].readable = disk[Path].readable
    BY <1>2, VanishAside, EntryIsLeft, <2>2 DEF Page
  <2>4. Path = <<>> => CanBeRead(disk[Path])' = CanBeRead(disk[Path])
    BY <1>2, <2>2, VanishAside, PathsAreSequences DEF CanBeRead
  <2>5. QED
    BY <2>1, <2>2, <2>3, <2>4
<1>3. CASE ParseFlags
  BY <1>3 DEF ParseFlags, inputVars
<1>4. CASE Start
  <2>1. /\ todo' = {[path |-> <<>>, kind |-> KindOf(config, disk, <<>>)]}
        /\ pc' = "walk" /\ UNCHANGED <<before, disk, config>>
        /\ KindOf(config, disk, <<>>) # "absent"
    BY <1>4 DEF Start, inputVars
  <2>2. KindOf(config, disk, <<>>) = KindOf(config, before, <<>>)
    BY <2>1, PathsAreSequences, DiskOf DEF KindOf, Present
  <2>3. <<>> \in T!Walked(config, before)
    <3>1. DOMAIN before = Paths /\ <<>> \in Paths
      BY TreesAssumption, PathsAreSequences DEF TypeOK
    <3>2. config.directory # "link" => Present(before, <<>>)
      BY <2>1, <2>2 DEF KindOf, Present
    <3>3. QED
      BY <3>1, <3>2, TableOperators
  <2>4. QED
    BY <2>1, <2>2, <2>3
<1>5. CASE VisitDirectory
  <2>1. /\ pc = "walk" /\ pc' = "walk" /\ UNCHANGED <<before, disk, config>>
        /\ todo # {} /\ Entry.kind = "dir" /\ todo' = Listing(Path) \cup (todo \ {Entry})
    BY <1>5 DEF VisitDirectory, Descends, inputVars
  <2>2. config.directory # "link"
    <3>1. Entry \in todo
      BY <2>1, EntryIsLeft
    <3>2. Path \in T!Walked(config, before) /\ KindOf(config, before, Path) = "dir"
      BY <2>1, <3>1 DEF Path
    <3>3. QED
      BY <3>2, TableOperators DEF KindOf
  <2>3. ASSUME NEW e \in Listing(Path)
        PROVE  e.path \in T!Walked(config, before) /\ e.kind = KindOf(config, before, e.path)
    <3>1. PICK r \in Paths : /\ e = [path |-> r, kind |-> disk[r].kind]
                             /\ IsChild(r, Path) /\ Present(disk, r)
      BY <2>3 DEF Listing
    <3>2. r # <<>> /\ disk[r] = before[r] /\ Present(before, r)
      BY <3>1, DiskOf DEF IsChild, Present
    <3>3. DOMAIN before = Paths
      BY TreesAssumption DEF TypeOK
    <3>4. r \in T!Walked(config, before)
      BY <2>2, <3>2, <3>3, TableOperators
    <3>5. QED
      BY <3>1, <3>2, <3>4 DEF KindOf
  <2>4. QED
    BY <2>1, <2>3
<1>6. CASE BuildNonced
  BY <1>6, RouteAdded DEF BuildNonced, ToNonce
<1>7. CASE NotNonceable
  <2>1. /\ pc = "walk" /\ pc' = "static" /\ UNCHANGED <<before, disk, config, todo>>
        /\ todo # {} /\ ~Descends(Entry) /\ MayBeNonced(config, Path)
        /\ CanBeRead(disk[Path]) /\ disk[Path].readable /\ ~Page.token
    BY <1>7 DEF NotNonceable, ToNonce, CanBeRead, inputVars
  <2>2. Entry' = Entry /\ Path' = Path /\ Page' = Page /\ CanBeRead(disk'[Path])
    BY <2>1 DEF Entry, Path, Page
  <2>3. CanBeRead(disk[Path])'
    BY <2>2
  <2>4. QED
    BY <2>1, <2>2, <2>3
<1>8. CASE BuildStatic
  BY <1>8, RouteAdded DEF BuildStatic, Static
<1>9. CASE WalkEnds
  BY <1>9 DEF WalkEnds, inputVars
<1>10. CASE ParseFails \/ StartFails \/ ReadDirFails \/ BuildNoncedFails \/ InfoFails
  BY <1>10, FailAside
<1>11. QED
  BY <1>1, <1>2, <1>3, <1>4, <1>5, <1>6, <1>7, <1>8, <1>9, <1>10 DEF Next, Step, Walk

\* Each route that is made is the right one, and stays.
LEMMA RoutesStep ==
  ASSUME TypeOK, FlagsInv, TodoInv, RoutesInv, [Next]_vars
  PROVE  RoutesInv'
<1>1. ASSUME UNCHANGED <<before, config, spaces, routes>>,
             pc' \in {"walk", "static", "done"} => pc \in {"walk", "static", "done"}
      PROVE  RoutesInv'
  <2>1. \A p \in DOMAIN routes : Right(p) => Right(p)'
    BY <1>1 DEF Right, Clone, NoncedRoute
  <2>2. QED
    BY <1>1, <2>1 DEF RoutesInv
<1>2. CASE UNCHANGED vars
  BY <1>1, <1>2 DEF vars, inputVars
<1>3. ASSUME NEW q \in Paths, Vanish(q) PROVE RoutesInv'
  BY <1>1, <1>3, VanishAside
<1>4. CASE ParseFlags
  BY <1>4 DEF ParseFlags, RoutesInv
<1>5. CASE Start
  <2>1. spaces' = <<[content |-> <<>>, policy |-> <<>>]>> /\ DOMAIN routes' = {}
    BY <1>5 DEF Start, FlagsInv
  <2>2. QED
    BY <2>1 DEF RoutesInv
<1>6. CASE VisitDirectory \/ NotNonceable \/ WalkEnds
  BY <1>1, <1>6 DEF VisitDirectory, NotNonceable, WalkEnds, ToNonce, inputVars
<1>7. CASE BuildNonced
  <2> PICK path : path = Path
    OBVIOUS
  <2> PICK space : space = Len(spaces) + 1
    OBVIOUS
  <2>1. /\ pc = "walk" /\ todo # {} /\ ~Descends(Entry) /\ MayBeNonced(config, path)
        /\ Present(disk, path) /\ disk[path].page.token
        /\ AddRoute(NoncedRoute(path, space))
    BY <1>7 DEF BuildNonced, ToNonce, Page, CanBeRead, Present
  <2>2. path \in Paths /\ path \in T!Files(config, before)
    BY <2>1, EntryIsFile
  <2>3. disk[path] = before[path]
    BY <2>1, <2>2, DiskOf
  <2>4. Len(spaces) > 0 /\ spaces[1] = [content |-> <<>>, policy |-> <<>>] /\ spaces \in Seq(Spaces)
    BY <2>1 DEF RoutesInv, TypeOK
  <2> DEFINE clone == Clone(path)
  <2>5. spaces' = Append(spaces, clone)
    BY <1>7, <2>3, <2>4 DEF BuildNonced, Clone, Page
  <2> HIDE DEF clone
  <2>6. /\ Len(spaces') > 0 /\ spaces'[1] = spaces[1]
        /\ space \in DOMAIN spaces' /\ spaces'[space] = clone
        /\ \A s \in DOMAIN spaces : s \in DOMAIN spaces' /\ spaces'[s] = spaces[s]
    BY <2>4, <2>5
  <2>7. /\ DOMAIN routes' = DOMAIN routes \cup {path}
        /\ routes'[path] = NoncedRoute(path, space)
        /\ \A p \in DOMAIN routes \ {path} : routes'[p] = routes[p]
        /\ UNCHANGED <<before, config>>
    BY <2>1, RouteAdded
  <2>8. /\ \A p : Clone(p)' = Clone(p)
        /\ \A p, s : NoncedRoute(p, s)' = NoncedRoute(p, s)
    BY <2>7 DEF Clone, NoncedRoute
  <2>9. ASSUME NEW p \in DOMAIN routes \ {path} PROVE Right(p)'
    <3>1. Right(p)
      BY <2>1 DEF RoutesInv
    <3>2. QED
      BY <2>6, <2>7, <2>8, <3>1 DEF Right
  <2>10. Right(path)'
    <3>1. MayBeNonced(config', path) /\ before'[path].page.token
      BY <2>1, <2>3, <2>7
    <3>2. routes'[path] = NoncedRoute(path, space)' /\ spaces'[space] = Clone(path)'
      BY <2>6, <2>7, <2>8 DEF clone
    <3>3. QED
      BY <2>6, <3>1, <3>2 DEF Right
  <2>11. ASSUME NEW p \in DOMAIN routes' PROVE p \in T!Files(config', before') /\ Right(p)'
    BY <2>1, <2>2, <2>7, <2>9, <2>10 DEF RoutesInv
  <2>12. QED
    BY <2>4, <2>6, <2>11 DEF RoutesInv
<1>8. CASE BuildStatic
  <2>1. /\ pc \in {"walk", "static"} /\ todo # {} /\ ~Descends(Entry)
        /\ AddRoute(StaticRoute(config, Path, Name(Path), disk[Path]))
        /\ spaces' = spaces
    BY <1>8 DEF BuildStatic, Static, TodoInv
  <2>2. Path \in Paths /\ Path \in T!Files(config, before)
    BY <2>1, EntryIsFile
  <2>3. MayBeNonced(config, Path) => ~before[Path].page.token
    BY <1>8, <2>2, DiskOf DEF BuildStatic, Static, TodoInv, Page
  <2>4. /\ DOMAIN routes' = DOMAIN routes \cup {Path}
        /\ routes'[Path] = StaticRoute(config, Path, Name(Path), before[Path])
        /\ \A p \in DOMAIN routes \ {Path} : routes'[p] = routes[p]
        /\ UNCHANGED <<before, config>>
    BY <2>1, <2>2, RouteAdded, StaticRouteOf
  <2>5. \A p \in DOMAIN routes \ {Path} : Right(p)'
    BY <2>1, <2>4 DEF RoutesInv, Right, Clone, NoncedRoute
  <2>6. \A p : p = Path => Right(p)'
    BY <2>3, <2>4 DEF Right
  <2>7. QED
    BY <2>1, <2>2, <2>4, <2>5, <2>6 DEF RoutesInv
<1>9. CASE ParseFails \/ StartFails \/ ReadDirFails \/ BuildNoncedFails \/ InfoFails
  BY <1>9, FailAside DEF RoutesInv
<1>10. QED
  BY <1>2, <1>3, <1>4, <1>5, <1>6, <1>7, <1>8, <1>9 DEF Next, Step, Walk

\* What the walk still reaches is what was there at first.
LEMMA WalkedBefore ==
  ASSUME TypeOK, NEW p \in T!Walked(config, disk)
  PROVE  /\ p \in Paths
         /\ p \in T!Walked(config, before)
         /\ KindOf(config, disk, p) = KindOf(config, before, p)
         /\ config.directory = "link" => p = <<>>
         /\ config.directory # "link" => Present(disk, p) /\ KindOf(config, disk, p) = disk[p].kind
<1>1. DOMAIN disk = Paths /\ DOMAIN before = Paths /\ <<>> \in Paths
  BY TreesAssumption, PathsAreSequences DEF TypeOK
<1>2. CASE config.directory = "link"
  BY <1>1, <1>2, TableOperators DEF KindOf
<1>3. CASE config.directory # "link"
  <2>1. p \in Paths /\ Present(disk, p)
    BY <1>1, <1>3, TableOperators
  <2>2. disk[p] = before[p]
    BY <2>1, DiskOf
  <2>3. Present(before, p)
    BY <2>1, <2>2 DEF Present
  <2>4. QED
    BY <1>1, <1>3, <2>1, <2>2, <2>3, TableOperators DEF KindOf
<1>4. QED
  BY <1>2, <1>3

\* Below an entry that is no directory the walk reaches nothing.
LEMMA NothingBelowFile ==
  ASSUME TypeOK, DiskInv, TodoInv, todo # {}, pc \in {"walk", "static"}, ~Descends(Entry),
         NEW p \in T!Walked(config, disk), IsAbove(Path, p)
  PROVE  p = Path
<1>1. Path \in Paths /\ Path \in T!Files(config, before)
  BY EntryIsFile
<1>2. CASE config.directory = "link"
  BY <1>1, <1>2, WalkedBefore, TableOperators
<1>3. CASE config.directory # "link"
  <2>1. SUFFICES ASSUME p # Path PROVE FALSE
    OBVIOUS
  <2>2. p \in Paths /\ Present(disk, p)
    BY <1>3, WalkedBefore
  <2>3. disk[Path].kind = "dir"
    BY <1>1, <2>1, <2>2, WayDown
  <2>4. before[Path].kind = "dir"
    BY <1>1, <2>3, DiskOf DEF Present
  <2>5. KindOf(config, before, Path) \in {"file", "link"}
    BY <1>1, TableOperators
  <2>6. QED
    BY <1>3, <2>4, <2>5 DEF KindOf
<1>4. QED
  BY <1>2, <1>3

\* An entry that is done with is settled, and nothing else is lost from sight.
LEMMA EntryCovered ==
  ASSUME TypeOK, DiskInv, TodoInv, CoverInv, todo # {}, pc \in {"walk", "static"}, ~Descends(Entry),
         UNCHANGED <<config, disk>>, todo' = todo \ {Entry}, DOMAIN routes' = DOMAIN routes \cup {Path},
         Path \in T!Walked(config, disk) => ~T!Defective(config, disk, Path)
  PROVE  CoverInv'
<1> SUFFICES ASSUME NEW p \in T!Walked(config, disk)
             PROVE  Settled(p)' \/ \E e \in todo' : IsAbove(e.path, p)
  BY DEF CoverInv, IsAbove
<1>1. CASE Settled(p)
  BY <1>1 DEF Settled
<1>2. ASSUME NEW e \in todo, IsAbove(e.path, p), e # Entry
      PROVE  \E d \in todo' : IsAbove(d.path, p)
  BY <1>2
<1>3. ASSUME IsAbove(Path, p) PROVE Settled(p)'
  <2>1. p = Path
    BY <1>3, NothingBelowFile
  <2>2. ~T!Defective(config, disk, p) /\ p \in DOMAIN routes'
    BY <2>1
  <2>3. QED
    BY <2>2 DEF Settled
<1>4. QED
  BY <1>1, <1>2, <1>3 DEF CoverInv, Path

\* What is there is settled, or below an entry that the walk has still to visit.
LEMMA CoverStep ==
  ASSUME TypeOK, DiskInv, FlagsInv, TodoInv, CoverInv, [Next]_vars
  PROVE  CoverInv'
<1>1. ASSUME UNCHANGED <<config, disk, todo, routes>>,
             pc' \in {"walk", "static", "done"} => pc \in {"walk", "static", "done"}
      PROVE  CoverInv'
  <2>1. \A p : Settled(p)' <=> Settled(p)
    BY <1>1 DEF Settled
  <2>2. QED
    BY <1>1, <2>1 DEF CoverInv, IsAbove
<1>2. CASE UNCHANGED vars
  BY <1>1, <1>2 DEF vars, inputVars
<1>3. ASSUME NEW q \in Paths, Vanish(q) PROVE CoverInv'
  <2>1. /\ UNCHANGED <<pc, config, todo, routes>> /\ q # <<>> /\ ~Present(disk', q)
        /\ \A p \in Paths \ {q} : disk'[p] = disk[p]
        /\ DOMAIN disk' = Paths /\ DOMAIN disk = Paths
    BY <1>3, VanishAside DEF TypeOK
  <2>2. ASSUME NEW p \in T!Walked(config, disk')
        PROVE  p \in T!Walked(config, disk) /\ (Settled(p) => Settled(p)')
    <3> DEFINE tree == disk'
    <3>1. p \in Paths /\ p # q
      <4>1. T!Walked(config, tree) =
              IF config.directory = "link" THEN {<<>>} ELSE {r \in DOMAIN tree : Present(tree, r)}
        BY TableOperators
      <4>2. p = <<>> \/ (p \in DOMAIN tree /\ Present(tree, p))
        BY <4>1
      <4>3. QED
        BY <2>1, <4>2, PathsAreSequences
    <3>2. disk'[p] = disk[p]
      BY <2>1, <3>1
    <3>3. /\ p \in T!Walked(config, disk)
          /\ KindOf(config, disk', p) = KindOf(config, disk, p)
      BY <2>1, <3>1, <3>2, TableOperators DEF KindOf, Present
    <3>4. p \in T!Files(config, disk') <=> p \in T!Files(config, disk)
      BY <3>3, TableOperators
    <3>5. T!Defective(config, disk', p) <=> T!Defective(config, disk, p)
      BY <3>2, <3>3, <3>4, TableOperators
    <3>6. QED
      BY <2>1, <3>3, <3>4, <3>5 DEF Settled
  <2>3. QED
    BY <2>1, <2>2 DEF CoverInv, IsAbove
<1>4. CASE ParseFlags
  BY <1>4 DEF ParseFlags, CoverInv
<1>5. CASE Start
  <2>1. <<>> \in {e.path : e \in todo'} /\ disk' = disk /\ config' = config
    BY <1>5 DEF Start, inputVars
  <2>2. \A p \in T!Walked(config, disk) : IsAbove(<<>>, p)
    BY WalkedBefore, PathsAreSequences DEF IsAbove
  <2>3. QED
    BY <2>1, <2>2 DEF CoverInv, IsAbove
<1>6. CASE VisitDirectory
  <2>1. /\ pc = "walk" /\ UNCHANGED <<config, disk, routes>>
        /\ todo # {} /\ Entry.kind = "dir" /\ Present(disk, Path) /\ disk[Path].readable
        /\ todo' = Listing(Path) \cup (todo \ {Entry})
    BY <1>6 DEF VisitDirectory, Descends, inputVars
  <2>2. Path \in Paths /\ KindOf(config, before, Path) = "dir"
    BY <2>1, EntryIsLeft DEF TodoInv, Path
  <2>3. KindOf(config, disk, Path) = "dir" /\ config.directory # "link"
    <3>1. disk[Path] = before[Path]
      BY <2>1, <2>2, DiskOf
    <3>2. Path \in T!Walked(config, before)
      BY <2>1, EntryIsLeft DEF TodoInv, Path
    <3>3. QED
      BY <2>2, <3>1, <3>2, TableOperators DEF KindOf
  <2> SUFFICES ASSUME NEW p \in T!Walked(config, disk)
               PROVE  Settled(p)' \/ \E e \in todo' : IsAbove(e.path, p)
    BY <2>1 DEF CoverInv, IsAbove
  <2>4. CASE Settled(p)
    BY <2>1, <2>4 DEF Settled
  <2>5. ASSUME NEW e \in todo, IsAbove(e.path, p), e # Entry
        PROVE  \E d \in todo' : IsAbove(d.path, p)
    BY <2>1, <2>5
  <2>6. ASSUME p = Path PROVE Settled(p)'
    <3>1. ~T!Defective(config, disk, p) /\ p \notin T!Files(config, disk)
      BY <2>1, <2>3, <2>6, TableOperators
    <3>2. QED
      BY <2>1, <3>1 DEF Settled
  <2>7. ASSUME IsAbove(Path, p), p # Path
        PROVE  \E e \in todo' : IsAbove(e.path, p)
    <3>1. p \in Paths /\ Present(disk, p)
      BY <2>3, WalkedBefore
    <3>2. PICK r \in Paths : Present(disk, r) /\ IsChild(r, Path) /\ IsAbove(r, p)
      BY <2>2, <2>7, <3>1, WayDown
    <3>3. [path |-> r, kind |-> disk[r].kind] \in todo'
      BY <2>1, <3>2 DEF Listing
    <3>4. QED
      BY <3>2, <3>3
  <2>8. QED
    BY <2>1, <2>4, <2>5, <2>6, <2>7 DEF CoverInv, Path
<1>7. CASE NotNonceable \/ WalkEnds
  BY <1>1, <1>7 DEF NotNonceable, WalkEnds, ToNonce, inputVars
<1>8. CASE BuildNonced
  <2>1. /\ pc = "walk" /\ todo # {} /\ ~Descends(Entry)
        /\ CanBeRead(disk[Path]) /\ Page.parses
        /\ AddRoute(NoncedRoute(Path, Len(spaces) + 1))
    BY <1>8 DEF BuildNonced, ToNonce
  <2>2. Path \in Paths /\ Path \in T!Files(config, before)
    BY <2>1, EntryIsFile
  <2>3. ASSUME Path \in T!Walked(config, disk) PROVE ~T!Defective(config, disk, Path)
    <3>1. KindOf(config, disk, Path) \in {"file", "link"}
      BY <2>2, <2>3, WalkedBefore, TableOperators
    <3>2. MayBeNonced(config, Path) => CanBeRead(disk[Path])
      BY <2>1, <2>3, <3>1, WalkedBefore DEF CanBeRead
    <3>3. QED
      BY <2>1, <3>1, <3>2, TableOperators DEF Page
  <2>4. QED
    BY <2>1, <2>3, RouteAdded, EntryCovered
<1>9. CASE BuildStatic
  <2>1. /\ pc \in {"walk", "static"} /\ todo # {} /\ ~Descends(Entry)
        /\ AddRoute(StaticRoute(config, Path, Name(Path), disk[Path]))
        /\ MayBeNonced(config, Path) =>
             disk[Path].readable /\ ~Page.token /\ (Path = <<>> => CanBeRead(disk[Path]))
    BY <1>9 DEF BuildStatic, Static, TodoInv
  <2>2. Path \in Paths /\ Path \in T!Files(config, before)
    BY <2>1, EntryIsFile
  <2>3. ASSUME Path \in T!Walked(config, disk) PROVE ~T!Defective(config, disk, Path)
    <3>1. KindOf(config, disk, Path) \in {"file", "link"}
      BY <2>2, <2>3, WalkedBefore, TableOperators
    <3>2. MayBeNonced(config, Path) => CanBeRead(disk[Path])
      BY <2>1, <2>3, <3>1, WalkedBefore DEF CanBeRead
    <3>3. QED
      BY <2>1, <3>1, <3>2, TableOperators DEF Page
  <2>4. QED
    BY <2>1, <2>3, RouteAdded, EntryCovered
<1>10. CASE ParseFails \/ StartFails \/ ReadDirFails \/ BuildNoncedFails \/ InfoFails
  BY <1>10, FailAside DEF CoverInv
<1>11. QED
  BY <1>2, <1>3, <1>4, <1>5, <1>6, <1>7, <1>8, <1>9, <1>10 DEF Next, Step, Walk

\* What each variable holds, whatever is removed while the routes are made.
LEMMA TypeStep ==
  ASSUME TypeOK, FlagsInv, TodoInv, RoutesInv, [Next]_vars
  PROVE  TypeOK'
<1>1. ASSUME NEW q \in Paths, Vanish(q) PROVE TypeOK'
  <2>1. /\ UNCHANGED <<flags, before, pc, config, todo, spaces, routes>>
        /\ disk' \in [Paths -> Infos] /\ disk'[q] = Absent(disk[q])
        /\ \A p \in Paths \ {q} : disk'[p] = disk[p]
    BY <1>1, VanishAside
  <2>2. disk[q] = before[q]
    BY <1>1, DiskOf DEF Vanish
  <2>3. \A p \in Paths : disk'[p] \in {before[p], Absent(before[p])}
    BY <2>1, <2>2 DEF TypeOK
  <2>4. Unparsed' = Unparsed /\ \A p, s : NoncedRoute(p, s)' = NoncedRoute(p, s)
    BY <2>1 DEF Unparsed, NoncedRoute
  <2>5. QED
    BY <2>1, <2>3, <2>4 DEF TypeOK
<1>2. CASE UNCHANGED vars
  <2>1. UNCHANGED <<flags, before, disk, pc, config, todo, spaces, routes>>
    BY <1>2 DEF vars, inputVars
  <2>2. Unparsed' = Unparsed /\ \A p, s : NoncedRoute(p, s)' = NoncedRoute(p, s)
    BY <2>1 DEF Unparsed, NoncedRoute
  <2>3. QED
    BY <2>1, <2>2 DEF TypeOK
<1>3. CASE Step
  <2>1. UNCHANGED <<flags, before, disk>>
    BY <1>3, StepAside
  <2>2. ASSUME UNCHANGED <<config, todo, spaces, routes>>, pc # "flags" \/ Parse(flags) = {},
               pc' \in {"walk", "static", "done", "failed"}
        PROVE  TypeOK'
    <3>1. Unparsed' = Unparsed /\ \A p, s : NoncedRoute(p, s)' = NoncedRoute(p, s)
      BY <2>1, <2>2 DEF Unparsed, NoncedRoute
    <3>2. QED
      BY <2>1, <2>2, <3>1 DEF TypeOK
  <2>3. CASE ParseFlags
    <3>1. /\ config' \in Parse(flags) /\ pc' = "start" /\ UNCHANGED <<todo, spaces, routes>>
          /\ DOMAIN routes = {}
      BY <2>3 DEF ParseFlags, FlagsInv
    <3>2. Parse(flags) # {}
      BY <3>1
    <3>3. QED
      BY <2>1, <3>1, <3>2 DEF TypeOK
  <2>4. CASE Start
    <3>1. /\ UNCHANGED <<config, routes>> /\ pc = "start" /\ pc' = "walk"
          /\ KindOf(config, disk, <<>>) # "absent" /\ DOMAIN routes = {}
          /\ todo' = {[path |-> <<>>, kind |-> KindOf(config, disk, <<>>)]}
          /\ spaces' = <<[content |-> <<>>, policy |-> <<>>]>>
      BY <2>4 DEF Start, FlagsInv
    <3>2. <<>> \in Paths /\ disk[<<>>] \in Infos
      BY PathsAreSequences DEF TypeOK
    <3>3. KindOf(config, disk, <<>>) \in Kinds
      BY <3>2 DEF KindOf, Kinds, Infos
    <3>4. todo' \in SUBSET Entries /\ spaces' \in Seq(Spaces)
      BY <3>1, <3>2, <3>3 DEF Entries, Spaces
    <3>5. Unparsed' = Unparsed
      BY <2>1 DEF Unparsed
    <3>6. QED
      BY <2>1, <3>1, <3>4, <3>5 DEF TypeOK
  <2>5. CASE VisitDirectory
    <3>1. /\ UNCHANGED <<config, spaces, routes>> /\ pc = "walk" /\ pc' = "walk"
          /\ todo' = Listing(Path) \cup (todo \ {Entry})
      BY <2>5 DEF VisitDirectory
    <3>2. ASSUME NEW e \in Listing(Path) PROVE e \in Entries
      <4>1. PICK p \in Paths : e = [path |-> p, kind |-> disk[p].kind] /\ Present(disk, p)
        BY DEF Listing
      <4>2. disk[p].kind \in Kinds \ {"absent"}
        BY <4>1 DEF TypeOK, Infos, Present
      <4>3. QED
        BY <4>1, <4>2 DEF Entries
    <3>3. todo' \in SUBSET Entries
      BY <3>1, <3>2 DEF TypeOK
    <3>4. Unparsed' = Unparsed /\ \A p, s : NoncedRoute(p, s)' = NoncedRoute(p, s)
      BY <2>1, <3>1 DEF Unparsed, NoncedRoute
    <3>5. QED
      BY <2>1, <3>1, <3>3, <3>4 DEF TypeOK
  <2>6. ASSUME NEW route, NEW path \in Paths, path = Path, AddRoute(route), pc # "flags",
               spaces' \in Seq(Spaces), Len(spaces') >= Len(spaces),
               \/ \E s \in DOMAIN spaces' : route = NoncedRoute(path, s)
               \/ route = StaticRoute(config, path, Name(path), before[path])
        PROVE  TypeOK'
    <3>1. /\ DOMAIN routes' = DOMAIN routes \cup {path} /\ routes'[path] = route
          /\ \A p \in DOMAIN routes \ {path} : routes'[p] = routes[p]
          /\ todo' \in SUBSET Entries /\ pc' = "walk" /\ config' = config
      BY <2>6, RouteAdded DEF TypeOK
    <3>2. Unparsed' = Unparsed /\ \A p, s : NoncedRoute(p, s)' = NoncedRoute(p, s)
      BY <2>1, <3>1 DEF Unparsed, NoncedRoute
    <3>3. DOMAIN spaces \subseteq DOMAIN spaces'
      BY <2>6 DEF TypeOK
    <3>4. ASSUME NEW p \in DOMAIN routes'
          PROVE  \/ \E s \in DOMAIN spaces' : routes'[p] = NoncedRoute(p, s)
                 \/ routes'[p] = StaticRoute(config, p, Name(p), before[p])
      <4>1. CASE p = path
        BY <2>6, <3>1, <4>1
      <4>2. CASE p # path
        <5>1. p \in DOMAIN routes /\ routes'[p] = routes[p]
          BY <3>1, <4>2
        <5>2. QED
          BY <3>3, <5>1 DEF TypeOK
      <4>3. QED
        BY <4>1, <4>2
    <3>5. DOMAIN routes' \subseteq Paths
      BY <3>1 DEF TypeOK
    <3>6. config' \in IF pc' = "flags" \/ Parse(flags') = {} THEN {Unparsed'} ELSE Parse(flags')
      BY <2>1, <2>6, <3>1, <3>2 DEF TypeOK
    <3>7. QED
      BY <2>1, <2>6, <3>1, <3>2, <3>4, <3>5, <3>6 DEF TypeOK
  <2>7. CASE BuildNonced
    <3>1. /\ pc = "walk" /\ todo # {} /\ AddRoute(NoncedRoute(Path, Len(spaces) + 1))
          /\ spaces' = Append(spaces, [content |-> Path,
                                policy |-> IF Page.redefines THEN Path ELSE spaces[1].policy])
      BY <2>7 DEF BuildNonced, ToNonce
    <3>2. Path \in Paths
      BY <3>1, EntryIsLeft
    <3>3. spaces \in Seq(Spaces) /\ spaces[1].policy = <<>> /\ <<>> \in Paths
      BY <3>1, PathsAreSequences DEF TypeOK, RoutesInv
    <3> DEFINE clone == [content |-> Path, policy |-> IF Page.redefines THEN Path ELSE spaces[1].policy]
    <3>4. clone \in Spaces
      BY <3>2, <3>3 DEF Spaces
    <3>5. spaces' = Append(spaces, clone)
      BY <3>1
    <3> HIDE DEF clone
    <3>6. spaces' \in Seq(Spaces) /\ Len(spaces') = Len(spaces) + 1 /\ Len(spaces) + 1 \in DOMAIN spaces'
          /\ Len(spaces') >= Len(spaces)
      BY <3>3, <3>4, <3>5
    <3>7. \E s \in DOMAIN spaces' : NoncedRoute(Path, Len(spaces) + 1) = NoncedRoute(Path, s)
      BY <3>6
    <3>8. QED
      BY <2>6, <3>1, <3>2, <3>6, <3>7
  <2>8. CASE BuildStatic
    <3>1. /\ pc # "flags" /\ todo # {} /\ spaces' = spaces
          /\ AddRoute(StaticRoute(config, Path, Name(Path), disk[Path]))
      BY <2>8 DEF BuildStatic, Static, TodoInv
    <3>2. Path \in Paths /\ spaces' \in Seq(Spaces) /\ Len(spaces') >= Len(spaces)
      BY <3>1, EntryIsLeft DEF TypeOK
    <3>3. StaticRoute(config, Path, Name(Path), disk[Path])
            = StaticRoute(config, Path, Name(Path), before[Path])
      BY <3>2, StaticRouteOf
    <3>4. QED
      BY <2>6, <3>1, <3>2, <3>3
  <2>9. CASE NotNonceable \/ WalkEnds
    BY <2>2, <2>9 DEF NotNonceable, WalkEnds, ToNonce
  <2>10. CASE ParseFails \/ StartFails \/ ReadDirFails \/ BuildNoncedFails \/ InfoFails
    <3>1. pc # "flags" \/ Parse(flags) = {}
      BY <2>10 DEF ParseFails, StartFails, ReadDirFails, BuildNoncedFails, InfoFails, ToNonce, Static
    <3>2. QED
      BY <2>2, <2>10, <3>1, FailAside
  <2>11. QED
    BY <1>3, <2>3, <2>4, <2>5, <2>7, <2>8, <2>9, <2>10 DEF Step, Walk
<1>4. QED
  BY <1>1, <1>2, <1>3 DEF Next

-----------------------------------------------------------------------------
(* The theorems *)

Inv == TypeOK /\ DiskInv /\ FlagsInv /\ TodoInv /\ RoutesInv /\ CoverInv

\* A server starts in a state that has all of it.
LEMMA Initially ==
  ASSUME Init
  PROVE  Inv
<1>1. disk \in [Paths -> Infos]
  BY TreesAssumption DEF Init
<1>2. TypeOK
  <2>1. DOMAIN routes = {} /\ spaces \in Seq(Spaces) /\ todo \in SUBSET Entries
    BY DEF Init
  <2>2. QED
    BY <1>1, <2>1 DEF Init, TypeOK
<1>3. DiskInv
  BY TreesAssumption DEF Init, DiskInv
<1>4. FlagsInv /\ TodoInv /\ RoutesInv /\ CoverInv
  BY DEF Init, FlagsInv, TodoInv, RoutesInv, CoverInv
<1>5. QED
  BY <1>2, <1>3, <1>4 DEF Inv

\* And every step keeps it.
LEMMA Invariance == Spec => []Inv
<1>1. Inv /\ [Next]_vars => Inv'
  BY TypeStep, DiskStep, FlagsStep, TodoStep, RoutesStep, CoverStep DEF Inv
<1>2. QED
  BY <1>1, Initially, PTL DEF Spec

\* The variables of BuildRoutes hold what they should: in particular each route
\* is of the flags and of what its file was when the server started.
THEOREM TypeCorrect == Spec => []TypeOK
BY Invariance, PTL DEF Inv

-----------------------------------------------------------------------------
(* The walk is RouteTable *)

\* An error has a reason that RouteTable knows.
LEMMA FailsForAReason ==
  ASSUME Inv, ParseFails \/ StartFails \/ ReadDirFails \/ BuildNoncedFails \/ InfoFails
  PROVE  T!Fail
<1>1. /\ pc' = "failed" /\ pc \notin {"done", "failed"}
      /\ UNCHANGED <<flags, before, disk, config, todo, spaces, routes>>
  BY FailAside DEF ParseFails, StartFails, ReadDirFails, BuildNoncedFails, InfoFails, ToNonce, Static
<1>2. flags \in Flags /\ T!Parse(flags) = Parse(flags)
  BY SameOperators DEF Inv, TypeOK
<1> DEFINE Reason ==
      \/ Parse(flags) = {}
      \/ flags.directory = ""
      \/ ~flags.policyParses
      \/ disk # before
      \/ KindOf(flags, before, <<>>) = "absent"
      \/ \E c \in Parse(flags), p \in T!Walked(flags, before) : T!Defective(c, before, p)
<1>3. ASSUME ParseFails PROVE Reason
  BY <1>3 DEF ParseFails
<1>4. ASSUME ~ParseFails PROVE Reason
  <2>1. config \in Parse(flags)
    BY <1>1, <1>4 DEF Inv, FlagsInv, ParseFails, StartFails, ReadDirFails, BuildNoncedFails,
                      InfoFails, ToNonce, Static
  <2>2. /\ config.directory = flags.directory
        /\ config.policyParses = flags.policyParses
        /\ T!Walked(config, before) = T!Walked(flags, before)
        /\ KindOf(config, before, <<>>) = KindOf(flags, before, <<>>)
    BY <1>2, <2>1, ParseKeeps
  <2>3. CASE StartFails
    BY <2>2, <2>3 DEF StartFails
  <2>4. SUFFICES ASSUME ~StartFails, disk = before PROVE Reason
    BY <2>3
  <2>5. /\ pc \in {"walk", "static"} /\ todo # {} /\ Entry \in todo /\ Path \in Paths
        /\ Path \in T!Walked(config, before) /\ Entry.kind = KindOf(config, before, Path)
    <3>1. pc \in {"walk", "static"} /\ todo # {}
      BY <1>4, <2>4 DEF ReadDirFails, BuildNoncedFails, InfoFails, ToNonce, Static, Inv, TodoInv
    <3>2. Entry \in todo /\ Path \in Paths
      BY <3>1, EntryIsLeft DEF Inv
    <3>3. QED
      BY <3>1, <3>2 DEF Inv, TodoInv, Path
  <2>6. DOMAIN before = Paths
    BY TreesAssumption DEF Inv, TypeOK
  <2>7. CASE ReadDirFails
    <3>1. KindOf(config, before, Path) = "dir" /\ ~(Present(before, Path) /\ before[Path].readable)
      BY <2>4, <2>5, <2>7 DEF ReadDirFails, Descends
    <3>2. Present(before, Path)
      BY <3>1 DEF KindOf, Present
    <3>3. T!Defective(config, before, Path)
      BY <3>1, <3>2, TableOperators
    <3>4. QED
      BY <2>1, <2>2, <2>5, <3>3
  <2>8. CASE BuildNoncedFails
    <3>1. /\ ~Descends(Entry) /\ MayBeNonced(config, Path)
          /\ ~CanBeRead(before[Path]) \/ (before[Path].page.token /\ ~before[Path].page.parses)
      BY <2>4, <2>8 DEF BuildNoncedFails, ToNonce, Page
    <3>2. Path \in T!Files(config, before)
      BY <2>5, <3>1, EntryIsFile DEF Inv
    <3>3. T!Defective(config, before, Path)
      BY <3>1, <3>2, TableOperators
    <3>4. QED
      BY <2>1, <2>2, <2>5, <3>3
  <2>9. CASE InfoFails
    <3>1. Path # <<>> /\ ~Present(before, Path)
      BY <2>4, <2>9 DEF InfoFails
    <3>2. Path \notin T!Walked(config, before)
      BY <3>1, TableOperators
    <3>3. QED
      BY <2>5, <3>2
  <2>10. QED
    BY <1>4, <2>4, <2>7, <2>8, <2>9
<1>5. Reason
  BY <1>3, <1>4
<1>6. T!KindOf(flags, before, <<>>) = KindOf(flags, before, <<>>)
  BY SameOperators
<1>7. QED
  BY <1>1, <1>2, <1>5, <1>6 DEF T!Fail, Ended

\* At the end of the walk the routes are the table that RouteTable asks for.
LEMMA EndsWithTheTable ==
  ASSUME Inv, WalkEnds
  PROVE  T!Build
<1>1. /\ pc = "walk" /\ todo = {} /\ pc' = "done"
      /\ UNCHANGED <<flags, before, disk, config, todo, spaces, routes>>
  BY DEF WalkEnds, inputVars
<1>2. flags \in Flags /\ config \in Parse(flags) /\ config \in T!Parse(flags)
  BY <1>1, SameOperators DEF Inv, TypeOK, FlagsInv
<1>3. /\ config.directory = flags.directory
      /\ config.policyParses = flags.policyParses
      /\ T!Files(config, before) = T!Files(flags, before)
      /\ T!Files(config, disk) = T!Files(flags, disk)
      /\ T!Walked(config, disk) = T!Walked(flags, disk)
  BY <1>2, ParseKeeps
<1>4. flags.directory # "" /\ flags.policyParses
  BY <1>1, <1>3 DEF Inv, FlagsInv
<1>5. \A p \in T!Walked(config, disk) : Settled(p)
  BY <1>1 DEF Inv, CoverInv
<1>6. \A p \in T!Walked(flags, disk) : ~T!Defective(config, disk, p)
  BY <1>3, <1>5 DEF Settled
<1>7. T!Files(flags, disk) \subseteq DOMAIN routes
  BY <1>3, <1>5, TableOperators DEF Settled
<1>8. DOMAIN routes \in SUBSET T!Files(flags, before)
  BY <1>1, <1>3 DEF Inv, RoutesInv
<1>9. ASSUME NEW p \in DOMAIN routes
      PROVE  Table[p] = T!RouteOf(config, before, p)
  <2>1. Right(p)
    BY <1>1 DEF Inv, RoutesInv
  <2>2. CASE MayBeNonced(config, p) /\ before[p].page.token
    <3>1. PICK s \in DOMAIN spaces : routes[p] = NoncedRoute(p, s) /\ spaces[s] = Clone(p)
      BY <2>1, <2>2 DEF Right
    <3>2. /\ routes[p].kind = "nonced" /\ routes[p].codings = EnabledCompressions(config)
          /\ routes[p].space = s
      BY <3>1 DEF NoncedRoute
    <3>3. /\ spaces[s].content = p
          /\ spaces[s].policy = IF before[p].page.redefines THEN p ELSE <<>>
      BY <3>1 DEF Clone
    <3>4. Table[p] = [kind |-> "nonced", path |-> p, codings |-> EnabledCompressions(config),
                      content |-> p, policy |-> IF before[p].page.redefines THEN p ELSE <<>>]
      BY <3>2, <3>3 DEF Table
    <3>5. QED
      BY <2>2, <3>4, TableOperators
  <2>3. CASE ~(MayBeNonced(config, p) /\ before[p].page.token)
    <3>1. routes[p] = StaticRoute(config, p, Name(p), before[p])
      BY <2>1, <2>3 DEF Right
    <3>2. routes[p].kind = "static"
      BY <3>1 DEF StaticRoute
    <3>3. QED
      BY <2>3, <3>1, <3>2, TableOperators DEF Table
  <2>4. QED
    BY <2>2, <2>3
<1>10. Table' = Table
  BY <1>1 DEF Table
<1>11. Table = [p \in DOMAIN routes |-> T!RouteOf(config, before, p)]
  BY <1>9 DEF Table
<1>12. QED
  BY <1>1, <1>2, <1>4, <1>6, <1>7, <1>8, <1>10, <1>11 DEF T!Build, Ended

\* Each step of BuildRoutes is one of RouteTable, or shows in none of its variables.
LEMMA TableStep ==
  ASSUME Inv, [Next]_vars
  PROVE  [T!TableNext]_(T!tableVars)
<1>1. CASE UNCHANGED vars
  <2>1. UNCHANGED <<flags, before, disk, pc, spaces, routes>>
    BY <1>1 DEF vars, inputVars
  <2>2. Table' = Table
    BY <2>1 DEF Table
  <2>3. QED
    BY <2>1, <2>2 DEF T!tableVars, Ended
<1>2. ASSUME NEW q \in Paths, Vanish(q) PROVE T!Vanish
  <2>1. /\ UNCHANGED <<flags, before, pc>> /\ ~Ended
        /\ disk' = [disk EXCEPT ![q] = Absent(disk[q])] /\ DOMAIN disk = Paths
    BY <1>2 DEF Vanish, inputVars, Inv, TypeOK
  <2>2. T!Absent(disk[q]) = Absent(disk[q])
    BY SameOperators
  <2>3. QED
    BY <2>1, <2>2 DEF T!Vanish, Ended
<1>3. CASE ParseFlags \/ Start \/ VisitDirectory \/ BuildNonced \/ NotNonceable \/ BuildStatic
  <2>1. UNCHANGED <<flags, before, disk>>
    BY <1>3, StepAside DEF Step, Walk
  <2>2. pc \notin {"done", "failed"} /\ pc' \notin {"done", "failed"}
    BY <1>3, RouteAdded DEF ParseFlags, Start, VisitDirectory, BuildNonced, NotNonceable,
                            BuildStatic, ToNonce, Static
  <2>3. QED
    BY <2>1, <2>2 DEF T!tableVars, Ended
<1>4. CASE WalkEnds
  BY <1>4, EndsWithTheTable DEF T!TableNext
<1>5. CASE ParseFails \/ StartFails \/ ReadDirFails \/ BuildNoncedFails \/ InfoFails
  BY <1>5, FailsForAReason DEF T!TableNext
<1>6. QED
  BY <1>1, <1>2, <1>3, <1>4, <1>5 DEF Next, Step, Walk, T!TableNext

\* BuildRoutes does what RouteTable promises, whatever the directory and the flags
\* are and whatever is removed in the meantime: it makes the table that they call
\* for, with nothing of it to be seen before, or fails for a reason.
THEOREM ImplementsRouteTable == Spec => IsRouteTable
<1>1. ASSUME Init PROVE T!TableInit
  BY <1>1 DEF Init, T!TableInit, Ended
<1>2. Inv /\ [Next]_vars => [T!TableNext]_(T!tableVars)
  BY TableStep
<1>3. QED
  BY <1>1, <1>2, Invariance, PTL DEF Spec, IsRouteTable, T!TableSpec

\* A size of the flags that is printed and read again is the same, rounded down to a
\* unit of what was printed; and comes out of String as it went into UnmarshalFlag
\* if it was written in its largest unit.
THEOREM SizesAreReadBack == Spec => []SizesReadBack
<1>1. ASSUME TypeOK PROVE SizesReadBack
  <2> SUFFICES ASSUME NEW text \in {flags.maxSize, flags.threshold}, NEW size \in Unmarshal(text)
               PROVE  /\ Magnitude(size) < Units[Len(SizePrefixes) + 1] =>
                           \E read \in Unmarshal(Marshal(size)) :
                             Magnitude(size) - Magnitude(read)
                               \in 0 .. Units[Divisions(size) + 1] - 1
                      /\ Magnitude(text.number) \in 1 .. Base - 1 => Marshal(size) = text
    BY Zenon DEF SizesReadBack
  <2>1. text \in [number : Int, suffix : STRING]
    BY <1>1, FlagsAssumption DEF TypeOK, Texts
  <2>2. size \in Int
    <3>1. PICK i \in 1 .. 5 : size = Wrap(text.number * Units[i])
      BY SuffixesDiffer DEF Unmarshal
    <3>2. Units[i] \in Nat /\ Word \in Nat /\ Word > 0 /\ text.number \in Int
      BY <2>1, UnitsGrow, WordAssumption
    <3>3. text.number * Units[i] \in Int
      BY <3>2
    <3>4. QED
      BY <3>1, <3>2, <3>3 DEF Wrap
  <2>3. Len(SizePrefixes) + 1 = 6
    BY SuffixesDiffer
  <2>4. QED
    BY <2>1, <2>2, <2>3, ReadsBack, PrintedAsWritten
<1>2. QED
  BY <1>1, TypeCorrect, PTL

=============================================================================
