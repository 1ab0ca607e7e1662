--------------------------- MODULE MCBuildRoutes ---------------------------
(***************************************************************************)
(* BuildRoutes for TLC: a directory with two pages that may be nonced, a    *)
(* subdirectory, a source map, and a link back to the directory itself; and *)
(* each flag or file that matters set apart from the default.               *)
(***************************************************************************)
EXTENDS BuildRoutes

About == <<<<"about", "html">>>>
Assets == <<<<"assets">>>>
Logo == Assets \o <<<<"logo", "v2", "svg">>>>
IndexPage == <<<<"index", "html">>>>
SourceMap == <<<<"main", "d9", "js", "map">>>>
Link == <<<<"previous">>>>

MCOrder == <<About, Assets, Logo, IndexPage, SourceMap, Link>>
MCHashes == {"v2", "d9"}
MCRootName == <<"current">>

Plain == [token |-> FALSE, parses |-> TRUE, redefines |-> FALSE]
Nonceable == [Plain EXCEPT !.token = TRUE]

Info(kind, size, page) ==
  [kind |-> kind, size |-> size, page |-> page, readable |-> TRUE, modtime |-> size]

Bundle ==
  [p \in {<<>>} \cup ToSet(MCOrder) |->
     CASE p \in {<<>>, Assets} -> Info("dir", 0, Plain)
       [] p \in {About, IndexPage} -> Info("file", 3, Nonceable)
       [] p = Link -> Info("link", 1, Plain)
       [] OTHER -> Info("file", IF p = Logo THEN 4 ELSE 5, Plain)]

MCTrees ==
  {Bundle,
   [p \in DOMAIN Bundle |-> Info("absent", 0, Plain)],
   [Bundle EXCEPT ![About].page = Plain],
   [Bundle EXCEPT ![About].page.redefines = TRUE],
   [Bundle EXCEPT ![IndexPage].page.parses = FALSE],
   [Bundle EXCEPT ![IndexPage].readable = FALSE],
   [Bundle EXCEPT ![Assets].readable = FALSE]}

Text(number, suffix) == [number |-> number, suffix |-> suffix]

Default ==
  [directory |-> "path", policyParses |-> TRUE, maxSize |-> Text(3, "M"),
   threshold |-> Text(1, "k"), maxAge |-> 0, rootInLRU |-> FALSE, noncing |-> TRUE,
   nonced |-> {IndexPage, About}, disabled |-> {},
   eligible |-> {<<"js", "map">>, <<"svg">>, <<"html">>}]

MCFlags ==
  {Default,
   [Default EXCEPT !.directory = "", !.rootInLRU = TRUE],
   [Default EXCEPT !.directory = "link"],
   [Default EXCEPT !.directory = "link", !.nonced = {<<>>}],
   [Default EXCEPT !.policyParses = FALSE],
   [Default EXCEPT !.maxAge = 2 * Second, !.disabled = {"br"}, !.nonced = {IndexPage}],
   [Default EXCEPT !.noncing = FALSE, !.rootInLRU = TRUE, !.maxSize = Text(-1, "")]}
  \cup {[Default EXCEPT !.maxSize = m, !.threshold = Text(5, "")] :
           m \in {Text(9, "T"), Text(7, "G"), Text(Word, ""), Text(1, "x")}}

=============================================================================
