----------------------------- MODULE RouteTable -----------------------------
(***************************************************************************)
(* What BuildRoutes promises: in one step, a table with the right route for *)
(* every file of the directory, or an error that has a reason.  A file that *)
(* is removed in the meantime may be in the table or not, or be the reason. *)
(***************************************************************************)
EXTENDS RouteAttributes

VARIABLES
  flags,    \* the flags as they were given
  before,   \* the directory when the server started, a function of paths
  disk,     \* what is left of it
  status,   \* "building", "built" or "failed"
  table     \* the routes

tableVars == <<flags, before, disk, status, table>>

\* What the walk reaches: nothing below a link.
Walked(f, tree) ==
  IF f.directory = "link" THEN {<<>>} ELSE {p \in DOMAIN tree : Present(tree, p)}

\* WalkDir hands everything that is not a directory to buildRoute, links included.
Files(f, tree) == {p \in Walked(f, tree) : KindOf(f, tree, p) \in {"file", "link"}}

\* A page that defines the policy template itself has its own policy.
RouteOf(config, tree, p) ==
  IF MayBeNonced(config, p) /\ tree[p].page.token
  THEN [kind |-> "nonced", path |-> p, codings |-> EnabledCompressions(config),
        content |-> p, policy |-> IF tree[p].page.redefines THEN p ELSE <<>>]
  ELSE StaticRoute(config, p, Name(p), tree[p])

\* What can be wrong with an entry of the walk.
Defective(config, tree, p) ==
  \/ KindOf(config, tree, p) = "dir" /\ ~tree[p].readable
  \/ /\ p \in Files(config, tree)
     /\ MayBeNonced(config, p)
     /\ ~CanBeRead(tree[p]) \/ (tree[p].page.token /\ ~tree[p].page.parses)

TableInit ==
  /\ before = disk
  /\ status = "building"
  /\ table = [p \in {} |-> <<>>]

\* The directory must have a name: the empty one is of nothing.
Build ==
  /\ status = "building"
  /\ status' = "built"
  /\ flags.directory # ""
  /\ flags.policyParses
  /\ \E config \in Parse(flags), S \in SUBSET Files(flags, before) :
       /\ Files(flags, disk) \subseteq S
       /\ \A p \in Walked(flags, disk) : ~Defective(config, disk, p)
       /\ table' = [p \in S |-> RouteOf(config, before, p)]
  /\ UNCHANGED <<flags, before, disk>>

Fail ==
  /\ status = "building"
  /\ status' = "failed"
  /\ \/ Parse(flags) = {}
     \/ flags.directory = ""
     \/ ~flags.policyParses
     \/ disk # before
     \/ KindOf(flags, before, <<>>) = "absent"
     \/ \E config \in Parse(flags), p \in Walked(flags, before) : Defective(config, before, p)
  /\ UNCHANGED <<flags, before, disk, table>>

\* Something is removed.
Vanish ==
  /\ \E p \in DOMAIN disk : disk' = [disk EXCEPT ![p] = Absent(@)]
  /\ UNCHANGED <<flags, before, status, table>>

TableNext == Build \/ Fail \/ Vanish

\* That the table is right.  That it is made is WalkIsFinite of BuildRoutes.
TableSpec == TableInit /\ [][TableNext]_tableVars

=============================================================================
