-------------------------------- MODULE Sums --------------------------------
(***************************************************************************)
(* The sum that a counter of the system is compared with: c.size of a cache *)
(* is that of the capacities it holds, totalSize of the report that of what *)
(* its routes have cached.                                                  *)
(***************************************************************************)
EXTENDS Integers, Functions

\* The sum of f[x] for the elements x of S.
SumOver(f, S) == FoldFunctionOnSet(+, 0, f, S)

=============================================================================
