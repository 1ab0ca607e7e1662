-------------------------- MODULE MCLruRefinement --------------------------
(***************************************************************************)
(* LruRefinement for TLC, with the values of MCLruCache.                    *)
(***************************************************************************)
EXTENDS LruRefinement, MCLruCache

=============================================================================
