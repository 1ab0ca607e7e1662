----------------------------- MODULE MCStartup -----------------------------
(***************************************************************************)
(* Startup for TLC: three routes of different sizes, one of which (a nonced *)
(* one) caches nothing, on a terminal too low for them or with room below.  *)
(***************************************************************************)
EXTENDS Startup

MCSize == [i \in 1 .. N |-> i - 1]

=============================================================================
