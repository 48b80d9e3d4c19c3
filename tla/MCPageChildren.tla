--------------------------- MODULE MCPageChildren ---------------------------
(***************************************************************************)
(* Instances of PageChildren: every number of pages and folders up to a    *)
(* bound, with windows smaller and larger than either.                     *)
(***************************************************************************)
EXTENDS PageChildren

SomeLimits == 1..5
=============================================================================
