----------------------------- MODULE MCSurfaces -----------------------------
(***************************************************************************)
(* An instance of Surfaces: every registered tool on both surfaces, with   *)
(* batches and walks of up to three requests.                              *)
(***************************************************************************)
EXTENDS Surfaces
=============================================================================
