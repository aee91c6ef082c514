--------------------------- MODULE MCProcessEngine ---------------------------
(***************************************************************************)
(* ProcessEngine for TLC: two workers and two assets, without symmetry,    *)
(* since the run checks liveness too.                                      *)
(***************************************************************************)
EXTENDS ProcessEngine
=============================================================================
