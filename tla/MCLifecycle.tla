---------------------------- MODULE MCLifecycle -----------------------------
(***************************************************************************)
(* Two process ids with two handlers each: one instance and the one that   *)
(* replaces it or runs beside it.                                          *)
(***************************************************************************)
EXTENDS Lifecycle
=============================================================================
