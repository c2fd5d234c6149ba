------------------------- MODULE MCDocumentLifecycle -------------------------
(***************************************************************************)
(* DocumentLifecycle for TLC.  Every counter is bounded by a constant of   *)
(* the specification, so that the .cfg files only give the values.         *)
(***************************************************************************)
EXTENDS DocumentLifecycle
=============================================================================
