------------------------------- MODULE MCProxy -------------------------------
(***************************************************************************)
(* Proxy for TLC: its sets are given in the .cfg files.                    *)
(***************************************************************************)
EXTENDS Proxy
=============================================================================
