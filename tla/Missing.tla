------------------------------- MODULE Missing -------------------------------
(***************************************************************************)
(* Python's None, which the read-only services share.                      *)
(***************************************************************************)
CONSTANT None
=============================================================================
