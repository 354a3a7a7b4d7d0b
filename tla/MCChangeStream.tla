--------------------------- MODULE MCChangeStream ---------------------------
(***************************************************************************)
(* Three clients follow an update with a message before its end.           *)
(***************************************************************************)
EXTENDS ChangeStream
=============================================================================
