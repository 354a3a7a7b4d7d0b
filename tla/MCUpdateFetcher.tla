--------------------------- MODULE MCUpdateFetcher ---------------------------
(***************************************************************************)
(* Two updates; the timer's pulls alone, or with pulls after notifications *)
(* in a second slot.                                                       *)
(***************************************************************************)
EXTENDS UpdateFetcher
=============================================================================
