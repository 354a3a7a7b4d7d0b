-------------------------- MODULE MCServerRequests --------------------------
(***************************************************************************)
(* One more request than there are tokens, one of them a state report that *)
(* is repeated; two identities.                                            *)
(***************************************************************************)
EXTENDS ServerRequests

MCEnvironments == {{"expire", "again"}, {"cut", "expire"}}
=============================================================================
