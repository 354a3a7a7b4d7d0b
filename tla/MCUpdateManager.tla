--------------------------- MODULE MCUpdateManager ---------------------------
(***************************************************************************)
(* Two client updates, one of which builds two services and the other one, *)
(* between the updates of the daemon's own.                                *)
(***************************************************************************)
EXTENDS UpdateLedger

MCUpdate == {"prehostconfig", "restart", "provision", "install", "change"}
MCBoot == <<"prehostconfig", "restart">>
MCBuilds ==
  [u \in MCUpdate |-> CASE u = "install" -> 2 [] u = "change" -> 1 [] OTHER -> 0]
=============================================================================
