---------------------------- MODULE MCHostConfig ----------------------------
(***************************************************************************)
(* A configuration has a LAN and a WiFi setting: a client patches one of   *)
(* them, beside two chutes that build, the boot update and a factory reset *)
(* without a default configuration.                                        *)
(***************************************************************************)
EXTENDS HostConfig

CONSTANTS init, patch, chute, other, reset

MCConfig == [lan : {"auto", "static"}, wifi : {"off", "on"}]
MCGenerated == [lan |-> "auto", wifi |-> "off"]

MCResult ==
  [u \in Update |->
     [c \in MCConfig |->
        IF u = patch THEN [c EXCEPT !.wifi = "on"] ELSE c]]

MCStartFiles == {Nothing, [lan |-> "static", wifi |-> "off"]}

\* What can happen, two at a time.
MCEnvironments ==
  {{"builds", "errors"}, {"builds", "crash"}, {"errors", "crash"}, {"builds", "api"},
   {"api", "errors"}, {"disk", "crash"}}
=============================================================================
