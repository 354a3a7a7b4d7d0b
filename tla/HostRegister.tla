---------------------------- MODULE HostRegister ----------------------------
(***************************************************************************)
(* What the host configuration promises: a register.  An update that       *)
(* succeeds has changed it once, by what it asked for; one that fails or    *)
(* changes nothing leaves it alone.  A restart in the middle may lose the   *)
(* change, keep it, or lose the configuration, and a factory reset may      *)
(* regenerate it whether or not it succeeds in the end.                     *)
(***************************************************************************)
EXTENDS Naturals

CONSTANTS
  Config,      \* host configurations
  Generated,   \* the one of them generated from the devices
  Update,
  Result,      \* [Update -> [Config -> Config]]: what each makes of a configuration
  Regenerating \* the updates that may write the generated one

VARIABLES
  config,
  done,        \* updates that have succeeded
  restarts

register == <<config, done, restarts>>

Init ==
  /\ config \in Config
  /\ done = {}
  /\ restarts = 0

Succeed(u) ==
  /\ u \notin done
  /\ config' = Result[u][config]
  /\ done' = done \cup {u}
  /\ UNCHANGED restarts

Regenerate(u) ==
  /\ u \in Regenerating \ done
  /\ config' = Generated
  /\ UNCHANGED <<done, restarts>>

\* Boot updates are made anew.
Restart(again) ==
  /\ config' \in {config, Generated} \cup {Result[u][config] : u \in Update \ done}
  /\ done' = done \ again
  /\ restarts' = restarts + 1

Next ==
  \/ \E u \in Update : Succeed(u) \/ Regenerate(u)
  \/ \E again \in SUBSET Update : Restart(again)
=============================================================================
