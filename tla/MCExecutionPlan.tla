--------------------------- MODULE MCExecutionPlan ---------------------------
(***************************************************************************)
(* A plan with the shapes of the real ones: files to download and delete   *)
(* (6), the generator (23), a build and a pull (30), their checks (31),    *)
(* the pull of an image that is there already, two entries that share the  *)
(* abort function reloadAll (45, 51), a host configuration to revert (52), *)
(* a reload that can be skipped (63) and one entry that is misplaced,      *)
(* before the generator that adds it (20).                                 *)
(***************************************************************************)
EXTENDS ExecutionPlan

MCPriority ==
  [files |-> 6, misplaced |-> 20, generator |-> 23, build |-> 30, pull |-> 30,
   check |-> 31, pulled |-> 31,
   backout |-> 45, devices |-> 51, hostconfig |-> 52, reload |-> 63]

MCStep == DOMAIN MCPriority

MCUndoOf ==
  [s \in MCStep |->
     CASE s = "files" -> "delete_chute_files"
       [] s = "build" -> "remove_image"
       [] s = "pull" -> "remove_pulled"
       [] s \in {"backout", "devices"} -> "reloadAll"
       [] s = "hostconfig" -> "revertHostConfig"
       [] OTHER -> "none"]

MCFuncOf == [s \in MCStep |-> s]

MCCheckedBy == [build |-> "check", pull |-> "pulled"]
=============================================================================
