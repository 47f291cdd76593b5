---------------------------- MODULE MCMissionRun ----------------------------
(***************************************************************************)
(* One mission, on any of the three engines.                               *)
(***************************************************************************)
EXTENDS MissionRun

Engines == {"native", "byok", "managed"}
=============================================================================
