---------------------------- MODULE MCProbeWatch ----------------------------
(***************************************************************************)
(* ProbeWatch with the constants of MCAttemptEngine.                       *)
(***************************************************************************)
EXTENDS MCAttemptEngine, ProbeWatch
=============================================================================
