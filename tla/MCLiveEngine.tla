---------------------------- MODULE MCLiveEngine ----------------------------
(* TLC instances of LiveEngine: Engine.cfg and EngineStaged.cfg.  The layers *)
(* are not symmetric in them, for Engine.cfg also checks liveness.           *)
EXTENDS LiveEngine, TLC

CONSTANTS core, narrow
=============================================================================
