---------------------------- MODULE MCStdinBridge ---------------------------
(* The instances of StdinBridge that TLC checks are given by the constants   *)
(* of MCStdinBridge.cfg and MCStdinBridgeReuse.cfg.                          *)
EXTENDS StdinBridge

=============================================================================
