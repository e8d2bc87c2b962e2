----------------------------- MODULE MCLogging -----------------------------
(* A log rotated each minute, opened by main, and one rotated each hour.   *)
EXTENDS Logging, TLC

CONSTANTS access, audit

MCPaths == {access, audit}
MCRotateType == (access :> "minute") @@ (audit :> "hour")
============================================================================
