------------------------ MODULE MC_CommandExecutor ------------------------
(* Instantiates CommandExecutor with one process, one ambient entry and   *)
(* two config entries, so that Args and Env of a config can differ.        *)
EXTENDS CommandExecutor

MCProcPid == 7
MCEnvValues == {"a1", "e1"}
MCAmbient == {"path"}
=============================================================================
