------------------------- MODULE MC_ExecProvider -------------------------
(* Instantiates ExecProvider with one process pid and one environment      *)
(* entry, enough for an exec with and without an Environment map.          *)
EXTENDS ExecProvider

MCProcPid == 7
MCEnvValues == {"e1"}
MCAmbient == {"path"}
=============================================================================
