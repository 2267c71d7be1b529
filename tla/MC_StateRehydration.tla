----------------------- MODULE MC_StateRehydration -----------------------
(* One random_uuid, one nomad_job and one daemon exec, two possible       *)
(* values, checksums and pids, over three applies of which one may crash: *)
(* enough for a value to be generated, kept, destroyed and generated      *)
(* again, for a job to be re-created after an edit and left alone without *)
(* one, and for an exec to be started again after a crash.                 *)
EXTENDS StateRehydration

MCMaxRuns == 3
MCMaxCrashes == 1
=============================================================================
