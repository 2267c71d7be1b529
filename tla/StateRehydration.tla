------------------------- MODULE StateRehydration -------------------------
(***************************************************************************)
(* Computed outputs that survive across applies, and their removal by the  *)
(* down command.                                                           *)
(*                                                                         *)
(* The code: the Process hooks of RandomUUID (src/unnamed/part_000) and    *)
(* NomadJob (src/pkg/utils/dirhash/hash.go lines 195-212) copy the output  *)
(* fields (Value, JobChecksums) of a resource found in the loaded state    *)
(* into the in-memory resource.  A local daemon exec (exec/provider.go)   *)
(* records the pid Execute returned (lines 51-72) and Destroy kills it     *)
(* (lines 74-90).  The down command (src/unnamed/part_001)    *)
(* destroys the stack, removes the data folders and stops the connector.   *)
(*                                                                         *)
(* Their environment, outside src/ and modelled from spec 4.3-4.4 and 5:   *)
(* one apply parses the configuration (running every Process hook), walks  *)
(* the graph calling Create of each resource whose Changed reports true,   *)
(* and writes the state once at the end.  RandomUUID's Create generates a  *)
(* value; it changes only when it has no record.  NomadJob's Changed       *)
(* compares the checksum of its job files with JobChecksums, and Create    *)
(* records the new checksum.  An exec is created when it has no recorded  *)
(* pid.  The jumppad process itself may crash during an apply: what it     *)
(* held in memory is lost, the state file and the daemons it started are  *)
(* not.                                                                    *)
(***************************************************************************)
EXTENDS Naturals, FiniteSets

CONSTANTS
  UUIDs,     \* ids of random_uuid resources
  Jobs,      \* ids of nomad_job resources
  Execs,     \* ids of local exec resources with daemon = true
  Pids,      \* the pids the operating system can give a daemon
  Values,    \* the values a generated UUID can take
  Versions,  \* the checksums a job's files can have
  Empty,     \* an output field that is not set ("" or nil)
  Absent,    \* no record of the id in the state
  MaxRuns,   \* how many applies a behaviour makes
  MaxCrashes \* how many applies may crash

Resources == UUIDs \cup Jobs \cup Execs

ASSUME /\ UUIDs \cap Jobs = {} /\ Execs \cap (UUIDs \cup Jobs) = {}
       /\ MaxRuns \in Nat /\ MaxCrashes \in Nat

VARIABLES
  store,      \* the persisted state: the recorded output of each id
  mem,        \* the output field of each in-memory resource of this run
  files,      \* the current checksum of each job's files
  pc,         \* "idle", "process" (config parsing), "apply" (graph walk)
  todo,       \* resources still to process or to walk in this phase
  created,    \* resources whose Create ran in this apply
  runs,       \* applies started so far
  connector,  \* whether the connector (ingress daemon) runs
  data,       \* whether the data and library folders exist
  running,    \* pids of the daemon processes that run
  spawned,    \* pids given out so far (the model does not reuse a pid)
  crashes     \* applies that crashed so far

daemonVars == <<running, spawned, crashes>>
vars == <<store, mem, files, pc, todo, created, runs, connector, data,
          daemonVars>>

Outputs == Values \cup Versions \cup Pids

Init ==
  /\ store = [r \in Resources |-> Absent]
  /\ mem = [r \in Resources |-> Empty]
  /\ files \in [Jobs -> Versions]
  /\ pc = "idle"
  /\ todo = {}
  /\ created = {}
  /\ runs = 0
  /\ connector = FALSE
  /\ data = FALSE
  /\ running = {} /\ spawned = {} /\ crashes = 0

(***************************************************************************)
(* Apply.                                                                  *)
(***************************************************************************)

(* up: start the connector and create the data folders, then parse the    *)
(* configuration into resources whose output fields are not yet set.       *)
StartApply ==
  /\ pc = "idle"
  /\ runs < MaxRuns
  /\ pc' = "process"
  /\ todo' = Resources
  /\ mem' = [r \in Resources |-> Empty]
  /\ created' = {}
  /\ runs' = runs + 1
  /\ connector' = TRUE
  /\ data' = TRUE
  /\ UNCHANGED <<store, files, daemonVars>>

(* Seeded-bug variant of CopyFromState: the r != nil test of line 26 left *)
(* out, so a missing record is copied as if it were an output.            *)
CopyFromStateNoNilCheck(r) == mem' = [mem EXCEPT ![r] = store[r]]

(* LoadState, then FindResource(id): when the id has a record, its output  *)
(* field is copied into the in-memory resource.  A state that does not    *)
(* exist yet finds nothing, as does an id without a record.               *)
CopyFromState(r) ==
  mem' = IF store[r] # Absent THEN [mem EXCEPT ![r] = store[r]] ELSE mem

(* Seeded-bug variants of the hooks: the copy of the loaded output left   *)
(* out.                                                                    *)
ProcessRandomUUIDNoCopy(r) ==
  /\ pc = "process" /\ r \in todo \cap UUIDs
  /\ todo' = todo \ {r}
  /\ UNCHANGED <<store, mem, files, pc, created, runs, connector, data, daemonVars>>

ProcessNomadJobNoCopy(r) ==
  /\ pc = "process" /\ r \in todo \cap Jobs
  /\ todo' = todo \ {r}
  /\ UNCHANGED <<store, mem, files, pc, created, runs, connector, data, daemonVars>>

(* RandomUUID.Process (part_000 lines 19-33): c.Value = state.Value.       *)
ProcessRandomUUID(r) ==
  /\ pc = "process" /\ r \in todo \cap UUIDs
  /\ CopyFromState(r)
  /\ todo' = todo \ {r}
  /\ UNCHANGED <<store, files, pc, created, runs, connector, data, daemonVars>>

(* NomadJob.Process (hash.go lines 195-212): the paths are made absolute,  *)
(* which changes no modelled state, then n.JobChecksums =                  *)
(* kstate.JobChecksums.                                                    *)
ProcessNomadJob(r) ==
  /\ pc = "process" /\ r \in todo \cap Jobs
  /\ CopyFromState(r)
  /\ todo' = todo \ {r}
  /\ UNCHANGED <<store, files, pc, created, runs, connector, data, daemonVars>>

(* The engine walks the graph once every resource has been processed.      *)
WalkGraph ==
  /\ pc = "process" /\ todo = {}
  /\ pc' = "apply"
  /\ todo' = Resources
  /\ UNCHANGED <<store, mem, files, created, runs, connector, data, daemonVars>>

(* A random_uuid with no record is created and gets a fresh value; one    *)
(* with a record is unchanged and keeps the value in memory.               *)
ApplyRandomUUID(r) ==
  /\ pc = "apply" /\ r \in todo \cap UUIDs
  /\ IF store[r] = Absent
       THEN /\ \E v \in Values : mem' = [mem EXCEPT ![r] = v]
            /\ created' = created \cup {r}
       ELSE UNCHANGED <<mem, created>>
  /\ todo' = todo \ {r}
  /\ UNCHANGED <<store, files, pc, runs, connector, data, daemonVars>>

(* A nomad_job is created when it has no record or when the checksum of  *)
(* its files differs from its JobChecksums; Create records the checksum.  *)
ApplyNomadJob(r) ==
  /\ pc = "apply" /\ r \in todo \cap Jobs
  /\ IF store[r] = Absent \/ mem[r] # files[r]
       THEN /\ mem' = [mem EXCEPT ![r] = files[r]]
            /\ created' = created \cup {r}
       ELSE UNCHANGED <<mem, created>>
  /\ todo' = todo \ {r}
  /\ UNCHANGED <<store, files, pc, runs, connector, data, daemonVars>>

(* The state is written once, at the end of the run, from the in-memory   *)
(* resources.                                                              *)
Persist ==
  /\ pc = "apply" /\ todo = {}
  /\ store' = mem
  /\ pc' = "idle"
  /\ UNCHANGED <<mem, files, todo, created, runs, connector, data, daemonVars>>

(* Between applies the user edits the job files.                          *)
EditJobFiles(j, v) ==
  /\ pc = "idle"
  /\ files[j] # v
  /\ files' = [files EXCEPT ![j] = v]
  /\ UNCHANGED <<store, mem, pc, todo, created, runs, connector, data, daemonVars>>

(* An exec has no Process hook in src/; spec 4.4 says Process rehydrates  *)
(* the pid as it does the other outputs.                                   *)
ProcessExec(r) ==
  /\ pc = "process" /\ r \in todo \cap Execs
  /\ CopyFromState(r)
  /\ todo' = todo \ {r}
  /\ UNCHANGED <<store, files, pc, created, runs, connector, data, daemonVars>>

(* Provider.Changed (lines 101-105) of an exec reports no change, so the  *)
(* engine creates an exec again only when it has no recorded pid.          *)
ExecChanged(r) == FALSE

(* Provider.Refresh (lines 96-100), called for an exec that is not        *)
(* created again, only logs: a daemon that has exited is not noticed.     *)
Refresh == UNCHANGED <<mem, created, running, spawned>>

(* Create of a local daemon exec with no recorded pid (lines 51-72,        *)
(* 264-268): Execute starts the daemon and its pid becomes config.PID; or *)
(* the launch fails; or Execute returns an error although the daemon was  *)
(* started (the timer winning the race of command.go lines 110-114), and  *)
(* Create returns the error with PID still 0.                              *)
ApplyExec(r) ==
  /\ pc = "apply" /\ r \in todo \cap Execs
  /\ IF store[r] \in {Absent, Empty} \/ ExecChanged(r)
       THEN /\ created' = created \cup {r}
            /\ \/ \E p \in Pids \ spawned :
                    /\ running' = running \cup {p}
                    /\ spawned' = spawned \cup {p}
                    /\ mem' \in {[mem EXCEPT ![r] = p], mem}
               \/ UNCHANGED <<mem, running, spawned>>
       ELSE Refresh
  /\ todo' = todo \ {r}
  /\ UNCHANGED <<store, files, pc, runs, connector, data, crashes>>

(* A daemon exits on its own, or is killed by someone else, at any time.  *)
(* Its pid stays wherever it was recorded.                                 *)
DaemonExits ==
  /\ \E p \in running : running' = running \ {p}
  /\ UNCHANGED <<store, mem, files, pc, todo, created, runs, connector, data,
                 spawned, crashes>>

(* The jumppad process dies during an apply: the resources in memory are  *)
(* lost, the state file keeps what the last finished apply wrote, and the *)
(* daemons, started detached by gohup, keep running.                       *)
Crash ==
  /\ pc \in {"process", "apply"}
  /\ crashes < MaxCrashes
  /\ pc' = "idle"
  /\ todo' = {}
  /\ crashes' = crashes + 1
  /\ UNCHANGED <<store, mem, files, created, runs, connector, data,
                 running, spawned>>

(***************************************************************************)
(* down (part_001 lines 18-46).  An engine that cannot be created returns *)
(* at line 24 and changes nothing.  engine.Destroy destroys the resources *)
(* of the state best-effort: it may fail after removing some of them.     *)
(***************************************************************************)
Recorded == {r \in Resources : store[r] # Absent}

(* Provider.Destroy (exec/provider.go lines 74-90) of each destroyed exec: *)
(* a daemon with a pid of at least 1 is killed, its error only logged.     *)
DestroyExecs(gone) ==
  running' = running \ {store[e] : e \in {x \in gone \cap Execs : store[x] \in Pids}}

Down ==
  /\ pc = "idle"
  /\ \/ \* lines 27-32: Destroy fails after removing part of the stack
        /\ \E gone \in SUBSET Recorded :
             /\ gone # Recorded
             /\ store' = [r \in Resources |->
                            IF r \in gone THEN Absent ELSE store[r]]
             /\ DestroyExecs(gone)
        /\ UNCHANGED <<data, connector>>
     \/ \* lines 27-45: the stack is gone; the folders are removed and a
        \* running connector is stopped, whose error is only logged
        /\ store' = [r \in Resources |-> Absent]
        /\ DestroyExecs(Recorded)
        /\ data' = FALSE
        /\ connector' \in IF connector THEN {FALSE, TRUE} ELSE {FALSE}
  /\ UNCHANGED <<mem, files, pc, todo, created, runs, spawned, crashes>>

Next ==
  \/ StartApply \/ WalkGraph \/ Persist \/ Down \/ Crash \/ DaemonExits
  \/ \E r \in UUIDs : ProcessRandomUUID(r) \/ ApplyRandomUUID(r)
  \/ \E r \in Jobs : ProcessNomadJob(r) \/ ApplyNomadJob(r)
  \/ \E r \in Execs : ProcessExec(r) \/ ApplyExec(r)
  \/ \E j \in Jobs, v \in Versions : EditJobFiles(j, v)

Spec == Init /\ [][Next]_vars

-----------------------------------------------------------------------------

TypeOK ==
  /\ store \in [Resources -> Outputs \cup {Empty, Absent}]
  /\ mem \in [Resources -> Outputs \cup {Empty}]
  /\ files \in [Jobs -> Versions]
  /\ pc \in {"idle", "process", "apply"}
  /\ todo \subseteq Resources /\ created \subseteq Resources
  /\ runs \in 0..MaxRuns
  /\ connector \in BOOLEAN /\ data \in BOOLEAN
  /\ running \subseteq spawned /\ spawned \subseteq Pids
  /\ crashes \in 0..MaxCrashes

(* spec 4.3: a generated value, once recorded, is authoritative until the *)
(* resource is destroyed.  No apply replaces a recorded UUID by another   *)
(* value or by an empty one; only down removes it.  This rests on         *)
(* RandomUUID.Process copying state.Value (part_000 line 28) into a       *)
(* resource that the engine does not create again.                        *)
GeneratedValueStable ==
  [][\A r \in UUIDs :
       store[r] \in Values => store'[r] \in {store[r], Absent}]_vars

(* spec 4.4 and 4.3: an apply is idempotent for a job whose files have   *)
(* not changed: its Create runs again only when it has no record or the   *)
(* checksum of its files differs from the recorded one.  This rests on    *)
(* NomadJob.Process copying JobChecksums (hash.go line 207) before the    *)
(* engine consults Changed.                                                *)
JobRecreatedOnlyOnChange ==
  [][\A j \in Jobs :
       j \in created' \ created => store[j] = Absent \/ store[j] # files[j]]_vars

(* The daemons that run and that no down can reach: their pid is neither *)
(* recorded in the state nor held by an apply that is still going.        *)
Unreachable ==
  {p \in running :
     \A e \in Execs : store[e] # p /\ (pc = "idle" \/ mem[e] # p)}

(* spec 4.4 and 7: Destroy reverses Create's side effects, so every daemon *)
(* that runs must be reachable by a later down: its pid is recorded in    *)
(* the state, or held by the apply that started it and is about to write  *)
(* it.  Create keeps the pid only in p.config.PID, and only when Execute  *)
(* returned no error (provider.go lines 63-68, 264-268); the engine writes *)
(* it once, at the end of the apply (spec 5), so a crash before the write *)
(* or an error returned after the start loses it.                          *)
NoUntrackedDaemon == Unreachable = {}

=============================================================================
