---------------------------- MODULE ExecProvider ----------------------------
(***************************************************************************)
(* The exec resource provider (src/pkg/config/resources/exec/provider.go): *)
(* Create and Destroy of one exec resource, composed with the command      *)
(* executor of CommandExecutor that runs a local script.                   *)
(*                                                                         *)
(* A local exec writes its script, parses its timeout and calls            *)
(* Command.Execute; the pid it gets back is recorded in config.PID, which  *)
(* Destroy later passes to Command.Kill for a daemon.  A remote exec runs  *)
(* its script in an existing target container, or in a container it        *)
(* creates from an image and removes afterwards.                           *)
(*                                                                         *)
(* Logging, Lookup, Refresh and Changed change no state and are left out.  *)
(***************************************************************************)
EXTENDS Naturals

CONSTANTS ProcPid, PidFile, NoFile, Ambient, EnvValues, Nil, MaxCommandTime

VARIABLES
  cfg, timer, mpc, cpc, started, pid, pidfile, err, outbox, result,
  proc, procEnv, killErr,   \* the executor of CommandExecutor
  res,        \* the Exec resource: daemon, target kind, timeout, environment
  ppc,        \* where Create or Destroy is
  PID,        \* p.config.PID
  container,  \* the container created for an image exec
  executed    \* whether Create has called Command.Execute

Ex == INSTANCE CommandExecutor

execVars == <<cfg, timer, mpc, cpc, started, pid, pidfile, err, outbox, result,
              proc, procEnv, killErr>>
provVars == <<res, ppc, PID, container, executed>>
vars == <<execVars, provVars>>

(* The Exec resource.  target is "local" when neither Image nor Target is   *)
(* set; timeout is the Timeout string: empty, a valid or an invalid        *)
(* duration; env is the Environment map as its "k=v" entries.             *)
ExecConfigs == [daemon  : BOOLEAN,
                target  : {"local", "image", "target"},
                timeout : {"", "valid", "invalid"},
                env     : SUBSET EnvValues]

(* Lines 231-262: the CommandConfig of a local exec.  envs is a non-nil   *)
(* slice even when empty; Args is not set and so nil.                      *)
CommandConfigOf(r) == [background |-> r.daemon, args |-> {}, env |-> r.env]

(* The provider's positions.  The executor only moves once Create has     *)
(* called Execute.                                                         *)
Positions == {"init", "executing", "remoteExec", "created", "failed",
              "destroyed"}

Init ==
  /\ res \in ExecConfigs
  /\ Ex!ExecInit(CommandConfigOf(res))
  /\ ppc = "init"
  /\ PID = Ex!NoPid
  /\ container = "none"
  /\ executed = FALSE

(***************************************************************************)
(* Create of a local exec (lines 51-72, 216-270).                          *)
(***************************************************************************)

(* Lines 219-262: write the script file, which may fail, then parse a     *)
(* non-empty timeout, which fails for an invalid duration.                 *)
PrepareLocalExec ==
  /\ ppc = "init"
  /\ res.target = "local"
  /\ \/ /\ ppc' = "failed"
        /\ UNCHANGED executed
     \/ /\ res.timeout # "invalid"
        /\ ppc' = "executing"
        /\ executed' = TRUE
  /\ UNCHANGED <<execVars, res, PID, container>>

(* A step A of Command.Execute, once Create has called it in line 264.    *)
(* The process and the monitor goroutine go on after Execute returned.     *)
ExecuteStep(A) ==
  /\ executed
  /\ A
  /\ UNCHANGED provVars

(* Seeded-bug variant of ExecuteReturned: the error of Execute ignored    *)
(* (pid, _ := Execute(cc)).                                                *)
ExecuteReturnedIgnoringErr ==
  /\ ppc = "executing"
  /\ cpc = "returned"
  /\ PID' = result.pid
  /\ ppc' = "created"
  /\ UNCHANGED <<execVars, res, container, executed>>

(* Lines 264-268 and 63-68: any error from Execute fails Create and drops  *)
(* the pid; on success the pid becomes config.PID.                         *)
ExecuteReturned ==
  /\ ppc = "executing"
  /\ cpc = "returned"
  /\ IF result.err = "nil"
       THEN /\ PID' = result.pid
            /\ ppc' = "created"
       ELSE /\ ppc' = "failed"
            /\ UNCHANGED PID
  /\ UNCHANGED <<execVars, res, container, executed>>

(***************************************************************************)
(* Create of a remote exec (lines 108-214).                                *)
(***************************************************************************)

(* Lines 110-118, 165-214: pull the image and create a container running  *)
(* tail -f /dev/null; either call may fail.                                *)
CreateRemoteExecContainer ==
  /\ ppc = "init"
  /\ res.target = "image"
  /\ \/ /\ ppc' = "failed"
        /\ UNCHANGED container
     \/ /\ container' = "created"
        /\ ppc' = "remoteExec"
  /\ UNCHANGED <<execVars, res, PID, executed>>

(* Lines 119-130: find the target container; an error or a number of ids  *)
(* other than one fails Create.                                            *)
FindTarget ==
  /\ ppc = "init"
  /\ res.target = "target"
  /\ ppc' \in {"failed", "remoteExec"}
  /\ UNCHANGED <<execVars, res, PID, container, executed>>

(* Seeded-bug variant of ExecuteScript: RemoveContainer(targetID, false)  *)
(* only stops the container it created.                                    *)
ExecuteScriptNoForce ==
  /\ ppc = "remoteExec"
  /\ \/ /\ ppc' = "failed"
        /\ UNCHANGED container
     \/ /\ ppc' = "created"
        /\ container' \in IF res.target = "image"
                            THEN {"stopped", container}
                            ELSE {container}
  /\ UNCHANGED <<execVars, res, PID, executed>>

(* Lines 150-160: run the script; an error returns at once (153), else a  *)
(* created container is removed, the error of RemoveContainer ignored.     *)
ExecuteScript ==
  /\ ppc = "remoteExec"
  /\ \/ /\ ppc' = "failed"
        /\ UNCHANGED container
     \/ /\ ppc' = "created"
        /\ container' \in IF res.target = "image"
                            THEN {"removed", container}
                            ELSE {container}
  /\ UNCHANGED <<execVars, res, PID, executed>>

(***************************************************************************)
(* Destroy (lines 74-90): only a local daemon is stopped, by Kill of its  *)
(* recorded pid; a pid below 1 is a warning.  Destroy never fails.         *)
(***************************************************************************)
Destroy ==
  /\ ppc \in {"created", "failed"}
  /\ IF res.daemon /\ res.target = "local" /\ PID >= 1
       THEN Ex!Kill(PID)
       ELSE UNCHANGED execVars
  /\ ppc' = "destroyed"
  /\ UNCHANGED <<res, PID, container, executed>>

Next ==
  \/ PrepareLocalExec \/ ExecuteReturned
  \/ ExecuteStep(Ex!TimerFire) \/ ExecuteStep(Ex!LpStart)
  \/ ExecuteStep(Ex!Assign) \/ ExecuteStep(Ex!PollError)
  \/ ExecuteStep(Ex!PollStopped) \/ ExecuteStep(Ex!Receive)
  \/ ExecuteStep(Ex!TimeoutStop) \/ ExecuteStep(Ex!TimeoutReturn)
  \/ ExecuteStep(Ex!ProcExit)
  \/ CreateRemoteExecContainer \/ FindTarget \/ ExecuteScript
  \/ Destroy

Spec == Init /\ [][Next]_vars

-----------------------------------------------------------------------------

TypeOK ==
  /\ Ex!TypeOK
  /\ res \in ExecConfigs
  /\ ppc \in Positions
  /\ PID \in {Ex!NoPid, ProcPid}
  /\ container \in {"none", "created", "removed"}
  /\ executed \in BOOLEAN

Local == res.target = "local"

(* A created local daemon can be stopped: config.PID names the started   *)
(* process, so Destroy's Kill(PID) reaches it.  This needs Create to keep *)
(* the pid only when Execute returned no error (lines 264-268, 63-68) and *)
(* Execute to return a nil error only after the start was assigned.       *)
CreatedDaemonKillable ==
  ppc = "created" /\ Local /\ res.daemon =>
    Ex!PidFileOf(PID) # NoFile

(* A created local exec that is not a daemon has run to completion, so    *)
(* Destroy, which ignores it (line 77), leaves nothing behind.             *)
CreatedForegroundFinished ==
  ppc \in {"created", "destroyed"} /\ Local /\ ~res.daemon /\ PID # Ex!NoPid =>
    proc = "stopped"

(* spec 4.4: Destroy reverses Create's side effects.  The container Create *)
(* made for an image exec is gone once Create has returned: line 153      *)
(* returns before the removal of line 159, whose error is also ignored.   *)
NoLeakedExecContainer ==
  ppc \in {"created", "failed", "destroyed"} => container # "created"

=============================================================================
