-------------------------- MODULE CommandExecutor --------------------------
(***************************************************************************)
(* One call of CommandImpl.Execute (src/pkg/clients/command.go) and the    *)
(* Kill operation on the pid it returns.                                   *)
(*                                                                         *)
(* Three actors run concurrently:                                          *)
(*   - the caller goroutine, blocked in the select of lines 110-117 on     *)
(*     the timer t and the unbuffered channel doneCh;                      *)
(*   - the monitor goroutine of lines 74-108, which starts the process,    *)
(*     polls it and sends on doneCh;                                       *)
(*   - the operating system process started by gohup, which may exit on    *)
(*     its own at any time or run forever.                                 *)
(* The variables pid, pidfile and err are the locals of Execute that the   *)
(* monitor goroutine writes (line 86) and the caller reads without         *)
(* synchronisation on timeout (lines 113-114).  The unsynchronised access  *)
(* is a data race; its outcomes are the two orders of the write and each   *)
(* read, which the interleaving of separate steps produces.                *)
(***************************************************************************)
EXTENDS Naturals, FiniteSets

CONSTANTS
  ProcPid,         \* the pid the operating system gives the started process
  PidFile,         \* the pid file gohup writes for it
  NoFile,          \* the empty string "" that pidfile holds before line 86
  Ambient,         \* os.Environ(), the executor's own environment
  EnvValues,       \* the entries a config may carry in Args or Env
  Nil,             \* a nil []string
  MaxCommandTime   \* c.timeout, the duration given to NewCommand

NoPid == 0

ASSUME /\ ProcPid \in Nat \ {NoPid}
       /\ MaxCommandTime \in Nat

(* A CommandConfig: Command, WorkingDirectory and LogFilePath only name    *)
(* files and are left out; Args and Env are sets of entries, Env may be nil.*)
Configs == [background : BOOLEAN,
            args       : SUBSET EnvValues,
            env        : (SUBSET EnvValues) \cup {Nil}]

(* The errors Execute can return.                                          *)
Errors == {"nil", "startErr", "statusErr", "timeout"}

(* A value sent on doneCh, and the pair Execute returns.                   *)
Done == [pid : {NoPid, ProcPid}, err : Errors]

VARIABLES
  cfg,       \* the CommandConfig of this call
  timer,     \* the channel t of time.After(c.timeout): "armed" or "fired"
  mpc,       \* the monitor goroutine's position
  cpc,       \* the caller's position: "select", "stopping" or "returned"
  started,   \* what lp.Start returned, before line 86 assigns it
  pid, pidfile, err,  \* the locals shared by both goroutines
  outbox,    \* the done value the monitor is blocked sending on doneCh
  result,    \* the (pid, error) pair Execute returned
  proc,      \* the OS process: "none", "running" or "stopped"
  procEnv,   \* the environment the process was started with
  killErr    \* what the last Kill returned: "none", "nil" or "err"

vars == <<cfg, timer, mpc, cpc, started, pid, pidfile, err, outbox, result,
          proc, procEnv, killErr>>

NoDone == [pid |-> NoPid, err |-> "none"]

(***************************************************************************)
(* Lines 47-72: build gohup.Options, arm the timer, declare the locals.    *)
(* Line 58 appends config.Args, not config.Env, when Env is non-nil.       *)
(***************************************************************************)
OptionsEnv(c) == IF c.env # Nil THEN Ambient \cup c.args ELSE Ambient

ExecInit(c) ==
  /\ cfg = c
  /\ timer = IF MaxCommandTime = 0 THEN "fired" ELSE "armed"
  /\ mpc = "start"
  /\ cpc = "select"
  /\ started = NoDone
  /\ pid = NoPid /\ pidfile = NoFile /\ err = "nil"
  /\ outbox = NoDone
  /\ result = NoDone
  /\ proc = "none"
  /\ procEnv = {}
  /\ killErr = "none"

Init == \E c \in Configs : ExecInit(c)

(* The timer channel becomes ready once c.timeout has elapsed.             *)
TimerFire ==
  /\ timer = "armed"
  /\ timer' = "fired"
  /\ UNCHANGED <<cfg, mpc, cpc, started, pid, pidfile, err, outbox, result,
                 proc, procEnv, killErr>>

(***************************************************************************)
(* Monitor goroutine.                                                      *)
(***************************************************************************)

(* lp.Start(o) either launches the process with o.Env and writes its pid   *)
(* file, or fails without launching anything.                              *)
LpStart ==
  /\ mpc = "start"
  /\ \/ /\ proc' = "running"
        /\ procEnv' = OptionsEnv(cfg)
        /\ started' = [pid |-> ProcPid, err |-> "nil"]
     \/ /\ started' = [pid |-> NoPid, err |-> "startErr"]
        /\ UNCHANGED <<proc, procEnv, killErr>>
  /\ mpc' = "assign"
  /\ UNCHANGED <<cfg, timer, cpc, pid, pidfile, err, outbox, result, killErr>>

(* Seeded-bug variants of Assign: the background test of line 92         *)
(* inverted, and the send of a start error (line 88) left out.             *)
AssignBackgroundInverted ==
  /\ mpc = "assign"
  /\ pid' = started.pid
  /\ pidfile' = IF started.err = "nil" THEN PidFile ELSE NoFile
  /\ err' = started.err
  /\ IF started.err # "nil"
       THEN /\ outbox' = [pid |-> NoPid, err |-> started.err]
            /\ mpc' = "sendStartErr"
       ELSE /\ outbox' = [pid |-> started.pid, err |-> "nil"]
            /\ mpc' = IF cfg.background THEN "poll" ELSE "sendFinal"
  /\ UNCHANGED <<cfg, timer, cpc, started, result, proc, procEnv, killErr>>

AssignNoStartErrSend ==
  /\ mpc = "assign"
  /\ pid' = started.pid
  /\ pidfile' = IF started.err = "nil" THEN PidFile ELSE NoFile
  /\ err' = started.err
  /\ outbox' = [pid |-> started.pid, err |-> started.err]
  /\ mpc' = IF cfg.background THEN "sendFinal" ELSE "poll"
  /\ UNCHANGED <<cfg, timer, cpc, started, result, proc, procEnv, killErr>>

(* Line 86 assigns the shared locals; lines 87-92 pick the next step.  A   *)
(* start error is sent but the goroutine does not return (line 88).        *)
Assign ==
  /\ mpc = "assign"
  /\ pid' = started.pid
  /\ pidfile' = IF started.err = "nil" THEN PidFile ELSE NoFile
  /\ err' = started.err
  /\ IF started.err # "nil"
       THEN /\ outbox' = [pid |-> NoPid, err |-> started.err]
            /\ mpc' = "sendStartErr"
       ELSE /\ outbox' = [pid |-> started.pid, err |-> "nil"]
            /\ mpc' = IF cfg.background THEN "sendFinal" ELSE "poll"
  /\ UNCHANGED <<cfg, timer, cpc, started, result, proc, procEnv, killErr>>

(* Where the goroutine continues after a send completes.                   *)
AfterSend(at) ==
  CASE at = "sendStartErr"  -> IF cfg.background THEN "sendFinal" ELSE "poll"
    [] at = "sendStatusErr" -> "poll"
    [] at = "sendFinal"     -> "exited"

(* Line 94: lp.QueryStatus(pidfile) fails; line 96 sends the error with    *)
(* the pid, and since the status is not stopped the loop goes on (103).    *)
(* A query of the empty pid file always fails; any other may fail.         *)
PollError ==
  /\ mpc = "poll"
  /\ outbox' = [pid |-> pid, err |-> "statusErr"]
  /\ mpc' = "sendStatusErr"
  /\ UNCHANGED <<cfg, timer, cpc, started, pid, pidfile, err, result, proc,
                 procEnv, killErr>>

(* Lines 99-100 and 107: the process reports stopped, the loop breaks and  *)
(* the goroutine sends the error of lp.Start (the err of line 86, not the  *)
(* shadowed one of line 94) with the pid.  A query that reports running   *)
(* sleeps and loops without changing any state: a stuttering step.         *)
PollStopped ==
  /\ mpc = "poll"
  /\ pidfile # NoFile
  /\ proc = "stopped"
  /\ outbox' = [pid |-> pid, err |-> err]
  /\ mpc' = "sendFinal"
  /\ UNCHANGED <<cfg, timer, cpc, started, pid, pidfile, err, result, proc,
                 procEnv, killErr>>

(***************************************************************************)
(* Caller: the select of lines 110-117.                                    *)
(***************************************************************************)

(* case d := <-doneCh: the unbuffered send and the receive happen in one   *)
(* step; Execute returns d.pid, d.err (line 116).                          *)
Receive ==
  /\ cpc = "select"
  /\ mpc \in {"sendStartErr", "sendStatusErr", "sendFinal"}
  /\ result' = outbox
  /\ cpc' = "returned"
  /\ mpc' = AfterSend(mpc)
  /\ UNCHANGED <<cfg, timer, started, pid, pidfile, err, outbox, proc,
                 procEnv, killErr>>

(* gohup Stop on a pid file: the empty name names no process.             *)
StopPidFile(f) ==
  proc' = IF f = PidFile /\ proc = "running" THEN "stopped" ELSE proc

(* Seeded-bug variant of TimeoutStop: the caller only honours the timer   *)
(* once the monitor goroutine has finished, as if it received on doneCh    *)
(* before looking at t.                                                    *)
TimeoutStopAfterDone ==
  /\ cpc = "select"
  /\ timer = "fired"
  /\ mpc = "exited"
  /\ StopPidFile(pidfile)
  /\ cpc' = "stopping"
  /\ UNCHANGED <<cfg, timer, mpc, started, pid, pidfile, err, outbox, result,
                 procEnv, killErr>>

(* case <-t: line 113 stops whatever pidfile holds at this moment.         *)
TimeoutStop ==
  /\ cpc = "select"
  /\ timer = "fired"
  /\ StopPidFile(pidfile)
  /\ cpc' = "stopping"
  /\ UNCHANGED <<cfg, timer, mpc, started, pid, pidfile, err, outbox, result,
                 procEnv, killErr>>

(* Seeded-bug variant of TimeoutReturn: it returns what lp.Stop returned  *)
(* instead of ErrorCommandTimeout, as `return pid, lp.Stop(pidfile)` would. *)
TimeoutReturnStopErr ==
  /\ cpc = "stopping"
  /\ result' = [pid |-> pid, err |-> "stopErr"]
  /\ cpc' = "returned"
  /\ UNCHANGED <<cfg, timer, mpc, started, pid, pidfile, err, outbox, proc,
                 procEnv, killErr>>

(* Line 114 reads pid, possibly written since line 113 read pidfile.       *)
TimeoutReturn ==
  /\ cpc = "stopping"
  /\ result' = [pid |-> pid, err |-> "timeout"]
  /\ cpc' = "returned"
  /\ UNCHANGED <<cfg, timer, mpc, started, pid, pidfile, err, outbox, proc,
                 procEnv, killErr>>

(***************************************************************************)
(* Environment: the process exits by itself, or Kill(pid) is called.       *)
(***************************************************************************)
ProcExit ==
  /\ proc = "running"
  /\ proc' = "stopped"
  /\ UNCHANGED <<cfg, timer, mpc, cpc, started, pid, pidfile, err, outbox,
                 result, procEnv, killErr>>

(* Lines 121-125: stop the process whose pid file is <TempDir>/<p>.pid.    *)
(* Only the started process has a pid file; Stop of a missing pid file     *)
(* fails, and Stop of a process that has already exited may fail.          *)
PidFileOf(p) == IF p = ProcPid /\ proc # "none" THEN PidFile ELSE NoFile

Kill(p) ==
  /\ StopPidFile(PidFileOf(p))
  /\ killErr' \in CASE PidFileOf(p) = NoFile -> {"err"}
                   [] proc = "running"      -> {"nil"}
                   [] OTHER                 -> {"nil", "err"}
  /\ UNCHANGED <<cfg, timer, mpc, cpc, started, pid, pidfile, err, outbox,
                 result, procEnv>>

Next ==
  \/ TimerFire
  \/ LpStart \/ Assign \/ PollError \/ PollStopped
  \/ Receive \/ TimeoutStop \/ TimeoutReturn
  \/ ProcExit
  \/ \E p \in {NoPid, ProcPid} : Kill(p)

(* The Go scheduler runs both goroutines and the runtime fires the timer:  *)
(* their steps are weakly fair.  The process, a failing status query and   *)
(* Kill are the environment's choice and get no fairness.                  *)
Fairness ==
  /\ WF_vars(TimerFire)
  /\ WF_vars(LpStart) /\ WF_vars(Assign) /\ WF_vars(PollStopped)
  /\ WF_vars(Receive) /\ WF_vars(TimeoutStop) /\ WF_vars(TimeoutReturn)

Spec == Init /\ [][Next]_vars /\ Fairness

-----------------------------------------------------------------------------

TypeOK ==
  /\ cfg \in Configs
  /\ timer \in {"armed", "fired"}
  /\ mpc \in {"start", "assign", "sendStartErr", "poll", "sendStatusErr",
              "sendFinal", "exited"}
  /\ cpc \in {"select", "stopping", "returned"}
  /\ started \in Done \cup {NoDone}
  /\ pid \in {NoPid, ProcPid}
  /\ pidfile \in {NoFile, PidFile}
  /\ err \in Errors
  /\ outbox \in Done \cup {NoDone}
  /\ result \in Done \cup {NoDone}
  /\ proc \in {"none", "running", "stopped"}
  /\ procEnv \in SUBSET (Ambient \cup EnvValues)
  /\ killErr \in {"none", "nil", "err"}

Returned == cpc = "returned"

(* A nil error from Execute means the command has run: the pid returned is *)
(* the started process's, and a foreground command has already stopped.    *)
(* This rests on line 107 sending the err of lp.Start and not the err of   *)
(* the failed status query, and on the loop only breaking on stopped.      *)
SuccessMeansCompleted ==
  Returned /\ result.err = "nil" =>
    /\ result.pid = ProcPid
    /\ proc # "none"
    /\ ~cfg.background => proc = "stopped"

(* spec 4.1 and 7: a launch failure is reported as such, with no pid and  *)
(* no process, and a failed status query is reported with the pid of the  *)
(* started process.  This depends on the order of the sends of lines 88,  *)
(* 96 and 107 on doneCh and on which of them the select receives.         *)
ErrorsCarryBestKnownPid ==
  /\ Returned /\ result.err = "startErr" => result.pid = NoPid /\ proc = "none"
  /\ Returned /\ result.err = "statusErr" => result.pid = ProcPid

(* Every call of Execute returns: the timer bounds a process that hangs.   *)
ExecuteTerminates == <>Returned

(* spec 4.1: on timeout Execute returns the last known pid, non-zero if   *)
(* the process had started, so that a process still running after Execute *)
(* returned can always be stopped by Kill of the pid it returned.  Lines   *)
(* 113-114 read pidfile and pid while line 86 may be writing them.         *)
NoUnreachableProcess ==
  Returned /\ proc = "running" => PidFileOf(result.pid) # NoFile

(* spec 5: the monitoring task never outlives Execute.  Every send on the  *)
(* unbuffered doneCh after the caller has returned (lines 88, 96, 107)     *)
(* blocks the goroutine for ever.                                          *)
MonitorExits == <>(mpc = "exited")

(* spec 4.1: the config's environment entries are merged with the ambient *)
(* environment.  Line 58 appends config.Args instead.                      *)
EnvIncludesConfigEnv ==
  proc # "none" /\ cfg.env # Nil => cfg.env \subseteq procEnv

(* spec 4.1 and the daemon warning of exec/provider.go:250: a command run *)
(* in the background is not subject to the timeout.  The select of lines  *)
(* 110-117 races the timer against the start of a background command too. *)
TimeoutIgnoredInBackground ==
  Returned /\ cfg.background => result.err # "timeout"

=============================================================================
