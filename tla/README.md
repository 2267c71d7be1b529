# TLA+ models of jumppad's resource lifecycle core

This directory holds TLA+ models of the parts of jumppad that are in `src/`.
Those parts are the local command executor, the exec resource provider, the
directory hasher and the state rehydration hooks. It also holds the TLC
configurations that check them. Every action is translated from the Go source.
`PROJECT.json` maps each definition to the lines it models and lists the runs,
the seeded-bug mutants, the findings and the hazards.

## 1. Inventory

### Components

| Component | Source | State it keeps | Operations |
|---|---|---|---|
| Process Executor | `src/pkg/clients/command.go` | per `Execute` call: the locals `pid`, `pidfile`, `err` shared by two goroutines, the unbuffered channel `doneCh`, the timer `t`; the OS process and its pid file | `NewCommand`, `Execute`, `Kill` |
| Exec provider | `src/pkg/config/resources/exec/provider.go` | the `Exec` resource (daemon flag, image/target, timeout string, environment, `PID`), the container it creates | `Init`, `Create` (local or remote), `Destroy`, `Lookup`, `Refresh`, `Changed` |
| Content Hasher | `src/pkg/utils/dirhash/hash.go` lines 1-167 | none (pure functions) | `Hash1`, `HashDir`, `DirFiles`, `HashZip` |
| State rehydration hooks | `hash.go` lines 168-212 (`NomadJob.Process`), `src/unnamed/part_000` (`RandomUUID.Process`) | the resource's computed outputs (`JobChecksums`, `Value`) copied from the loaded state | `Process` |
| down command | `src/unnamed/part_001` | none of its own | `newDestroyCmd().Run`: engine `Destroy`, remove data folders, stop the connector |
| Fixtures | `src/examples/nomad/test/nomad_cluster.feature` (plus a hello-world HTTP `main` appended at lines 30-43), `resource_test.go` | none | none |

Outside `src/` and only seen at their boundary: the engine, the state store
(`LoadState`, `FindResource`), the container client, and gohup's `LocalProcess`.

### How the components interact

* The engine calls a provider's `Create` or `Destroy`. The exec provider's
  local `Create` calls `Command.Execute` synchronously and stores the returned
  pid in `config.PID`. `Destroy` passes that pid to `Command.Kill`.
* Inside `Execute`, the caller goroutine blocks in a `select` on the timer and
  on `doneCh`. A monitor goroutine starts the process with gohup, polls its
  status every 200 ms and sends on `doneCh`. The two goroutines share
  `pid`/`pidfile`/`err` without synchronisation.
* A remote `Create` calls the container client: find the target, or pull an
  image and create a container; then run the script; then remove the
  container it created.
* The `Process` hooks read the state store once and copy outputs into the
  in-memory resource, before the engine decides what to create.

### What is hard

* **Concurrency inside `Execute`.** The timer, the monitor goroutine and the
  process race. The channel is unbuffered, so a send after the caller returned
  blocks for ever. The shared locals are read and written with no lock.
* **Failure paths.** A start error, a failing status query, a script error and
  a removal error each leave a different partial state behind: a running
  process, a goroutine, a container.
* **Timeout semantics.** Zero timeouts, background commands, and a timeout
  racing a late completion.
* **Ordering.** The digest must not depend on the order in which files are
  listed. Ignoring a directory must drop exactly its subtree.

### What makes each component correct

* Executor: a nil error means the command ran. Errors carry the best pid
  known. `Execute` always returns. No process is left running without a pid
  that reaches it. The goroutine does not outlive the call. The config's
  environment reaches the process. Background commands and a zero timeout are
  not timed out.
* Provider: a created daemon can be killed by its recorded pid. A created
  foreground exec has finished. `Create` returns. `Destroy` leaves no process
  and no container behind.
* Hasher: the digest is the same for every order of the file list, and
  differs when a file's content or name differs. A tree and a zip with the
  same files hash alike. `DirFiles` returns exactly the files outside the
  ignored patterns and directories. A file name with a newline is refused.
* Rehydration: once a value has been generated and persisted, it stays stable
  across applies.

## 2. Plan

Modules in order of importance (✔ = built):

1. ✔ `CommandExecutor`: one `Execute` call and `Kill`. It is the only real
   concurrency in the code. `MC_CommandExecutor` instantiates it.
2. ✔ `ExecProvider`: `Create`/`Destroy` of one exec resource. It composes
   `CommandExecutor` through `INSTANCE`, and each executor step runs as an
   `ExecuteStep(A)` of the provider. `MC_ExecProvider` instantiates it.
3. ✔ `DirHash`: `Hash1`, `DirFiles`, `HashDir` and `HashZip` as operators
   (RECURSIVE for the walk) over a small tree of names. They are checked
   against reference definitions: the set of files outside the ignored
   subtrees, and the digest of the zip of the same files in every order. `MC_DirHash` instantiates it.
4. ✔ `StateRehydration`: successive applies over a state store holding one
   `RandomUUID`, one `NomadJob` and one local daemon exec, with their
   `Process` hooks. The applies are interleaved with `down` commands that
   may fail part-way, and an apply may crash. The exec's `Create` and
   `Destroy` come from `provider.go`. The store, the engine and the other
   providers' `Changed`/`Create` are spec-modelled.

### Runs (current)

| Run | Cfg | Expect | Checks |
|---|---|---|---|
| executor | `CommandExecutor.cfg` | pass | `TypeOK`, `SuccessMeansCompleted`, `ErrorsCarryBestKnownPid`, `ExecuteTerminates` |
| executor_orphan | `CE_NoUnreachableProcess.cfg` | violation | the timeout race leaves a process running with pid 0 returned |
| executor_goroutine_leak | `CE_MonitorExits.cfg` | violation | the monitor goroutine blocks for ever on `doneCh` |
| executor_env | `CE_EnvIncludesConfigEnv.cfg` | violation | `Args` appended in place of `Env` (line 58) |
| executor_background_timeout | `CE_TimeoutIgnoredInBackground.cfg` | violation | a background command can time out |
| provider | `ExecProvider.cfg` | pass | `TypeOK`, `CreatedDaemonKillable`, `CreatedForegroundFinished` |
| provider_container_leak | `EP_NoLeakedExecContainer.cfg` | violation | the container of an image exec is left behind |
| rehydration | `StateRehydration.cfg` | pass | `TypeOK`, `GeneratedValueStable`, `JobRecreatedOnlyOnChange` |
| rehydration_crash | `SR_NoUntrackedDaemon.cfg` | violation | a crash between a daemon's start and the state write leaves it untracked |
| dirhash | `DirHash.cfg` | pass | `TypeOK`, `DirFilesExact`, `TreeAndZipAgree` |
| dirhash_sibling | `DH_SiblingDirectory.cfg` | violation | ignoring directory `b` also drops the sibling directory `bc` |
| dirhash_root | `DH_RootDirectory.cfg` | violation | `HashDir("/")` cuts the first character of every name |

## 3. The modules

### CommandExecutor (command.go)

Variables:

* `cpc` is the caller's position in the `select` (lines 110-117).
* `mpc` is the monitor goroutine's position (lines 74-108).
* `timer` is the channel of `time.After`.
* `started` holds what `lp.Start` returned before line 86 assigns it.
* `pid`, `pidfile` and `err` are the shared locals.
* `outbox` is the value the goroutine is blocked sending.
* `result` is what `Execute` returned.
* `proc` and `procEnv` are the OS process and its environment.
* `killErr` is what `Kill` returned.

Actions:

* `LpStart` and `Assign` model line 86 in two steps: gohup launches the
  process and writes its pid file, and only then are the locals assigned. A
  timeout between the two sees the old values. This is the data race's
  outcome as the Go memory model allows it. Torn reads of the string are
  not modelled.
* `Assign` also covers lines 87-92. A start error is queued for sending, but
  the goroutine goes on.
* `PollError` and `PollStopped` are one iteration of the loop at lines 93-104.
  A query that reports "running" sleeps and changes nothing, so it is a
  stuttering step.
* `Receive` is the rendezvous of a send with `case d := <-doneCh`.
* `TimeoutStop` (line 113) and `TimeoutReturn` (line 114) are the two reads
  of the timeout branch.
* `Kill` stops the process whose pid file is `<tmp>/<pid>.pid`.
* `ProcExit` is the command ending by itself.

Fairness: the goroutines' steps and the timer are weakly fair, because the
Go scheduler runs runnable goroutines and the runtime fires timers. The
process's exit, a failing status query and `Kill` are the environment's
choices and get no fairness, since a command may hang for ever.
`CHECK_DEADLOCK FALSE`: one `Execute` ends with the caller returned and the
goroutine blocked or gone, and then nothing moves.

Bounds: one call and one process (pid 7). `MaxCommandTime` is 5, meaning
positive; its value is not used beyond being non-zero. There are two
environment entries, so that `Args` and `Env` can differ. Every config is
enumerated (background or not, args ⊆ {a1, e1}, env nil or ⊆ {a1, e1}). Every
order of the actors is explored, so every path through the `select` is
covered.

### ExecProvider (provider.go)

It instantiates `CommandExecutor` as `Ex` with the same variables, and adds
these:

* `res` is the Exec resource: daemon, local/image/target, timeout string and
  environment.
* `ppc` is the position of Create/Destroy.
* `PID` is `config.PID`.
* `container` is the container created for an image exec.
* `executed` records whether `Execute` has been called.

Actions:

* `PrepareLocalExec` (lines 216-252) writes the script and parses the
  timeout. Either can fail.
* `ExecuteStep(A)` runs an executor step once `Execute` has been called.
* `ExecuteReturned` (lines 63-68, 264-269) keeps the pid only on success.
* `CreateRemoteExecContainer`, `FindTarget` and `ExecuteScript` model
  lines 108-214.
* `Destroy` models lines 74-90.

The command config the provider builds has `Env` non-nil and `Args` nil
(`CommandConfigOf`).

The provider source calls a newer command package, which takes a per-call
`Timeout`. In `command.go` as given, the timeout is the constructor's, so the
composition uses `MaxCommandTime`. An invalid `Timeout` string still fails
`Create` (line 246).

No fairness and no liveness property. The newer package takes the
per-call `Timeout` (line 261), which is 0 for an empty string and then
means no timeout (spec 4.1), so a hung foreground script keeps `Create`
waiting for ever: the timer the composition arms does not justify a
promise that `Create` returns.

### DirHash (hash.go lines 1-167)

The hasher is pure, so the module is mostly operators. A path is a byte
sequence: `/` is 47 and `.` is 46. The operators are these:

* `StrLess` is Go's byte-wise string order. `Sorted` is the copy and sort
  of lines 53-54.
* `JoinPath` is `filepath.Join`, including its `Clean`. `ToSlash` is
  `filepath.ToSlash`. `Glob` is the `*` wildcard match of `glob.Glob`.
* `Visits` is symwalk's lexical pre-order walk of a tree, the root first.
  `Visit` is the walk function of lines 97-136, folded over the walk by
  `DirFiles`.
* `Hash1` folds over the sorted names. It fails on a newline or an open
  error. The SHA-256 of the summary and its base64 encoding are abstracted
  to an injective `Digest` of the list of (content, name) lines.
* `HashDir` opens `Join(dir, TrimPrefix(name, prefix))` (`OsOpen`).
  `HashZip` opens a name's last entry (`ZipOpen`).

A tree is a set of files, each a sequence of names. The special `RootFile`
stands for `dir` being a regular file. The harness picks a root, a prefix,
a tree, a set of ignore globs, and an archive of the same files in any
order. It then calls each of the three entry points once.

`DirFilesExact` compares `DirFiles` with a reference definition: the
unignored files, each joined under the prefix, in walk order.
`TreeAndZipAgree` compares `HashDir` with `HashZip` on the same files.
Init picks the archive in every order, so this also shows the digest does
not depend on the order the files are listed in.

Bounds: three names (`a`, `b`, `c`), up to three files two levels deep,
the roots `/r` and `.`, the prefixes empty and `m`, and the patterns `*b`
and `*c`. This covers the cases the code branches on. In the passing run's
trees the globs match directories only; a glob that ignores a single file
is not exercised. The root can be `.` or a real path. The prefix can be
empty or not. A file can lie directly under the root or in a subdirectory.
The violation runs use their own constants: the sibling names `b` and `bc`,
and the root `/`.

### StateRehydration (RandomUUID.Process, NomadJob.Process, down)

* `store` is the persisted state: the recorded output of each id, or
  `Absent` when there is none.
* `mem` is the output field of each in-memory resource of the current run.
* `files` is the checksum of a job's files.
* `pc` is the phase of the run: `idle`, `process` (configuration parsing)
  or `apply` (the graph walk).
* `created` is the set of resources whose `Create` ran in this apply.
* `connector` and `data` stand for the ingress daemon and the data folders.
* `running` is the set of pids of daemon processes that run. `spawned`
  holds the pids given out so far, since pids are not reused. `crashes`
  counts the applies that crashed.

Actions:

* `ProcessRandomUUID` and `ProcessNomadJob` are the two hooks. Both do
  `CopyFromState`: when `FindResource` finds a record, its output is copied.
* `ApplyRandomUUID` and `ApplyNomadJob` are the engine calling `Changed`
  and `Create` (spec 4.4).
* `Persist` writes the state once, at the end of the run (spec 5).
* `EditJobFiles` is the user editing the job files between runs.
* `ProcessExec` rehydrates the exec's pid. Spec 4.4 says `Process` does
  this, but the exec's hook is not in `src/`, so it is spec-modelled.
* `ApplyExec` is `Provider.Create` of a local daemon with no recorded pid
  (lines 51-72, 264-268). `Execute` starts the daemon and its pid becomes
  `config.PID`; or it fails to launch it; or it returns an error although
  the daemon started (the timer winning the race, as in `CommandExecutor`),
  and `Create` returns that error with `PID` still 0. The
  engine creates the exec again only when `ExecChanged`, the provider's
  `Changed` (lines 101-105), says so, which it never does; otherwise it
  calls `Refresh` (lines 96-100), which only logs.
* `DaemonExits` is a daemon ending on its own, or being killed by someone
  else. It is the environment, and is spec-modelled.
* `Crash` is jumppad dying during an apply. Memory is lost. The state
  file and the detached daemons survive.
* `DestroyExecs` is `Provider.Destroy` (lines 74-90) of each exec whose
  record `engine.Destroy` removes. It kills the recorded pid.
* `Down` is the whole `Run` of the down command. `engine.Destroy` fails
  part-way, or it removes every record, after which the folders are
  removed and a running connector is stopped. The stop may fail, and its
  error is only logged.

`StartApply`, `WalkGraph`, `ApplyRandomUUID`, `ApplyNomadJob`, `Persist`,
`EditJobFiles`, `ProcessExec`, `Crash` and `DaemonExits` are spec-modelled, because the engine, the store and these
providers are not in `src/`.

Bounds: one resource of each kind, two values, two checksums, two pids,
three applies and at most one crash. This is enough to generate a value,
keep it, destroy it and generate it again, and to re-create a job after an
edit and leave it alone without one. It is also enough to start a second
daemon after a crash or a failed `Create`. The run has 75,206 distinct
states. Nothing here is scheduled by the code, so there is no fairness
and no liveness property. Deadlock is checked: `down` and edits are always
possible between applies.

## 4. What the runs show

The passing runs establish the following.

* A nil error from `Execute` really means the command ran, and for a
  foreground command that it has stopped. This holds even though the loop
  shadows `err`.
* A start error is reported with pid 0. A status error is reported with the
  process's pid.
* `Execute` always returns, because the timer bounds a hung command.
* In the provider, a created daemon's `PID` reaches its process, and a
  created foreground exec has finished.
* The `Process` hooks are what make applies idempotent. A recorded UUID
  survives every later apply until `down`. A job is re-created only when
  its files changed. Without the copy at `part_000` line 28 or `hash.go`
  line 207, a mutant shows each of these breaking. Both hold when an
  apply crashes.

The violation runs are findings (see `PROJECT.json`).

* **Orphaned process.** A timeout between `lp.Start` and the assignment of
  line 86 stops `""` and returns pid 0 while the process runs. No `Kill` can
  reach it. A failing
  status query of a foreground script has the same effect.
* **Goroutine leak.** The monitor goroutine blocks for ever after every
  timeout, start error or status error.
* **Environment lost.** Line 58 appends `Args` instead of `Env`, so exec
  scripts never see their `Environment`.
* **Timeout applied where the spec says it does not.** This happens to
  background commands. The zero timeout of line 69 is only a hazard,
  because nothing in `src/` calls `NewCommand` with zero.
* **Daemon lost.** `Create` keeps the pid only in `config.PID`, and only
  when `Execute` returned no error; the engine writes the state at the end
  of the apply. An error returned after the daemon started (the timer
  winning the race), or a crash before the write, leaves a detached daemon
  that no `down` can stop, and the next apply starts a second one.
* **Container leak.** A failed script (line 153) or an ignored removal error
  (line 159) leaves the image exec's container.
* **Sibling directories dropped.** Ignoring a directory `r/b` also skips
  `r/bc/a`, because the test of line 124 is a string prefix and not a path
  prefix.
* **Root directory.** For `dir = "/"`, line 131 cuts one character too
  many, so `HashDir` fails to open the files that `HashZip` hashes.

In the passing `dirhash` run, `DirFiles` is exact whenever no ignored
directory is a string prefix of another path. The digest is also
independent of order, and a tree and its zip hash alike for every root
other than `/`.

## 5. Not modelled, and why

* `Lookup` and `Init` of the provider change no state (`Init` only builds
  clients); `Refresh` and `Changed` appear in `StateRehydration`. Logging is left out everywhere.
* gohup's internals are treated as the environment. So are the container
  client's (a create that fails leaves no container) and the OS process.
* Symlinks under `symwalk`: the trees have none. The walk follows links,
  so a cycle of links would not end. This is left out.
* Zip archives with a name listed twice: `ZipOpen` models the last entry
  winning, but the archives the harness builds have distinct names.
* The engine, the state store and the connector are not in `src/`. They
  appear in `StateRehydration` only as far as the hooks and `down` use
  them, and are spec-modelled. Resource failure statuses, the parallel walk
  of independent resources and the configuration parser are left out. The
  hooks only read the store, and the walk gives each resource its own
  in-memory object (spec 5).
* `LoadState` errors: a state file that does not exist finds no record,
  just as an empty store does. A read error that only the hook sees is not
  modelled. Both the hook and the engine read the same single file.
* `GenerateClients`'s error is ignored at `part_001` line 20. What follows
  from that lies in `createEngine`, which is outside `src/`.
* Pid reuse: a daemon that exits by itself, and whose pid the OS later
  gives to another process, would make `Destroy` kill that process through
  the stale pid file. Whether this happens depends on gohup's pid-file
  handling, which is outside `src/`. The model lets daemons exit
  (`DaemonExits`) but never reuses a pid. The hazard is listed without a
  property: a daemon that exited is also never restarted, since `Changed`
  is false and `Refresh` only logs, and the spec allows both.
