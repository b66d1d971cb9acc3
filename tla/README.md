# TLA+ models of icebeam

icebeam is a command-line front end for [restic](https://restic.net): it asks for
a repository and its secrets once, keeps them in a config directory, and from
then on runs restic for backups, restores and maintenance, by hand or from
launchd or systemd. These modules model the parts of it in which several things
happen at once or in which a step may fail half-way: the setup engine, the
runner of restic, the backup command, the scheduler, the log, retention, and the
commands that run side by side.

- [Components](#components)
- [The modules](#the-modules)
- [The runs](#the-runs)
- [What the runs found](#what-the-runs-found)
- [Fairness](#fairness)
- [The proofs](#the-proofs)
- [Only model-checked, and not modelled](#only-model-checked-and-not-modelled)
- [Plan](#plan)

`PROJECT.json` lists the components, the runs, the mutants that show that each
property can fail, the source lines of every definition, the findings, the
hazards and the theorems. To check a run, `tlc -config X.cfg M`; to check the
proofs, `tlapm M.tla`.

## Components

| component | source | state | operations | status |
|---|---|---|---|---|
| setup engine | `internal/cli/{init,reconfigure,setup}.go` | `setupParams`, the config and secrets loaded at the start | collect the inputs, probe, ask again, save the config, persist the secrets, `restic init` | `Setup`, `Connection` |
| prompter | `internal/cli/{prompt,password}.go` | what is left on stdin | yes/no, choice, secret, keep-or-replace | `Setup`, partly |
| config file | `internal/config/{config,validate}.go` | `config.toml` | load, validate, save (truncate, then write) | `Setup`, `BackupRun`, partly |
| repository URL | `internal/config/repourl.go` | none | parse, split off credentials | `Setup`, partly |
| credential store | `internal/credentials` | three secret files | get, set, `CopyInto` | `Setup`, `BackupRun`, partly |
| restic runner | `internal/restic/{run,backup,browse,restore,restic}.go`, `procattr_unix.go` | one restic process, its pipes, the goroutines that read them | Run, Backup, LS, Dump, captureJSON; cancel | `ResticRunner`, `RunnerCall` |
| version gate | `internal/restic/version.go` | `checkedVersion` | check once per runner, compare versions | `Versions`, `Invocations`, `ResticRunner`, `BackupRun` |
| exit classification | `internal/restic/exit.go` | none | probe outcome and exit status from status and message | `Setup`, `ResticRunner`, `BackupRun`, partly |
| backup and run | `internal/cli/{backup,execute,exit}.go`, `cmd/icebeam` | the sets, their outcomes | resolve sets, one restic per set, exit status | `BackupRun`, `Batch` |
| maintenance | `internal/cli/maintenance.go` | none; the snapshots in the repository | forget, prune, check | `Retention`, `Invocations`, `BackupRun` |
| restore and dump | `internal/cli/restore.go` | the target directory | guard of the target, restore, dump | `Invocations`, `ResticRunner` |
| browse | `internal/cli/browse.go` | none | snapshots, ls, find | `Invocations`, `ResticRunner` |
| scheduler | `internal/cli/schedule*.go`, `internal/schedule` | unit files, what the OS scheduler has active | install, uninstall, status | `Scheduler` |
| logging | `internal/logging` | the log and its one predecessor | open, rotate, write, close | `LogFile`, `Invocations`, partly |
| command tree, XDG paths, version, surface | `internal/cli/root.go`, ... | none | wiring | not modelled |

How they interact. `init` and `reconfigure` call the runner (the probe and
`restic init`) with secrets in memory, and only then write the config file and
the credential store. Every other command reads both, builds a runner and calls
it; a backup does so set by set, and restic itself reads the repository password
from its file (`RESTIC_PASSWORD_FILE`). The scheduler's
units run `icebeam run`, so a scheduled run and a command at the terminal share
nothing but the files: config, secrets, the log, a restore target, and the
repository, which other hosts share too. No lock guards the local ones. A signal cancels the one context that all calls of a
command get.

What is hard, and what makes each part right:

- *Setup* writes config, three secrets and a repository in separate steps, each
  of which may fail or be the last one, and the next invocation decides from
  what it finds whether to probe at all. It is right if only a verified
  connection is written, if the disk keeps opening the repository, and if
  "icebeam is configured." means that it does.
- *The runner* has up to five parties on two bounded pipes: restic, a process
  it spawned, a reader per stream, the caller, and the goroutine of os/exec
  that watches the context. It is right if no output is lost, the error tells
  what happened, a canceled call returns and nothing is left running.
- *A backup* goes on after a failed set and must put the outcomes of all sets
  into one exit status that a scheduler looks at, while its files may be
  rewritten between two sets.
- *The scheduler* keeps two things that must agree, unit files and the timer
  that runs, and changes them by tools whose failures it partly ignores.
- *Commands side by side* look at the log's size and rename it in two steps, look
  at a target and write to it much later, and forget snapshots another set or
  host may have just made. They are right if the log stays bounded and a young
  one is not taken for history, a filled target is refused, no restic below the
  minimum runs, and every set keeps its last snapshot.

## The modules

### Setup

State: `config` and `secrets` are the files, with the empty file `BadConfig`
that a truncating save may leave; `repo` gives for each URL the password its
repository was created with. `pc` says where the one setup process is
(`runSetup` and the functions it calls), `existing` and `stored` are what it
loaded at its start, `params` is `setupParams`, `lines` the answers left on
stdin, `pending` the secrets `CopyInto` has not come to, in any order, as it
ranges over a map.

| code | actions |
|---|---|
| `runInit`, `runReconfigure`: load the existing setup | `StartSetup`, `StartRefused` |
| `runSetupFlow`: prompts, stored secrets, `skipProbe` | `CollectInputs`, `CollectFails` |
| `probeRepository`: the loop around `restic cat config` | `ProbeVerifies`, `ProbeFindsNothing`, `ProbeRejectsPassword`, `ProbeFails`, `ProbeCannotRun` |
| its questions, to the end of stdin | `RetryDeclined`, `RetryAccepted`, `RetryUnclear`, `AskPassword`, `AskPasswordEnds` |
| `Config.SaveFile` | `SaveRefused`, `SaveOpen` (truncates), `SaveEncode`, `SaveFails` |
| `persistSecrets` | `PersistSecret`, `PersistFails` |
| the end of `runSetup`, `initRepository` | `FinishVerified`, `initRepository`, `InitRepositoryFails` |
| from outside | `Crash`, `OtherHostInit`, `UserAddsSet` |

The prompts up to the probe are one step: they read stdin and the disk and
change nothing, so only their result matters, and `Inputs` ranges over all of
them. The environment a probe gets and the one restic later gets from the files
are both computed (`restServerEnv`: both REST credentials or none), because they
differ when a stored credential is not overwritten.

`interrupted` is a history variable: an invocation stopped between its first
and its last write. The property the code can keep is conditional on it.

### Connection

What a setup promises of the disk, without prompts, probes and single writes:
the connection, that is the URL, the three secrets and perhaps a new repository, is
replaced as a whole by one the server lets in (`Establish`), or the setup is cut
short in its writes and leaves a mixture of the old one and the new (`CutShort`).
`Setup` implements it: the URL and the secrets are those of the disk, except that
while a setup writes they are still the ones it has loaded (`ConnectionURL`,
`ConnectionSecrets`), so that the last write is the step that counts. That step
may be `initRepository`, the last secret, or a `SaveEncode` with nothing to follow;
a skipped probe writes what was there and is a stutter.

### ResticRunner

One call, in one of four modes that differ in who reads which stream (`mode`:
Run; Parse for Backup and LS; Dump; JSON for captureJSON). The caller's `pc`
follows the source from the version check over `Start` and the reading to
`Wait`; each reader is `reading`, `done`, or `stopped` by a line that the scanner
cannot hold; `pipe` is the bounded pipe of each stream. `tail` is the `outputTail`. Of os/exec the model has what the code
relies on: the watcher that calls `Cancel` (SIGTERM to the process group) and
after `WaitDelay` kills restic alone; `Wait`, which reaps and closes the pipes;
and the copying goroutine that `Wait` gives up after `WaitDelay`. restic prints
`Lines` lines on each stream and, if it fails, its fatal message last. It may
ignore SIGTERM, hang, or have spawned a process that holds the pipes, which may
do the same.

### RunnerCall

What a caller of the runner may rely on, without goroutines, pipes and signals:
restic is started at most once and not after a cancellation, the call returns
once and after restic's end, and its result agrees with the exit status, the
delivered output and the context (`Justified`). `ResticRunner` implements it
under the refinement mapping `Call`: a call is running from restic's start on,
the cancellation is `reached` once it has signaled restic, and output is
`missing` if a reader gave it up for any reason but an over-long line.

### BackupRun

One command against a disk that another icebeam may be rewriting (`Truncate`,
`Fill`, in the order of the setup's writes). Configs and secrets are reduced to
the generation, old or new, that they stem from. The steps are those of
`runBackup`/`runMaintenance` (`Load`, `Resolve`, `Open`), of one call of the
runner per set (`CheckVersion`, `ReadUsername`, `ReadPassword`, `Start`, and
`ResticSucceeds`, `ResticFails`, `ResticCanceled`), and `Report`, with
`backupCode` and `mapResticExit` as the code computes the exit status. `Exit`
keeps eight bits of it. `causes` is a history variable: the sets whose own call
has met with a reason to fail (`Meets`): the call was canceled or refused, restic
failed although it had got in, or a secret was read at a moment when the disk did
not hold the secrets of the loaded config (`Serves`). It is never taken back, and
what the other icebeam does is itself no reason. That a call returns at all, and with the context's error
when it was canceled, is what `ResticRunner` shows of the runner.

### Batch

What `backup` and `run` promise of the sets, without config, secrets or restic:
each set has one turn, in order, whatever became of the ones before it (`Start`,
`Succeed`, `Fail`); a canceled run starts nothing more; the verdict is on all of
the sets (`Judged`, `Report`), or there is one before any set has had a turn
(`GiveUp`). `BackupRun` implements it under the mapping `B`: the results are the
outcomes reduced to ok and failed, a set is `saved` once its complete snapshot is in
the repository of the loaded config, and the verdict is read off the exit status.
Everything that happens on the disk and within a call is a stutter. `VerdictIsTrue`
says what a reader of the verdict may conclude about the snapshots.

### Scheduler

`files` is what each unit file holds (absent, truncated, or the schedule it was
written for), `active` the schedule that launchd or systemd runs icebeam on,
`enabled` systemd's enablement, or that launchd has not been told to disable the
agent. An install writes its files one after the other
(`Truncate`, `Fill`), then calls the tools (`DaemonReload`, `Enable`; `Unload`,
`Load`, `LoadDoesNothing`), and an uninstall deactivates, removes and reloads. Each may be killed
at any point; tools may fail or be missing. `Login` is the next login, after
which launchd loads the agents it finds, unless disabled, and systemd starts what is
enabled.

The two schedulers are external. The model takes from them: loading an agent that
is loaded, disabled, or out of this session's reach takes up nothing
(`NotLoadable`), and `launchctl load` may say so by its exit status
(`ActivationFails`) or exit with zero (`LoadDoesNothing`); `daemon-reload` makes a running timer follow its file; a
running timer whose file is gone may go on or stop; `enable --now` that fails may
have enabled the timer without starting it; `unload` needs a readable plist and
`disable` the timer's file. The code depends on each of these, and the model
leaves the choice open where the tools do. `silent` is a history variable: the
last `load` exited with zero and loaded nothing.

### LogFile

`logging.New` and the use of its logger, by any number of processes. A file is
an inode: `names` says which one is the log and which one its backup (`.1`), and
a process goes on writing to the one it holds (`held`) whatever its name is by
then. `size` counts records.

| code | actions |
|---|---|
| `rotate`: `os.Stat` and the comparison with `maxLogSize` | `Stat` |
| `rotate`: `os.Rename` | `Rename`, `RenameFails` |
| `os.OpenFile`, `os.Chmod` (by name) | `Open`, `Chmod`, `ChmodFails` |
| a record; `Close` | `Append`, `Close` |

`disturbed` is a history variable: another process has rotated the log between
the steps of this one. `MaxRecords` bounds what one process writes.

### Retention

The snapshots of one repository, each of a `source` (a backup set of a host) and
a time. `Backup` adds one; `Forget` removes, in every group of host and tags
(`GroupOf`, from `--group-by host,tags`), what the policy does not keep
(`Kept`: for each positive count, the newest snapshot of each of the last so many
days, weeks, months or years). What restic does with the flags is external;
which flags it gets, and none with an empty policy, is the code's. `made`,
every snapshot ever made, is a history variable.

### Versions

`compareVersions` as `Older`, on sequences of components, and the numbers that
versions stand for as its reference (`Number`).

### Invocations

The composition: each of `Procs` runs one command after another, and the
instances `Log` of `LogFile` and `Repository` of `Retention` are what they share,
besides the restore target and the installed restic. `pc` is the stage a command
is at:

| code | stage | actions |
|---|---|---|
| `guardRestoreTarget`, `os.Stat` then `os.ReadDir` | `guard`, `readDir` | `GuardPasses`, `GuardLooks`, `GuardRefuses`, `ReadDir` |
| `config.Load` and the log's path and directory | | `LoadConfig`, in the step before |
| `buildLogger` | `logger` | `OpenLogger`: the steps of `Log!New` |
| `credentials.Open`, `restic.New`, `LogStart` | `runner` | `OpenRunner`, `OpenRunnerFails` |
| `ensureVersion` | `version` | `CheckVersion` |
| the call of restic | `restic` | `LogOutput`, `Restic` |
| `LogEnd`, the summary of a backup | `end`, `summary` | `LogEnd`, `LogSummary` |
| the loop of `backupSets` | `next` | `NextSet`, `LastSet` |
| the deferred `Close` | `close` | `CloseLogger` |

`Commands` are the backups of this host's sets, forgets with a policy and
`--dry-run` or not, restores with `--force` or not, the other commands that write
start and end records (`report`: prune, check, dump) and those that do not
(`browse`). What restic does to the repository or the target is one step: restic
locks the repository for it, and a command that its locks turn away is one whose
restic fails (`ResticLeavesAll`). Around the commands, `TimePasses`, icebeam runs
on another host (`OtherHost`), and somebody else fills, clears or replaces the
target while a restore that cares is under way (`TargetChanges`).

`occupied` is a history variable: the target has been in use since this restore
began. It makes the promise of a guard that looks once a statement about the
moment of writing.

## The runs

| run | spec | states | what it shows |
|---|---|---|---|
| `SetupFaults` | `FairSpec`, all faults | 406,780 | `OnlyVerifiedIsWritten`, `UsableUnlessInterrupted`, `AbortLeavesNothing`, `NewRepositoryIsOnDisk`, `ImplementsConnection`, `SetupTerminates`, `EveryStepCounts` |
| `SetupInitFails`, `SetupCrash` | `Spec` | | two violations, below |
| `RunnerCalls` | `FairSpec`, all modes, any descendant, over-long lines, failing writer, version check | 193,986 | `SuccessIsComplete`, `FatalIsSeen`, `CanceledIsNotAFailure`, `ChildIsReaped`, `NobodyWaitsForEverybody`, `CancelUnblocks`, `ImplementsRunnerCall`, `CallReturns`, `CancelReturns`, `CancelLeavesNoOrphan`, `EveryStepCounts` |
| `RunnerStubborn`, `RunnerLongLine` | `FairSpec` | | two violations, below |
| `RunReports` | `FairSpec`, reconfiguration, cancellation | 30,935 | `ExitTellsOutcome`, `FailureHasACause`, `StartsAreGated`, `ImplementsBatch`, `RunEnds` |
| `ScheduleStates` | `Spec`, failing tools | 3,330 | `ScheduledIsInPlace`, `NoOrphanSchedule`, `RemovedIsInactive` |
| `ScheduleInstall`, `ScheduleUninstall` | `Spec` | | two violations, below |
| `Invocations` | `Spec`, two processes, another host, a meddled target | 870,318 | `LogIsBounded`, `RotationKeepsHistory`, `FailsInARaceOnly`, `FilledTargetIsRefused`, `StartedIsRecent`, `LatestSurvives`, `PrunedIndependently`, `ImplementsRepository` |
| `RetentionSharedTags` | `Spec` | | a violation, below |

Bounds, and why they are enough:

- `Setup`: one REST repository that wants one user and one of two passwords, and
  one reached without credentials: so a stored credential can be right, wrong,
  missing and left over. Two repository passwords: the right one and another.
  `MaxLines = 2` answers on stdin: the probe loop can be retried and then run
  dry. The loop carries nothing from one round to the next but the password. The
  number of invocations is not bounded. One name of a set is asked for and another
  may be added to the config by hand (`UserSets`).
- `ResticRunner`: `PipeCap = 1` is the smallest pipe, on which every write may
  block. Three lines on each stream: one that may end the reading, one that stays
  in the pipe and one that blocks. `maxTailLines = 3` (20 in the code) makes three
  lines and the fatal message overflow the tail.
- `BackupRun`: two sets, so that one can fail and the other succeed in either
  order, requested in either order, one twice, or not at all; statuses that
  collide with icebeam's own (1, 2, 3), one that does not (11) and a signal (-1).
  The old config lists both sets and the new one only one; the new repository
  wants REST credentials and the old one does not, so a secret can be left over,
  and the new config can be loaded before its secrets are there: then the first
  set fails on them and the second, which reads them again, need not.
- `Scheduler`: both platforms, the agent disabled in launchd or not, the three
  intervals and one calendar expression. `ScheduleInstall` has tools that do not fail
  (`ToolFails = FALSE`): a disabled agent is enough. Nothing is counted, so the number of installs, uninstalls, kills
  and logins is not bounded.
- `Invocations`: two processes are what a race takes. Four files: the log, its
  backup, and one without a name that each process may still hold. A log of one
  record is too large (`maxLogSize = 1`, 10 MiB in the code), so that openings
  rotate often; four records are the start and end of two sets, or output and a summary
  in place of the second (`MaxRecords`). Two commands in all (`MaxCommands`), so
  that every pair of commands meets in every interleaving, and of a backup every
  sequence of its sets that four records allow.
  Time runs to 2 and a "day" spans two of them, so that a forget finds two
  snapshots of one day and two days (`MaxTime`). Two sets of different tags on
  this host and one on another host with the tags of the first: grouping by only
  one of host and tags would mix them. One installed restic is new enough, one is
  not, and for one the configured minimum is not a version. Processes and files are
  interchangeable, so the run uses symmetry; it checks no liveness.
- `RetentionSharedTags`: one host, two sets without tags, time to 5.

`CHECK_DEADLOCK` is off in `Invocations` and `RetentionSharedTags`, where the
bounds on commands and time end an execution, and on elsewhere: a finished
`ResticRunner` or `BackupRun` stutters explicitly (`Finished`, `Done`). A
cancellation is possible nearly always, so that the deadlock check does not show
that nobody waits for everybody: `NobodyWaitsForEverybody` and `CallReturns` do.

Each property of a passing run has a mutant in `PROJECT.json`: a plausible bug
in one definition (defined beside it, and marked as a mutant or a variation) under which the same
run reports that property violated.

## What the runs found

Each of these runs checks one sentence of the documentation or of a comment
against the code, and TLC finds an execution of the code that breaks it.

- `SetupInitFails`: the files are written before `restic init`; when that fails,
  a re-run with the same answers skips the probe, and with it the init, and says
  "icebeam is configured." There is no repository. `InitializedTheorem` says that
  with neither failing writes or inits nor kills this does not happen.
- `SetupCrash`: a kill between `config.toml` and the secrets leaves a mixture
  of two setups that the next run takes for a verified connection.
- `RunnerStubborn`: readers run before `Wait`, so nothing closes the pipes when
  a descendant ignores SIGTERM, and the canceled call does not return.
- `RunnerLongLine`: a line over 1 MiB ends the reading without an error; restic
  then blocks on the full pipe and the call with it.
- `ScheduleInstall`: install looks at nothing but the exit status of
  `launchctl load`, a legacy subcommand that fails visibly only on improper usage.
  Of an agent that is disabled, still loaded or out of the session's reach it prints
  "Scheduled ..." while launchd runs the old schedule or none. The hint how to load it
  by hand is not given. `ScheduledOnLinux` says that this takes launchctl.
- `ScheduleUninstall`: a failed `unload` or `disable` is ignored, the units are
  removed, and what still runs can no longer be found by `uninstall`.
  `UninstallTheorem` says how far this goes: with systemd it takes a tool that
  fails. With launchd a killed reinstall is enough, as it leaves a plist that
  `unload` cannot read.
- `RetentionSharedTags`: snapshots are grouped by host and tags and nothing asks
  for different tags, so two sets of a host with the same tags, or none, are one
  group, of which a forget keeps one snapshot a day: the only one of a set goes.

The properties of the passing runs except some cases on purpose. A reader who
reviews the code should know them:

- If what restic still prints after an over-long line fits into the pipe, the call
  succeeds without it, and a fatal message there is not classified
  (`SuccessIsComplete` and `FatalIsSeen` except a reader that is `stopped`).
- A failing writer ends Dump's copy of stdout, restic blocks and the call hangs
  until it is canceled; `CallReturns` excepts it (`copyErr`).
- A cancellation during the version check is reported as a failure of
  `restic version`; `CanceledIsNotAFailure` is about the restic of the call.
- The exit status of a maintenance command is restic's own (`mapResticExit`), so
  that icebeam's 2 and 3 need not come from a backup; `ExitTellsOutcome` is about
  backups only.
- Two commands that both find the log too large rotate twice: the second replaces
  the backup by a log just begun (`RotationKeepsHistory`), or finds no log and
  fails, with it the whole command (`FailsInARaceOnly`).
- A setup that goes through to its save replaces all backup sets by the one it asked
  about (`init.go:666`), although `init`'s help says a single setting can be changed
  "without ... wiping the existing config". `UserAddsSet` puts such sets on the disk;
  the properties say that an aborted setup keeps them (`AbortLeavesNothing`) and
  nothing of one that finishes.
- After a `launchctl load` that only seemed to work, `ScheduledIsInPlace` promises
  the unit files and no more until the next login (`silent`).
- A target that is filled after the guard has looked is written to without
  `--force`; `FilledTargetIsRefused` is about one in use all along.

## Fairness

- `Setup.FairSpec` is weak fairness of `SetupStep`: the process takes its next
  step. restic answers a probe (the runner returns), system calls return, and at
  a prompt either an answer or the end of stdin comes. Crashes, other hosts and
  the user's editing are not fair. No fairness is claimed between answers: a user
  could decline for ever only if stdin had infinitely many lines.
- `ResticRunner.FairSpec` has weak fairness of icebeam's goroutines (the Go
  scheduler runs a goroutine that can run), of the watcher and its timer, and of
  the effects of signals on other processes. What restic
  does of its own accord is not fair: it may hang, which is when a cancellation
  matters. `CallReturns`, that nobody waits on everybody, holds on condition that
  restic goes on by itself (`WF_vars(ChildStep)`). That restic fails
  (`ChildFatal`) is never fair.
- `BackupRun.FairSpec` is weak fairness of `CommandStep`, including the end of a
  restic call: the promise the runner's runs check. It is not justified where
  those runs report a hang.
- `Scheduler`, `LogFile`, `Retention` and `Invocations` have no liveness property:
  their steps do not wait for each other. That a command's restic returns is what
  `ResticRunner` is about.

## The proofs

Every invariant, action property and refinement of a passing run is a theorem.
The theorems hold for every value of the constants that satisfies the named
assumption of the module (`SetupAssumption`, `RunnerAssumption`,
`BackupRunAssumption`, `SchedulerAssumption`, `InvocationsAssumption` with the
assumptions of `LogFile` and `Retention` in it), which TLC also evaluates on its
instances. A theorem that needs more says so as an `ASSUME`. Most of the proof
modules have the same shape: an invariant `IInv`, a lemma that `Init`
implies it, lemmas that each group of actions keeps it, `Invariance`, and the
theorems, each of which follows from `IInv` (or, for an action property, from
`IInv` and the step). TLC has checked each `IInv` on the instances first.

**SetupProofs.** `TypeCorrect`, `WritesAreVerified`, `UsableTheorem`,
`AbortTheorem`, `NewRepositoryTheorem`, `ConnectionTheorem`, `SettledTheorem`;
`ConfiguredTheorem` under the assumption `Faults \subseteq {"probe"}`, without which
TLC refutes `ConfiguredMeansUsable` (`SetupCrash`); and `InitializedTheorem` under
`Faults \subseteq {"probe", "otherHost"}`, without which it refutes
`ConfiguredMeansInitialized` (`SetupInitFails`). The properties are far from
inductive: that the disk is usable depends on what the process has verified,
which depends on what it loaded. `IInv` says what each phase knows.
`LoadedInv`: until the first write, disk and memory agree. `ProbingInv`: the
parameters keep the shape the prompts gave them. `VerifiedInv`: past the probe
they are verified. `SkipInv`: if the probe was skipped they are those on disk.
`PersistInv`: what is already written of them is. `CreatedInv`: a new repository
was found absent under credentials the server accepts. `SettledInv`: on a
quiet disk that was not interrupted the configuration is usable. The step that
needs care is a probe that is skipped: it writes the same values again, so the
disk is usable afterwards exactly if it was before.

`ConnectionTheorem` is the refinement. The writes in the middle are stutters, as
the mapping looks at what was loaded; the last one is `Establish`, from `VerifiedInv`
and `PersistInv`, or `initRepository` is, from `CreatedInv`; a `Crash` or a failed
write before it is `CutShort`, and everything before the first write leaves the
connection alone by `LoadedInv`. `SettledTheorem` then takes from `Connection` what
a settled disk is worth: `Settled` is inductive there, since no abstract step
lets a repository change its password.

`CountsTheorem` is what is left of `SetupTerminates` without fairness: `StepsLeft`,
a natural number, decreases with every step of the process, for any amount of
stdin and any number of secrets still to be written. The loop of probe, question and
password has three states, hence `3 * lines`: each round takes a line.

**ResticRunnerProofs.** `TypeCorrect`, `ReapedTheorem`, `SuccessTheorem`,
`FatalTheorem`, `CanceledTheorem` and `RefinementTheorem`, each for every value of
the constants. Three things carry the argument. `ReadInv`: a reader that is done
has lost something, or its pipe is empty and restic cannot write any more; with
`WaitInv`, that nobody waits for restic before the readers are done, the `Wait`
that closes the pipes loses nothing. `LossInv`: output is lost only together with
an error of the writer, the watcher or `Wait`, or behind an over-long line, and on
the stream of the diagnostics otherwise only when the call is canceled. `FatalInv`:
the fatal message is the last thing in its pipe, or the pipe is empty and it is
the last thing in the tail; no bound on the output or the tail enters. For the
refinement the initial states map to `RunnerCall`'s and each action, under the
invariant, to one of its steps or to a stutter: `Return` is where everything the
invariant says of losses and signals is needed for `Justified`.

`NobodyWaitsTheorem` and `CancelTheorem` are freedom from deadlock, as invariants:
some party can go on. `IcebeamGoesOn`, `ResticGoesOn` and `SignalGoesOn` repeat the
guards of the step actions, as `ENABLED` is out of the prover's reach; TLC has found
them equivalent to `ENABLED` of those actions on the instance of `RunnerCalls`.
`ProgressInv` says how far the watcher has come: what it has signaled is the whole
group, after the kill restic does not run, its end is behind `Wait`; and that what
was lost at a reader that is done is due to the writer or to closed pipes.
`CountsTheorem` adds that
every step but the cancellation decreases a natural number, which each printed
line, each line read, each reader, the watcher and the caller have a share in. So a
call of bounded output has a bounded number of steps, and until it has returned
there is a next one.

**BackupRunProofs.** `TypeCorrect`, `ExitTheorem`, `GatedTheorem`, `CauseTheorem`,
`BatchTheorem`, `VerdictTheorem`, `CountsTheorem`. `SnapshotInv` ties the outcomes to the snapshots, `LoopInv` the
outcomes to the sets, `VerdictInv` the exit status to the outcomes. That the
number of failures decides between partial and total needs the cardinality of
a subset of `1..n`, from the library's theorems on finite sets; so the
theorem holds for any number of sets. The eight bits of the exit status need
arithmetic modulo 256 on the codes. `CauseTheorem` rests on what is in the
environment a restic gets (`EnvInv`): while the call under way has met with no
reason to fail, every secret it has read so far is of the loaded config, whatever
has become of the disk since. Nothing has to be known of the other icebeam's writes
or of the sets before, because each call builds its environment from nothing; under
the mutant that keeps it from one set to the next `EnvInv` is not inductive.

`BatchTheorem` is the refinement, for any number of sets. Marking the outcomes
commutes with appending one (`MarkAppended`), a call that ends is `Succeed` or `Fail`
(`BatchSettles`, `BatchSaves`), and `Report` gives the verdict `Judged` of the marks
because the number of failures is that of the sets only if all of them failed.
`VerdictTheorem` then has nothing to do with restic or the disk: `BatchRecord` is
inductive in `Batch`, and by it 0 means a complete snapshot of every set, a partial
failure one of some set, and a total failure none unless the run was canceled.
`CountsTheorem` (`EveryStepCounts`, an action property of the proof module): every
step of the command leads to a later part of it, or stays in
the loop and decreases `StepsLeft`, which counts seven for each set still to come.

**SchedulerProofs.** `TypeCorrect`, `ScheduledTheorem`, `OrphanTheorem`,
`RemovedTheorem`; `ScheduledOnLinux`, the claim of `ScheduleInstall` where there is
only systemd; and `UninstallTheorem` under the assumption that there is only
systemd and that its tools do not fail.
`WrittenInv` follows the files through an install (what is off the list of files
to write has been written for this schedule), `ReportInv` says that a report
stays true until the next command (for which a `load` that worked must have found
the agent enabled, or the next login would drop it), and `RemovalInv` that files are removed only
after the deactivation, or in spite of its failure. `RemovedInv` follows an uninstall
from the deactivation to the report. Under the assumption of `UninstallTheorem` no
deactivation is ignored: a timer that is active has its file.

**LogFileProofs.** `TypeCorrect`, `RotationTheorem`, `RaceTheorem`, and
`BoundTheorem` for any number of processes. The bound is a counting argument:
`BoundInv` says that the records a file has beyond the threshold can be accounted
for by distinct pairs of a process and the number of one of its at most
`MaxRecords` records, none of which is still to be written: a process that closes
the log and comes again looks at its size first. `FreeInv` says that a file
nobody can reach is empty when it is used again.

**RetentionProofs.** `TypeCorrect`, and under the assumption `TagsDistinct`, that
no two sets of a host have the same tags, `LatestTheorem` and `PrunedTheorem`.
Without the assumption TLC refutes the latter (`RetentionSharedTags`). With it a
group is the snapshots of one set (`GroupIsOf`); the newest of a group is in the
last bucket of every period, so that any policy that keeps anything keeps it
(`NewestIsKept`, with `RecentInv`). The calendar need only be monotonic. Without
`TagsDistinct`, `RepeatedTheorem`: a forget run again at once removes nothing
(`RepeatedForget`, an action property of the proof module); and
`LargerPolicyTheorem`: a policy with larger counts never removes more. Both rest
on how `Kept` depends on the set it is taken of: what is kept of fewer snapshots
includes what was kept of more (`KeptOfFewer`, by comparing the cardinalities of
sets of buckets), and it grows with the counts (`KeptGrows`).

What earlier forgets took does not matter to later ones: `ForgettingInBetween` says
that a policy keeps of what it once kept of S, and of later snapshots T, just what it
keeps of S and T. A forget counts days that have a snapshot, so that this rests on
the days it counts being still there (`LastBucketsStay`: the largest bucket that
were gone would have been among those the earlier forget kept). With `TagsDistinct`
it follows of every behaviour, for one policy, that each set always has as much as
its history is worth to the policy (`HistoryTheorem`: the policy keeps the same of
the set and of all its snapshots ever made), and for policies that change, none
keeping less than a given one, that whatever that one keeps of the history is there
(`CoverTheorem`). The first does not hold of two policies with different counts: what
one of them forgot, the other may have kept.

**VersionsProofs.** `OlderIsSmaller`: releases of one to three components, each
below 1000, are compared like the numbers they stand for. For versions of any
length, which have no such number, `OlderIsAnOrder`: `Older` is a strict order and of
two versions one is older or they differ by trailing zeros; and `GateIsMonotonic`:
what is accepted for a minimum is accepted for every lower one. The first component
in which two versions differ is taken by the well-foundedness of the naturals.

**InvocationsProofs.** `RepositoryTheorem`: every step of `Invocations` is a step
of `Retention` or leaves its variables alone. In the same way the commands
together implement `LogFile` (`LogTheorem`), so the theorems of `RetentionProofs`
and `LogFileProofs`, which are instantiated as `R` and `L`, carry over without a
new invariant (`HistoryTheorem` too). The composition's own properties are `TypeCorrect`;
`FilledTheorem`, from `GuardedInv` (a restore without `--force` past the guard has
seen a moment at which its target was not in use); and `RecentTheorem`, from
`GateInv` (at restic, the installed release was accepted) and `OlderIsSmaller`.

## Only model-checked, and not modelled

Only model-checked: liveness (`SetupTerminates`, `CallReturns`, `CancelReturns`,
`CancelLeavesNoOrphan`, `RunEnds`), which the proof system cannot do under
fairness. Its safety halves are proved: that every step counts (`EveryStepCounts` of
`Setup`, `ResticRunner` and `BackupRunProofs`) and that somebody can take one
(`NobodyWaitsForEverybody`, `CancelUnblocks`). What TLC adds is that those who can
go on do. The runs that expect a violation show single executions.

Not modelled, with the reason:

- the text of prompts, messages, log lines, unit files and tables, the redaction
  and mirroring of log records, and JSON decoding: no property is about it;
- the parser of repository URLs, the regular expression that finds restic's
  version and the validation of schedules: they take strings apart character by
  character, and the modules take their results as inputs;
- argument vectors of restic beyond the tags of a backup and the grouping, policy
  and dry run of a forget: pure functions of flags, without state;
- the prompts before the probe one by one, hidden input, and the password
  generator: the prompts change nothing, so that `Setup` takes their result;
- `internal/restic/procattr_other.go`: the build for other systems, which sets
  `WaitDelay` and nothing else;
- the command tree, XDG paths and build metadata: declarative;
- `credentials.Delete`: without a caller.

## Plan

Done, in order of importance: `Setup` (what a setup leaves behind);
`ResticRunner` with its abstract `RunnerCall` (one call of restic); `BackupRun`
with its abstract `Batch` (several sets, one exit status); `Scheduler` (unit files and the scheduler);
`LogFile`, `Retention` and `Versions`; `Invocations` (the commands side by side);
and a proof module for each.

Left, in this order:

1. `BackupRun` composed with the setup as modelled in `Setup`, in place of its two
   generations of config and secrets, and with `RunnerCall` in place of its own
   steps of a call.
2. The summaries and the exit status of overlapping scheduled runs, from
   `Invocations` and `BackupRun` together.
3. Pure functions against a reference: the splitting and joining of credentials
   in `repourl.go`, and the answers and defaults of the prompter.
