------------------------------ MODULE BackupRun ------------------------------
(***************************************************************************)
(* One icebeam command that drives restic (internal/cli): `backup' or `run'*)
(* over several sets, or a maintenance command, while the user may cancel  *)
(* it and another icebeam may reconfigure the same config directory.       *)
(*                                                                         *)
(* The command reads its config once and its secrets for every set, the    *)
(* REST credentials itself, the repository password through restic. A call *)
(* of the runner is the promise of module ResticRunner: success, restic's  *)
(* exit status, the context's error, or another error.                     *)
(*                                                                         *)
(* Of a configuration only its generation is kept: what is on disk stems   *)
(* from the "old" or from the "new" setup, and no secret serves both.      *)
(***************************************************************************)
EXTENDS Integers, Sequences, FiniteSets

CONSTANTS
    SetNames,      \* names of backup sets
    Commands,      \* the commands to consider: "backup", "maintenance"
    Arguments,     \* the set names `backup' may be given
    ConfigSets,    \* generation -> the sets its config lists
    RestGens,      \* the generations whose repository wants REST credentials
    ResticCodes,   \* the non-zero exit statuses of restic, -1 for a signal
    Reconfigures   \* whether another icebeam is running `init'

Gens == {"old", "new"}
SecretNames == {"RepoPassword", "RESTUsername", "RESTPassword"}

exitOK == 0
exitError == 1
exitTotalFailure == 2
exitPartialFailure == 3

ExitIncompleteBackup == 3

\* How a call of the runner ends when restic's exit status is not reported:
\* no error, or an error that is no ExitError.
NoError == 0
OtherError == 256

\* The exit status of a process that has none yet.
Running == 256

ASSUME BackupRunAssumption ==
    /\ Commands \subseteq {"backup", "maintenance"}
    /\ Arguments \subseteq Seq(SetNames)
    /\ ConfigSets \in [Gens -> Seq(SetNames)]
    /\ \A gen \in Gens : ConfigSets[gen] # <<>>
    /\ RestGens \subseteq Gens
    /\ ResticCodes \subseteq Int
    /\ NoError \notin ResticCodes /\ OtherError \notin ResticCodes
    /\ Reconfigures \in BOOLEAN

VARIABLES
    config,    \* config.toml: a generation, or "partial" while it is written
    secrets,   \* the file store: secret -> generation, "partial", or "none"
    writing,   \* what the other icebeam still has to write
    command,   \* what this icebeam runs
    names,     \* its arguments
    pc,        \* where it is
    ctx,       \* "live" or "canceled"
    cfg,       \* the generation of the config it has loaded
    sets,      \* the sets to back up
    checkedVersion, \* the runner has checked restic's version
    env,       \* the secrets the running restic works with
    outcomes,  \* how the calls of the runner ended: NoError, OtherError, or a status
    exit,      \* the process's exit status
    started,   \* history: the sets restic was started for
    snapshots, \* history: <<repository, index of the set, complete>>
    causes     \* history: the sets that have met with a reason to fail; 0 stands for
               \* the command as a whole

diskVars == <<config, secrets, writing>>
runVars == <<command, names, pc, ctx, cfg, sets, checkedVersion, env, outcomes, exit,
             started, snapshots>>
vars == <<diskVars, runVars, causes>>

NoSecrets == [name \in SecretNames |-> "none"]

TypeOK ==
    /\ config \in Gens \cup {"partial"}
    /\ secrets \in [SecretNames -> Gens \cup {"partial", "none"}]
    /\ command \in Commands
    /\ writing \in Seq({"config"} \cup SecretNames)
    /\ names \in Arguments \cup {<<>>}
    /\ pc \in {"load", "resolve", "open", "call", "username", "password", "start",
               "restic", "report", "done"}
    /\ ctx \in {"live", "canceled"}
    /\ cfg \in Gens \cup {"none"}
    /\ checkedVersion \in BOOLEAN
    /\ env \in [SecretNames -> Gens \cup {"partial", "none"}]
    /\ sets \in Seq(SetNames \cup Commands)
    /\ outcomes \in Seq({NoError, OtherError} \cup ResticCodes)
    /\ Len(outcomes) <= Len(sets)
    /\ exit \in 0..255 \cup {Running}
    /\ started \subseteq 1..Len(sets)
    /\ snapshots \subseteq Gens \X (1..Len(sets)) \X BOOLEAN
    /\ causes \subseteq 0..Len(sets)

\* What a finished setup leaves in the file store.
Secrets(gen) ==
    [name \in SecretNames |->
        IF name = "RepoPassword" \/ gen \in RestGens THEN gen ELSE "none"]

Init ==
    /\ config = "old"
    /\ secrets = Secrets("old")
    /\ writing = IF Reconfigures
                 THEN <<"config", "RepoPassword">> \o
                      (IF "new" \in RestGens THEN <<"RESTUsername", "RESTPassword">> ELSE <<>>)
                 ELSE <<>>
    /\ command \in Commands
    /\ names \in IF command = "backup" THEN Arguments ELSE {<<>>}
    /\ pc = "load"
    /\ ctx = "live"
    /\ cfg = "none"
    /\ sets = <<>>
    /\ checkedVersion = FALSE
    /\ env = NoSecrets
    /\ outcomes = <<>>
    /\ exit = Running
    /\ started = {}
    /\ snapshots = {}
    /\ causes = {}

-----------------------------------------------------------------------------
(* The other icebeam and the user *)

\* A file is truncated, and then it has its new content: SaveFile and
\* fileStore.Set write in place.
Truncate ==
    /\ writing # <<>>
    /\ IF Head(writing) = "config"
       THEN config = "old" /\ config' = "partial" /\ UNCHANGED secrets
       ELSE /\ secrets[Head(writing)] \in {"old", "none"}
            /\ secrets' = [secrets EXCEPT ![Head(writing)] = "partial"]
            /\ UNCHANGED config
    /\ UNCHANGED <<writing, runVars, causes>>

Fill ==
    /\ writing # <<>>
    /\ IF Head(writing) = "config"
       THEN config = "partial" /\ config' = "new" /\ UNCHANGED secrets
       ELSE /\ secrets[Head(writing)] = "partial"
            /\ secrets' = [secrets EXCEPT ![Head(writing)] = "new"]
            /\ UNCHANGED config
    /\ writing' = Tail(writing)
    /\ UNCHANGED <<runVars, causes>>

\* SIGINT or SIGTERM reaches icebeam; further ones change nothing.
Cancel ==
    /\ ctx = "live"
    /\ pc # "done"
    /\ ctx' = "canceled"
    /\ UNCHANGED <<diskVars, command, names, pc, cfg, sets, checkedVersion, env, outcomes,
                   exit, started, snapshots, causes>>

-----------------------------------------------------------------------------
(* Until the runner is there *)

\* Execute: the code of an error is the exit status, of which eight bits count.
Exit(code) == pc' = "done" /\ exit' = code % 256

Fails ==
    /\ Exit(exitError)
    /\ causes' = causes \cup {0}
    /\ UNCHANGED <<diskVars, command, names, ctx, cfg, sets, checkedVersion, env, outcomes,
                   started, snapshots>>

\* config.Load
Load ==
    /\ pc = "load"
    /\ config \in Gens
    /\ cfg' = config
    /\ pc' = "resolve"
    /\ UNCHANGED <<diskVars, command, names, ctx, sets, checkedVersion, env, outcomes, exit,
                   started, snapshots, causes>>

\* A truncated config has no repository URL, which Validate refuses.
LoadFails == pc = "load" /\ config = "partial" /\ Fails

Listed(gen) == {ConfigSets[gen][i] : i \in DOMAIN ConfigSets[gen]}
Unknown == \E i \in DOMAIN names : names[i] \notin Listed(cfg)

\* resolveSets; a maintenance command makes one call, which stands for a set here.
Resolve ==
    /\ pc = "resolve"
    /\ ~Unknown
    /\ sets' = IF command = "maintenance" THEN <<command>>
               ELSE IF names = <<>> THEN ConfigSets[cfg]
               ELSE names
    /\ pc' = "open"
    /\ UNCHANGED <<diskVars, command, names, ctx, cfg, checkedVersion, env, outcomes, exit,
                   started, snapshots, causes>>

UnknownSet == pc = "resolve" /\ Unknown /\ Fails

\* The logger, the credential store and the runner.
Open ==
    /\ pc = "open"
    /\ pc' = "call"
    /\ UNCHANGED <<diskVars, command, names, ctx, cfg, sets, checkedVersion, env, outcomes,
                   exit, started, snapshots, causes>>

OpenFails == pc = "open" /\ Fails

-----------------------------------------------------------------------------
(* A call of the runner *)

\* Mutant: a set that failed is tried again.
SettleAndRetry(outcome) ==
    /\ outcomes' = IF outcome = NoError THEN Append(outcomes, outcome) ELSE outcomes
    /\ pc' = IF Len(outcomes') = Len(sets) THEN "report" ELSE "call"

\* Mutant: the loop ends with the first failure.
SettleAndStop(outcome) ==
    /\ outcomes' = Append(outcomes, outcome)
    /\ pc' = IF outcome # NoError \/ Len(outcomes') = Len(sets) THEN "report" ELSE "call"

\* Mutant: one call too many.
SettleOneMore(outcome) ==
    /\ outcomes' = Append(outcomes, outcome)
    /\ pc' = IF Len(outcomes') > Len(sets) THEN "report" ELSE "call"

\* The call has returned; the loop of backupSets goes on, whatever it returned.
Settle(outcome) ==
    /\ outcomes' = Append(outcomes, outcome)
    /\ pc' = IF Len(outcomes') = Len(sets) THEN "report" ELSE "call"

\* The set whose call is under way.
Turn == Len(outcomes) + 1

\* It meets with a reason to fail.
Meets(reason) == causes' = IF reason THEN causes \cup {Turn} ELSE causes

\* The call returns an error before restic runs.
CallFails ==
    /\ Settle(OtherError)
    /\ Meets(TRUE)
    /\ UNCHANGED <<diskVars, command, names, ctx, cfg, sets, checkedVersion, env, exit,
                   started, snapshots>>

\* Mutant: the environment is built once per runner.
CheckVersionKeepingEnv ==
    /\ pc = "call"
    /\ checkedVersion \/ ctx = "live"
    /\ checkedVersion' = TRUE
    /\ pc' = IF checkedVersion THEN "start" ELSE "username"
    /\ UNCHANGED <<diskVars, command, names, ctx, cfg, sets, env, outcomes, exit, started,
                   snapshots, causes>>

\* ensureVersion, at most once per runner if it succeeds; the environment is
\* built from nothing.
CheckVersion ==
    /\ pc = "call"
    /\ checkedVersion \/ ctx = "live"
    /\ checkedVersion' = TRUE
    /\ env' = NoSecrets
    /\ pc' = "username"
    /\ UNCHANGED <<diskVars, command, names, ctx, cfg, sets, outcomes, exit, started,
                   snapshots, causes>>

\* restic is too old, or `restic version' fails, is refused or is killed.
VersionFails == pc = "call" /\ ~checkedVersion /\ CallFails

\* The secrets on disk are all of this generation, as far as it needs them.
Serves(gen) ==
    /\ secrets["RepoPassword"] = gen
    /\ gen \in RestGens => secrets["RESTUsername"] = gen /\ secrets["RESTPassword"] = gen

ReadSecret(name, here, there) ==
    /\ pc = here
    /\ env' = [env EXCEPT ![name] = secrets[name]]
    /\ Meets(~Serves(cfg))
    /\ pc' = there
    /\ UNCHANGED <<diskVars, command, names, ctx, cfg, sets, checkedVersion, outcomes, exit,
                   started, snapshots>>

\* restServerEnv: without a username there are no REST credentials.
ReadUsername ==
    ReadSecret("RESTUsername", "username",
               IF secrets["RESTUsername"] = "none" THEN "start" ELSE "password")
ReadPassword == ReadSecret("RESTPassword", "password", "start")

\* restic starts, and reads the password file it was pointed at.
ResticStarts ==
    /\ pc = "start"
    /\ started' = started \cup {Turn}
    /\ env' = [env EXCEPT !["RepoPassword"] = secrets["RepoPassword"]]
    /\ Meets(~Serves(cfg))
    /\ pc' = "restic"
    /\ UNCHANGED <<diskVars, command, names, ctx, cfg, sets, checkedVersion, outcomes, exit,
                   snapshots>>

\* Mutant: the context is not looked at.
StartAnyway == ResticStarts

\* Start does not start anything once the context is canceled.
Start == ctx = "live" /\ ResticStarts

\* A secret cannot be read, the binary has vanished, or Start returns the
\* context's error.
StartFails == pc \in {"username", "password", "start"} /\ CallFails

\* RESTIC_REPOSITORY is the URL the runner was built with.
Repository == cfg

\* restic gets in with what it was given.
Opens ==
    /\ env["RepoPassword"] = Repository
    /\ Repository \in RestGens => env["RESTUsername"] = Repository /\ env["RESTPassword"] = Repository

\* The snapshot restic has created of the set it is at.
Created(complete) ==
    IF command = "backup"
    THEN snapshots \cup {<<Repository, Turn, complete>>}
    ELSE snapshots

ResticEnds(outcome, created) ==
    /\ pc = "restic"
    /\ Settle(outcome)
    /\ snapshots' = created
    /\ UNCHANGED <<diskVars, command, names, ctx, cfg, sets, checkedVersion, env, exit, started>>

ResticSucceeds ==
    /\ Opens
    /\ ctx = "live"
    /\ ResticEnds(NoError, Created(TRUE))
    /\ UNCHANGED causes

\* restic exits with a status of its own; with ExitIncompleteBackup there is a
\* snapshot, but not of everything.
ResticFails(code) ==
    /\ ctx = "live"
    /\ code = ExitIncompleteBackup /\ command = "backup" => Opens
    /\ ResticEnds(code, IF code = ExitIncompleteBackup THEN Created(FALSE) ELSE snapshots)
    /\ Meets(Opens)

\* restic is terminated, perhaps just after it has created its snapshot.
ResticCanceled ==
    /\ ctx = "canceled"
    /\ ResticEnds(OtherError, snapshots) \/ (Opens /\ ResticEnds(OtherError, Created(TRUE)))
    /\ Meets(TRUE)

-----------------------------------------------------------------------------
(* The exit status *)

\* Mutant: an incomplete backup is as good as a complete one.
FailuresButIncomplete ==
    {i \in DOMAIN outcomes : outcomes[i] \notin {NoError, ExitIncompleteBackup}}

Failures == {i \in DOMAIN outcomes : outcomes[i] # NoError}

\* backupSets
backupCode ==
    IF Failures = {} THEN exitOK
    ELSE IF Cardinality(Failures) = Len(sets) THEN exitTotalFailure
    ELSE exitPartialFailure

\* mapResticExit
mapResticExit ==
    CASE outcomes[1] = NoError    -> exitOK
      [] outcomes[1] = OtherError -> exitError
      [] OTHER                    -> outcomes[1]

Report ==
    /\ pc = "report"
    /\ Exit(IF command = "backup" THEN backupCode ELSE mapResticExit)
    /\ UNCHANGED <<diskVars, command, names, ctx, cfg, sets, checkedVersion, env, outcomes,
                   started, snapshots, causes>>

Done == pc = "done" /\ UNCHANGED vars

CommandStep ==
    \/ Load \/ LoadFails \/ Resolve \/ UnknownSet \/ Open \/ OpenFails
    \/ CheckVersion \/ VersionFails \/ ReadUsername \/ ReadPassword
    \/ Start \/ StartFails
    \/ ResticSucceeds \/ ResticCanceled \/ \E code \in ResticCodes : ResticFails(code)
    \/ Report

Next == Truncate \/ Fill \/ Cancel \/ CommandStep \/ Done

Spec == Init /\ [][Next]_vars

\* icebeam makes progress, and so does restic: a call of the runner returns
\* (CallReturns and CancelReturns of ResticRunner).
FairSpec == Spec /\ WF_vars(CommandStep)

-----------------------------------------------------------------------------
(* Properties *)

\* "Every set is attempted even if an earlier one fails; the exit code
\* distinguishes success, partial failure, and total failure" (backup): zero
\* only with a complete snapshot of every requested set, three only if one
\* set has its complete snapshot and another failed, two only if none
\* succeeded, and every requested set has had its call.
ExitTellsOutcome ==
    pc = "done" /\ command = "backup" /\ exit # exitError =>
        LET complete(i) == <<cfg, i, TRUE>> \in snapshots
        IN  /\ Len(outcomes) = Len(sets)
            /\ exit = exitOK => \A i \in DOMAIN sets : complete(i)
            /\ exit = exitPartialFailure =>
                   /\ \E i \in DOMAIN sets : complete(i)
                   /\ \E i \in DOMAIN sets : outcomes[i] # NoError
            /\ exit = exitTotalFailure => \A i \in DOMAIN sets : outcomes[i] # NoError

\* A set fails only for a reason of its own: its call was canceled or met with
\* trouble, restic failed although it had got in, or one of the secrets of this
\* very call was read while the disk held another generation's, or a mixture.
\* So another icebeam that reconfigures costs no set whose reads it does not
\* meet: not the ones after it when what it leaves serves the loaded config, nor
\* a restic it overtakes (env, restServerEnv, New's repository URL).  And the
\* command exits with an error only if a set, or the command as a whole, had
\* such a reason.
FailureHasACause ==
    /\ \A i \in DOMAIN outcomes : outcomes[i] # NoError => i \in causes
    /\ pc = "done" /\ exit # exitOK => causes # {}

\* Once the run is canceled no restic is started for the sets that remain, and
\* none ever before the version has been checked (command, ensureVersion).
StartsAreGated == [][started' # started => ctx = "live" /\ checkedVersion]_vars

\* The command ends, whatever fails on the way (backupSets).
RunEnds == <>(pc = "done")

\* The batch of a backup; a maintenance command is one that never begins.
BatchSize == IF command = "backup" THEN Len(sets) ELSE 0

Mark(outcome) == IF outcome = NoError THEN "ok" ELSE "failed"

BatchResults ==
    IF command = "backup" THEN [i \in DOMAIN outcomes |-> Mark(outcomes[i])] ELSE <<>>

BatchRunning == command = "backup" /\ pc = "restic"

BatchSaved ==
    IF command = "backup" THEN {i \in DOMAIN sets : <<cfg, i, TRUE>> \in snapshots} ELSE {}

BatchVerdict ==
    IF command # "backup" \/ exit = Running THEN "none"
    ELSE CASE exit = exitOK             -> "ok"
           [] exit = exitTotalFailure   -> "total"
           [] exit = exitPartialFailure -> "partial"
           [] OTHER                     -> "error"

B == INSTANCE Batch WITH
    size <- BatchSize, results <- BatchResults, running <- BatchRunning,
    saved <- BatchSaved, verdict <- BatchVerdict

\* "Every set is attempted even if an earlier one fails": whatever the version
\* check, the secrets another icebeam rewrites, restic and a cancellation do,
\* each set has its one turn in order, and its result is final; only a set whose
\* result is a success, or that was canceled at the last moment, has a complete
\* snapshot (backupSets, backupOneSet).
ImplementsBatch == B!Spec

=============================================================================
