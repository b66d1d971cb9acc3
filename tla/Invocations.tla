----------------------------- MODULE Invocations -----------------------------
(***************************************************************************)
(* The icebeam commands that run at the same time on one machine: backups  *)
(* of the scheduler, forget, restore, the reporting commands.  Each goes   *)
(* through the same stages in a process of its own (cli/backup.go,         *)
(* maintenance.go, restore.go, browse.go): the guard of the target, the    *)
(* config, the log, credentials and runner, the version gate, restic, the  *)
(* end of the log; a backup goes through restic once for each set.         *)
(*                                                                         *)
(* They meet in the log file (LogFile), in the directory a restore writes  *)
(* to and, with the icebeams of other machines, in the repository          *)
(* (Retention).  A command restic's own locks turn away is one whose       *)
(* restic fails.                                                           *)
(***************************************************************************)
EXTENDS Versions, FiniteSets

CONSTANTS
    Procs, Files, NoFile, maxLogSize, MaxRecords,               \* LogFile
    Sources, HostOf, TagsOf, Calendar, Policies, MaxTime,       \* Retention
    Here,            \* the host of this machine
    Installations,   \* pairs: the installed restic, [restic] min_version
    MaxCommands      \* bound on the number of commands

VARIABLES
    names, size, held, logger, written, disturbed,   \* LogFile
    now, snapshots, made,                            \* Retention
    installed,   \* the member of Installations the commands find
    target,      \* the directory of the restores: "missing", "empty", "filled", "file"
    pc,          \* process -> the stage its command is at
    command,     \* process -> its command
    occupied,    \* history: process -> the target has been in use since it began
    commands     \* how many commands have begun

Log == INSTANCE LogFile
Repository == INSTANCE Retention

ASSUME InvocationsAssumption ==
    /\ Log!LogAssumption
    /\ Repository!RetentionAssumption
    /\ MaxCommands \in Nat
    /\ \A i \in Installations :
          /\ Release(i.restic)
          /\ i.minimum = <<>> \/ ~Parses(i.minimum) \/ Release(i.minimum)

logVars == <<names, size, held, logger, written, disturbed>>
repositoryVars == <<now, snapshots, made>>
vars == <<logVars, repositoryVars, installed, target, pc, command, occupied, commands>>

Local == {s \in Sources : HostOf[s] = Here}

Commands ==
    [kind : {"backup"}, set : Local]
    \cup [kind : {"forget"}, policy : Policies, dryRun : BOOLEAN]
    \cup [kind : {"restore"}, force : BOOLEAN]
    \cup [kind : {"report", "browse"}]    \* prune, check, dump; snapshots, ls, find

Targets == {"missing", "empty", "filled", "file"}

Idle == [kind |-> "browse"]

Stages == {"idle", "guard", "readDir", "logger", "runner", "version", "restic",
           "end", "summary", "next", "close"}

TypeOK ==
    /\ Log!TypeOK
    /\ Repository!TypeOK
    /\ installed \in Installations
    /\ target \in Targets
    /\ pc \in [Procs -> Stages]
    /\ command \in [Procs -> Commands]
    /\ occupied \in [Procs -> BOOLEAN]
    /\ commands \in 0 .. MaxCommands

Init ==
    /\ Log!Init
    /\ Repository!Init
    /\ installed \in Installations
    /\ target = "missing"
    /\ pc = [p \in Procs |-> "idle"]
    /\ command = [p \in Procs |-> Idle]
    /\ occupied = [p \in Procs |-> FALSE]
    /\ commands = 0

InTheWay(t) == t \in {"filled", "file"}

\* p goes on to the given stage of its command.
Goes(p, stage) ==
    /\ pc' = [pc EXCEPT ![p] = stage]
    /\ UNCHANGED <<installed, target, command, occupied, commands>>

\* The process of p ends.
Ends(p) ==
    /\ pc' = [pc EXCEPT ![p] = "idle"]
    /\ command' = [command EXCEPT ![p] = Idle]
    /\ occupied' = [occupied EXCEPT ![p] = FALSE]
    /\ UNCHANGED <<installed, target, commands>>

-----------------------------------------------------------------------------
(* Before the log *)

\* A restore looks at its target first; any other command has loaded its
\* config, or it has ended without a trace.
Begin(p, c) ==
    /\ pc[p] = "idle"
    /\ commands < MaxCommands
    /\ commands' = commands + 1
    /\ command' = [command EXCEPT ![p] = c]
    /\ pc' = [pc EXCEPT ![p] = IF c.kind = "restore" THEN "guard" ELSE "logger"]
    /\ occupied' = [occupied EXCEPT ![p] = c.kind = "restore" /\ InTheWay(target)]
    /\ UNCHANGED <<logVars, repositoryVars, installed, target>>

\* config.Load, the path and level of the log and its directory: any of them
\* may be an error.
LoadConfig(p) == Goes(p, "logger") \/ Ends(p)

\* guardRestoreTarget: os.Stat, unless forced.
GuardPasses(p) ==
    /\ pc[p] = "guard"
    /\ command[p].force \/ target = "missing"
    /\ LoadConfig(p)
    /\ UNCHANGED <<logVars, repositoryVars>>

GuardLooks(p) ==
    /\ pc[p] = "guard"
    /\ ~command[p].force
    /\ target \in {"empty", "filled"}
    /\ Goes(p, "readDir")
    /\ UNCHANGED <<logVars, repositoryVars>>

\* A file is in the way, or os.Stat fails for a reason of its own.
GuardRefuses(p) ==
    /\ pc[p] = "guard"
    /\ ~command[p].force
    /\ Ends(p)
    /\ UNCHANGED <<logVars, repositoryVars>>

\* os.ReadDir, of what the target is by then.  Mutant: any directory will do.
ReadDirIgnoringEntries(p) ==
    /\ pc[p] = "readDir"
    /\ IF target \in {"empty", "filled"}
       THEN LoadConfig(p)
       ELSE Ends(p)
    /\ UNCHANGED <<logVars, repositoryVars>>

ReadDir(p) ==
    /\ pc[p] = "readDir"
    /\ IF target = "empty"
       THEN LoadConfig(p)
       ELSE Ends(p)
    /\ UNCHANGED <<logVars, repositoryVars>>

-----------------------------------------------------------------------------
(* With the log *)

\* buildLogger.
OpenLogger(p) ==
    /\ pc[p] = "logger"
    /\ Log!New(p)
    /\ Goes(p, CASE logger'[p] = "ready" -> "runner"
                 [] logger'[p] = "failed" -> "close"
                 [] OTHER -> "logger")
    /\ UNCHANGED repositoryVars

\* The browse commands write no start and end records.
Recorded(c) == c.kind # "browse"

AfterRestic(c) == IF Recorded(c) THEN "end" ELSE "close"

\* credentials.Open and restic.New, then LogStart.
OpenRunner(p) ==
    /\ pc[p] = "runner"
    /\ Goes(p, "version")
    /\ IF Recorded(command[p]) THEN Log!Append(p) ELSE UNCHANGED logVars
    /\ UNCHANGED repositoryVars

OpenRunnerFails(p) ==
    /\ pc[p] = "runner"
    /\ Goes(p, "close")
    /\ UNCHANGED <<logVars, repositoryVars>>

\* ensureVersion: without a minimum there is no check.
Accepted(i) == i.minimum = <<>> \/ (Parses(i.minimum) /\ ~Older(i.restic, i.minimum))

CheckVersion(p) ==
    /\ pc[p] = "version"
    /\ \/ Accepted(installed) /\ Goes(p, "restic")
       \/ Goes(p, AfterRestic(command[p]))
    /\ UNCHANGED <<logVars, repositoryVars>>

\* Each line restic prints is a record; two are left for the end.
LogOutput(p) ==
    /\ pc[p] = "restic"
    /\ written[p] + 2 < MaxRecords
    /\ Log!Append(p)
    /\ Goes(p, "restic")
    /\ UNCHANGED repositoryVars

ResticBacksUp(p) ==
    /\ command[p].kind = "backup"
    /\ Repository!Backup(command[p].set)
    /\ UNCHANGED target

\* Mutant: what the policy keeps is removed.
ResticForgetsKept(p) ==
    /\ command[p].kind = "forget"
    /\ snapshots' = {x \in snapshots : x \in Repository!Forgotten(command[p].policy, FALSE)}
    /\ UNCHANGED <<now, made, target>>

ResticForgets(p) ==
    /\ command[p].kind = "forget"
    /\ Repository!Forget(command[p].policy, command[p].dryRun)
    /\ UNCHANGED target

\* restic creates the directory when it has to, and may stop half-way.
ResticRestores(p) ==
    /\ command[p].kind = "restore"
    /\ target # "file"
    /\ target' = "filled"
    /\ UNCHANGED repositoryVars

ResticLeavesAll(p) == UNCHANGED <<repositoryVars, target>>

Restic(p) ==
    /\ pc[p] = "restic"
    /\ ResticBacksUp(p) \/ ResticForgets(p) \/ ResticRestores(p) \/ ResticLeavesAll(p)
    /\ pc' = [pc EXCEPT ![p] = AfterRestic(command[p])]
    /\ occupied' = [q \in Procs |-> occupied[q] /\ InTheWay(target')]
    /\ UNCHANGED <<logVars, installed, command, commands>>

\* LogEnd, and the summary of a backup that has one.
LogEnd(p) ==
    /\ pc[p] = "end"
    /\ Log!Append(p)
    /\ IF command[p].kind = "backup" THEN Goes(p, "summary") \/ Goes(p, "next")
                                     ELSE Goes(p, "close")
    /\ UNCHANGED repositoryVars

LogSummary(p) ==
    /\ pc[p] = "summary"
    /\ Log!Append(p)
    /\ Goes(p, "next")
    /\ UNCHANGED repositoryVars

\* backupSets goes on to the next set, whatever became of the last.
NextSet(p) ==
    /\ pc[p] = "next"
    /\ command[p].kind = "backup"
    /\ written[p] + 1 < MaxRecords
    /\ Log!Append(p)
    /\ \E s \in Local : command' = [command EXCEPT ![p].set = s]
    /\ pc' = [pc EXCEPT ![p] = "version"]
    /\ UNCHANGED <<repositoryVars, installed, target, occupied, commands>>

LastSet(p) ==
    /\ pc[p] = "next"
    /\ Goes(p, "close")
    /\ UNCHANGED <<logVars, repositoryVars>>

\* The deferred Close, and the end of the process.
CloseLogger(p) ==
    /\ pc[p] = "close"
    /\ Log!Close(p)
    /\ Ends(p)
    /\ UNCHANGED repositoryVars

-----------------------------------------------------------------------------
(* Around the commands *)

TimePasses ==
    /\ Repository!Tick
    /\ UNCHANGED <<logVars, installed, target, pc, command, occupied, commands>>

\* The icebeam of another host has finished with restic.
OtherHost ==
    /\ \/ \E s \in Sources \ Local : Repository!Backup(s)
       \/ \E policy \in Policies : Repository!Forget(policy, FALSE)
    /\ UNCHANGED <<logVars, installed, target, pc, command, occupied, commands>>

\* Somebody else writes to the target, or clears it; of no interest unless a
\* restore that cares is on its way to restic.
Cares(p) ==
    /\ command[p].kind = "restore"
    /\ ~command[p].force
    /\ pc[p] \notin {"end", "close"}

TargetChanges(t) ==
    /\ \E p \in Procs : Cares(p)
    /\ target' = t
    /\ occupied' = [q \in Procs |-> occupied[q] /\ InTheWay(t)]
    /\ UNCHANGED <<logVars, repositoryVars, installed, pc, command, commands>>

Step(p) ==
    \/ \E c \in Commands : Begin(p, c)
    \/ GuardPasses(p) \/ GuardLooks(p) \/ GuardRefuses(p) \/ ReadDir(p)
    \/ OpenLogger(p) \/ OpenRunner(p) \/ OpenRunnerFails(p) \/ CheckVersion(p)
    \/ LogOutput(p) \/ Restic(p)
    \/ LogEnd(p) \/ LogSummary(p) \/ NextSet(p) \/ LastSet(p) \/ CloseLogger(p)

Next ==
    \/ \E p \in Procs : Step(p)
    \/ TimePasses \/ OtherHost
    \/ \E t \in Targets : TargetChanges(t)

Spec == Init /\ [][Next]_vars

-----------------------------------------------------------------------------
(* Properties *)

\* Commands that open, rotate and write the log side by side let no file grow
\* beyond the threshold and what each may still write (logging.go:29-32).
LogIsBounded == Log!LogIsBounded

\* A command that no other has disturbed renames only a log that has reached
\* the threshold: the backup it replaces is not lost to a young log
\* (logging.go:192-193).
RotationKeepsHistory == Log!RotationKeepsHistory

\* No forget, whatever its policy and whatever runs beside it, takes the last
\* snapshot of a set (maintenance.go:182-183).
LatestSurvives == Repository!LatestSurvives

\* A forget that removes anything leaves of every set what one of the policies
\* keeps of that set by itself (maintenance.go:58-59).
PrunedIndependently == Repository!PrunedIndependently

\* Whatever the commands do to each other, the repository only sees whole
\* backups and whole forgets of the configured policies.
ImplementsRepository == Repository!Spec

\* A command whose log is missing, small or too large gets its logger; only a
\* rotation of another process between its steps can deny it (logging.go:192).
FailsInARaceOnly == Log!FailsInARaceOnly

\* restic is not let loose on a target that something has been in since the
\* command began, however long ago the guard looked (restore.go:54-55: refuses
\* to write into a non-empty target unless --force is given).
FilledTargetIsRefused ==
    \A p \in Procs :
        pc[p] = "restic" /\ command[p].kind = "restore" /\ ~command[p].force => ~occupied[p]

\* No command runs a restic whose release is below the minimum
\* (version.go:35-37).
StartedIsRecent ==
    \A p \in Procs :
        pc[p] = "restic" /\ installed.minimum # <<>> =>
            /\ Parses(installed.minimum)
            /\ Number(installed.restic) >= Number(installed.minimum)
=============================================================================
