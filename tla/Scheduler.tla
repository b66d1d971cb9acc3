------------------------------ MODULE Scheduler ------------------------------
(***************************************************************************)
(* `icebeam schedule' (internal/cli/schedule.go): the unit files of one    *)
(* user, the scheduler that reads them (launchd, or systemd --user), and   *)
(* the install or uninstall that may be changing both.                     *)
(*                                                                         *)
(* The scheduler is modelled by what the code uses it for: `load' takes up *)
(* an agent that is neither loaded nor disabled, and may exit 0 when it    *)
(* took up nothing, `unload' drops one it finds loaded, `daemon-reload'    *)
(* makes a running timer follow its file, `enable --now' starts it now and *)
(* at every login, `disable --now' ends both.                              *)
(***************************************************************************)
EXTENDS Sequences

CONSTANTS
    Platforms,   \* the operating systems to consider: "darwin", "linux"
    Calendars,   \* raw OnCalendar expressions
    ToolFails    \* whether launchctl and systemctl may fail, or be missing

Intervals == {"hourly", "daily", "weekly"}
Schedules == Intervals \cup Calendars

ASSUME SchedulerAssumption ==
    /\ Platforms \subseteq {"darwin", "linux"}
    /\ ToolFails \in BOOLEAN
    /\ Calendars \cap (Intervals \cup {"", "error", "none", "removed", "absent", "partial"}) = {}

VARIABLES
    goos,      \* the platform
    files,     \* unit file -> "absent", "partial", or the schedule it was written for
    enabled,   \* systemd starts the timer at login; launchd has not disabled the agent
    active,    \* the schedule the scheduler runs icebeam on, or "none"
    pc,        \* what the command is at, "idle" when none runs
    todo,      \* the unit files it has not come to yet
    spec,      \* the schedule it installs
    reported,  \* the schedule the last command said it installed, "removed", or "none"
    ignored,   \* history: a running schedule survived its deactivation
    silent     \* history: the last `launchctl load' exited 0 and loaded nothing

vars == <<goos, files, enabled, active, pc, todo, spec, reported, ignored, silent>>

Units == {"service", "timer", "agent"}
UnitFiles == IF goos = "linux" THEN <<"service", "timer">> ELSE <<"agent">>
TimerFile == IF goos = "linux" THEN "timer" ELSE "agent"

TypeOK ==
    /\ goos \in {"darwin", "linux"}
    /\ files \in [Units -> Schedules \cup {"absent", "partial"}]
    /\ enabled \in BOOLEAN
    /\ active \in Schedules \cup {"none"}
    /\ pc \in {"idle", "write", "daemon-reload", "enable", "unload", "load",
               "deactivate", "remove", "reloadRemoved"}
    /\ todo \in Seq(Units)
    /\ spec \in Schedules \cup {"none"}
    /\ reported \in Schedules \cup {"removed", "none"}
    /\ ignored \in BOOLEAN
    /\ silent \in BOOLEAN

Init ==
    /\ goos \in Platforms
    /\ files = [u \in Units |-> "absent"]
    /\ enabled \in IF goos = "darwin" THEN BOOLEAN ELSE {FALSE}
    /\ active = "none"
    /\ pc = "idle"
    /\ todo = <<>>
    /\ spec = "none"
    /\ reported = "none"
    /\ ignored = FALSE
    /\ silent = FALSE

\* The command ends and says so.
Ends(report) ==
    /\ pc' = "idle"
    /\ todo' = <<>>
    /\ spec' = "none"
    /\ reported' = report

Complete(u) == files[u] \in Schedules

-----------------------------------------------------------------------------
(* Installing *)

\* Mutant: no default interval.
NewScheduleAsGiven(interval, calendar) ==
    IF calendar # "" THEN (IF interval # "" THEN "error" ELSE calendar) ELSE interval

NewSchedule(interval, calendar) ==
    IF calendar # "" THEN (IF interval # "" THEN "error" ELSE calendar)
    ELSE IF interval = "" THEN "daily" ELSE interval

\* GenerateLaunchd has no use for a raw calendar expression.
Generates(sched) == sched # "error" /\ (goos = "darwin" => sched \notin Calendars)

\* A schedule that cannot be generated is an error that changes nothing.
StartInstall(interval, calendar) ==
    /\ pc = "idle"
    /\ Generates(NewSchedule(interval, calendar))
    /\ pc' = "write"
    /\ spec' = NewSchedule(interval, calendar)
    /\ todo' = UnitFiles
    /\ reported' = "none"
    /\ UNCHANGED <<goos, files, enabled, active, ignored, silent>>

\* writeUnitFile truncates the file and then fills it.
Truncate ==
    /\ pc = "write"
    /\ files[Head(todo)] # "partial"
    /\ files' = [files EXCEPT ![Head(todo)] = "partial"]
    /\ UNCHANGED <<goos, enabled, active, pc, todo, spec, reported, ignored, silent>>

Fill ==
    /\ pc = "write"
    /\ files[Head(todo)] = "partial"
    /\ files' = [files EXCEPT ![Head(todo)] = spec]
    /\ todo' = Tail(todo)
    /\ pc' = IF todo' # <<>> THEN "write"
             ELSE IF goos = "linux" THEN "daemon-reload" ELSE "unload"
    /\ UNCHANGED <<goos, enabled, active, spec, reported, ignored, silent>>

WriteFails ==
    /\ pc = "write"
    /\ Ends("none")
    /\ UNCHANGED <<goos, files, enabled, active, ignored, silent>>

\* What daemon-reload may make of the running timer; one whose file is gone
\* may go on or not.
Reloaded ==
    IF active = "none" THEN {"none"}
    ELSE IF Complete("timer") THEN {files["timer"]} ELSE {active, "none"}

DaemonReload ==
    /\ pc = "daemon-reload"
    /\ active' \in Reloaded
    /\ pc' = "enable"
    /\ UNCHANGED <<goos, files, enabled, todo, spec, reported, ignored, silent>>

Enable ==
    /\ pc = "enable"
    /\ Complete("timer") /\ Complete("service")
    /\ enabled' = TRUE
    /\ active' = files["timer"]
    /\ ignored' = FALSE
    /\ Ends(spec)
    /\ UNCHANGED <<goos, files, silent>>

\* The running agent is dropped before the new one is loaded; a failure to
\* do so is not looked at.
Unload ==
    /\ pc = "unload"
    /\ active' = "none" \/ (ToolFails /\ active' = active)
    /\ pc' = "load"
    /\ UNCHANGED <<goos, files, enabled, todo, spec, reported, ignored, silent>>

Load ==
    /\ pc = "load"
    /\ active = "none" /\ enabled
    /\ Complete("agent")
    /\ active' = files["agent"]
    /\ ignored' = FALSE
    /\ silent' = FALSE
    /\ Ends(spec)
    /\ UNCHANGED <<goos, files, enabled>>

\* The agent is still loaded, is disabled, or is not one this session can load.
NotLoadable == ToolFails \/ (pc = "load" /\ (active # "none" \/ ~enabled))

\* launchctl takes up nothing and exits 0 all the same, which is all the
\* command looks at.
LoadDoesNothing ==
    /\ pc = "load"
    /\ NotLoadable
    /\ silent' = TRUE
    /\ Ends(spec)
    /\ UNCHANGED <<goos, files, enabled, active, ignored>>

\* Mutant: a failed activation is not looked at.
ActivationFailsUnseen ==
    /\ pc \in {"daemon-reload", "enable", "load"}
    /\ NotLoadable
    /\ Ends(spec)
    /\ UNCHANGED <<goos, files, enabled, active, ignored, silent>>

\* The units are written but could not be activated, or the timer is enabled
\* but not started: the user is told how to do it by hand, and the command
\* succeeds.
ActivationFails ==
    /\ pc \in {"daemon-reload", "enable", "load"}
    /\ NotLoadable
    /\ enabled' \in {enabled, enabled \/ pc = "enable"}
    /\ Ends("none")
    /\ UNCHANGED <<goos, files, active, ignored, silent>>

-----------------------------------------------------------------------------
(* Uninstalling *)

Installed == \E i \in DOMAIN UnitFiles : files[UnitFiles[i]] # "absent"

\* Mutant: the files are removed without deactivating the timer or the agent.
StartUninstallRemoving ==
    /\ pc = "idle"
    /\ Installed
    /\ pc' = "remove"
    /\ todo' = IF goos = "linux" THEN <<"timer", "service">> ELSE <<"agent">>
    /\ reported' = "none"
    /\ UNCHANGED <<goos, files, enabled, active, spec, ignored, silent>>

StartUninstall ==
    /\ pc = "idle"
    /\ Installed
    /\ pc' = "deactivate"
    /\ todo' = IF goos = "linux" THEN <<"timer", "service">> ELSE <<"agent">>
    /\ reported' = "none"
    /\ UNCHANGED <<goos, files, enabled, active, spec, ignored, silent>>

\* Without unit files there is nothing to do.
NothingInstalled ==
    /\ pc = "idle"
    /\ ~Installed
    /\ Ends("removed")
    /\ UNCHANGED <<goos, files, enabled, active, ignored, silent>>

\* disable --now needs the timer's file, unload has to read the plist.
Deactivatable ==
    IF goos = "linux" THEN files["timer"] # "absent" ELSE Complete("agent")

\* Mutant: disable without --now, an unload that waits for the next login.
DeactivateLater ==
    /\ pc = "deactivate"
    /\ Deactivatable
    /\ enabled' = (enabled /\ goos = "darwin")
    /\ pc' = "remove"
    /\ UNCHANGED <<goos, files, active, todo, spec, reported, ignored, silent>>

Deactivate ==
    /\ pc = "deactivate"
    /\ Deactivatable
    /\ enabled' = (enabled /\ goos = "darwin")
    /\ active' = "none"
    /\ pc' = "remove"
    /\ UNCHANGED <<goos, files, todo, spec, reported, ignored, silent>>

\* Its failure is not looked at.
DeactivateFails ==
    /\ pc = "deactivate"
    /\ ToolFails \/ ~Deactivatable
    /\ ignored' = (ignored \/ active # "none")
    /\ pc' = "remove"
    /\ UNCHANGED <<goos, files, enabled, active, todo, spec, reported, silent>>

\* The files that exist are removed, the timer before its service.
Remove ==
    /\ pc = "remove"
    /\ files' = [files EXCEPT ![Head(todo)] = "absent"]
    /\ todo' = Tail(todo)
    /\ IF todo' # <<>> THEN UNCHANGED <<pc, spec, reported>>
       ELSE IF goos = "linux" THEN pc' = "reloadRemoved" /\ UNCHANGED <<spec, reported>>
       ELSE pc' = "idle" /\ spec' = "none" /\ reported' = "removed"
    /\ UNCHANGED <<goos, enabled, active, ignored, silent>>

RemoveFails ==
    /\ pc = "remove"
    /\ files[Head(todo)] # "absent"
    /\ Ends("none")
    /\ UNCHANGED <<goos, files, enabled, active, ignored, silent>>

\* The last daemon-reload; its failure is not looked at.
ReloadRemoved ==
    /\ pc = "reloadRemoved"
    /\ active' \in Reloaded \/ (ToolFails /\ active' = active)
    /\ Ends("removed")
    /\ UNCHANGED <<goos, files, enabled, ignored, silent>>

-----------------------------------------------------------------------------
(* The environment *)

\* The command is killed.
Kill ==
    /\ pc # "idle"
    /\ Ends("none")
    /\ UNCHANGED <<goos, files, enabled, active, ignored, silent>>

\* The user logs in again, perhaps after a reboot: launchd loads the agents it
\* finds and has not been told to disable, systemd starts the timers that are
\* enabled.
Login ==
    /\ pc = "idle"
    /\ active' = IF Complete(TimerFile) /\ enabled THEN files[TimerFile] ELSE "none"
    /\ ignored' = FALSE
    /\ silent' = (silent /\ ~enabled)
    /\ UNCHANGED <<goos, files, enabled, pc, todo, spec, reported>>

Next ==
    \/ \E interval \in Intervals \cup {""}, calendar \in Calendars \cup {""} :
          StartInstall(interval, calendar)
    \/ Truncate \/ Fill \/ WriteFails
    \/ DaemonReload \/ Enable \/ Unload \/ Load \/ LoadDoesNothing
    \/ ActivationFails
    \/ StartUninstall \/ NothingInstalled \/ Deactivate \/ DeactivateFails
    \/ Remove \/ RemoveFails \/ ReloadRemoved
    \/ Kill \/ Login

Spec == Init /\ [][Next]_vars

-----------------------------------------------------------------------------
(* Properties *)

\* "install generates and installs the scheduler unit ... that runs `icebeam run`
\* on the configured interval": after "Scheduled `icebeam run` ..." the scheduler
\* runs icebeam on just that schedule, and goes on doing so over logins and
\* reboots.
ScheduledIsActive ==
    pc = "idle" /\ reported \in Schedules => active = reported

\* After "Scheduled `icebeam run` ...", whatever earlier installs and uninstalls
\* were killed or failed half-way, every unit file holds just that schedule, over
\* logins and reboots, and the scheduler runs icebeam on it, unless launchctl
\* has taken it up in appearance only.  Of an agent launchd has not disabled the
\* next login makes up for that.
ScheduledIsInPlace ==
    pc = "idle" /\ reported \in Schedules =>
        /\ \A i \in DOMAIN UnitFiles : files[UnitFiles[i]] = reported
        /\ active = reported \/ (silent /\ goos = "darwin")

\* statusLaunchd and statusSystemd look at the file alone.
StatusScheduled == files[TimerFile] # "absent"

\* Unless launchctl or systemctl has failed to deactivate it, a running
\* schedule has its unit file, so `status' tells of it and `uninstall' can
\* still end it: at no point is a command killed between the two the wrong way
\* round.
NoOrphanSchedule == active # "none" /\ ~ignored => StatusScheduled

\* An uninstall that reports the units removed, or that there are none, leaves
\* nothing that runs icebeam unless its deactivation has failed: not after a kill
\* of an earlier install or uninstall, and not by a daemon-reload that revives
\* the timer.
RemovedIsInactive == reported = "removed" /\ ~ignored => active = "none"

\* "uninstall removes the scheduler unit icebeam installed and deactivates it."
UninstallDeactivates == pc = "idle" /\ reported = "removed" => active = "none"

=============================================================================
