--------------------------- MODULE SchedulerProofs ---------------------------
(***************************************************************************)
(* What of Scheduler holds on either platform and for every set of         *)
(* calendar expressions.                                                   *)
(***************************************************************************)
EXTENDS Scheduler, TLAPS

\* The unit files an install has yet to write, and the ones an uninstall has
\* yet to remove, are an end of the list.
TodoInv ==
    /\ pc = "write" =>
          todo \in IF goos = "linux" THEN {<<"service", "timer">>, <<"timer">>} ELSE {<<"agent">>}
    /\ pc \in {"deactivate", "remove"} =>
          todo \in IF goos = "linux" THEN {<<"timer", "service">>, <<"service">>} ELSE {<<"agent">>}

\* Each command takes the steps of its platform.
PlatformInv ==
    /\ pc \in {"daemon-reload", "enable", "reloadRemoved"} => goos = "linux"
    /\ pc \in {"unload", "load"} => goos = "darwin"

WrittenFor(sched) ==
    IF goos = "linux" THEN files["service"] = sched /\ files["timer"] = sched
    ELSE files["agent"] = sched

\* An install activates what it has written to all the unit files.
WrittenInv ==
    /\ pc \in {"write", "daemon-reload", "enable", "unload", "load"} => spec \in Schedules
    /\ pc = "write" /\ todo = <<"timer">> => files["service"] = spec
    /\ pc \in {"daemon-reload", "enable", "unload", "load"} => WrittenFor(spec)

\* What the last command has reported stays so until the next one.
ReportInv ==
    /\ pc # "idle" => reported = "none"
    /\ reported \in Schedules =>
          /\ WrittenFor(reported)
          /\ active = reported \/ (silent /\ goos = "darwin")
          /\ goos = "linux" \/ ~silent => enabled

\* Files are removed only after the deactivation.
RemovalInv == pc \in {"remove", "reloadRemoved"} => active = "none" \/ ignored

IInv ==
    /\ TypeOK
    /\ TodoInv
    /\ PlatformInv
    /\ WrittenInv
    /\ ReportInv
    /\ RemovalInv
    /\ NoOrphanSchedule

-----------------------------------------------------------------------------
(* The lists of unit files *)

\* The heads and tails of the lists a command goes through.
LEMMA Lists ==
    /\ Head(<<"service", "timer">>) = "service" /\ Tail(<<"service", "timer">>) = <<"timer">>
    /\ Head(<<"timer", "service">>) = "timer" /\ Tail(<<"timer", "service">>) = <<"service">>
    /\ Head(<<"timer">>) = "timer" /\ Tail(<<"timer">>) = <<>>
    /\ Head(<<"service">>) = "service" /\ Tail(<<"service">>) = <<>>
    /\ Head(<<"agent">>) = "agent" /\ Tail(<<"agent">>) = <<>>
    /\ <<"timer">> # <<>> /\ <<"service">> # <<>>
    /\ <<"service", "timer">> # <<"timer">> /\ <<"timer", "service">> # <<"service">>
    /\ {<<>>, <<"service">>, <<"timer">>, <<"agent">>,
        <<"service", "timer">>, <<"timer", "service">>} \subseteq Seq(Units)
  BY DEF Units

-----------------------------------------------------------------------------
(* The invariant *)

LEMMA SchedulesAreNot ==
    /\ "none" \notin Schedules /\ "removed" \notin Schedules
    /\ "absent" \notin Schedules /\ "partial" \notin Schedules
  BY SchedulerAssumption DEF Schedules, Intervals

LEMMA InitIInv == Init => IInv
<1> SUFFICES ASSUME Init PROVE IInv
  OBVIOUS
<1>1. TypeOK
  BY SchedulerAssumption, Lists DEF Init, TypeOK
<1>2. TodoInv /\ PlatformInv /\ RemovalInv /\ NoOrphanSchedule
  BY DEF Init, TodoInv, PlatformInv, RemovalInv, NoOrphanSchedule
<1>3. WrittenInv /\ ReportInv
  BY SchedulesAreNot DEF Init, WrittenInv, ReportInv
<1> QED
  BY <1>1, <1>2, <1>3 DEF IInv

\* An install starts with every unit file to write.
LEMMA StartInstallStep ==
  ASSUME IInv, NEW interval \in Intervals \cup {""}, NEW calendar \in Calendars \cup {""},
         StartInstall(interval, calendar)
  PROVE  IInv'
<1> USE DEF IInv, StartInstall
<1>1. NewSchedule(interval, calendar) \in Schedules
  BY DEF Generates, NewSchedule, Schedules, Intervals
<1>2. TypeOK'
  BY <1>1, Lists DEF TypeOK, UnitFiles, Units
<1>3. (TodoInv /\ PlatformInv /\ RemovalInv /\ NoOrphanSchedule)'
  BY DEF TodoInv, PlatformInv, RemovalInv, NoOrphanSchedule, StatusScheduled, TimerFile, UnitFiles
<1>4. (WrittenInv /\ ReportInv)'
  BY <1>1, Lists, SchedulesAreNot DEF WrittenInv, ReportInv, UnitFiles
<1> QED
  BY <1>2, <1>3, <1>4

\* Writing the unit files, one after the other.
LEMMA WriteStep == IInv /\ (Truncate \/ Fill \/ WriteFails) => IInv'
<1> SUFFICES ASSUME IInv, pc = "write" PROVE (Truncate \/ Fill \/ WriteFails) => IInv'
  BY DEF Truncate, Fill, WriteFails
<1> USE DEF IInv
<1>0. Head(todo) \in Units /\ todo # <<>> /\ Tail(todo) \in Seq(Units)
  BY Lists DEF TodoInv, Units
<1>1. Truncate => IInv'
  <2> SUFFICES ASSUME Truncate PROVE IInv'
    OBVIOUS
  <2>1. TypeOK'
    BY <1>0 DEF Truncate, TypeOK
  <2>2. (TodoInv /\ PlatformInv /\ RemovalInv)'
    BY DEF Truncate, TodoInv, PlatformInv, RemovalInv
  <2>3. NoOrphanSchedule'
    BY <1>0 DEF Truncate, TypeOK, NoOrphanSchedule, StatusScheduled, TimerFile, Units
  <2>4. WrittenInv'
    BY Lists DEF Truncate, TypeOK, WrittenInv, Units
  <2>5. ReportInv'
    BY SchedulesAreNot DEF Truncate, ReportInv
  <2> QED
    BY <2>1, <2>2, <2>3, <2>4, <2>5
<1>2. Fill => IInv'
  <2> SUFFICES ASSUME Fill PROVE IInv'
    OBVIOUS
  <2>0. spec \in Schedules
    BY DEF WrittenInv
  <2>1. TypeOK'
    BY <1>0, <2>0 DEF Fill, TypeOK
  <2>2. (TodoInv /\ PlatformInv /\ RemovalInv)'
    BY Lists DEF Fill, TypeOK, TodoInv, PlatformInv, RemovalInv
  <2>3. NoOrphanSchedule'
    BY <1>0, <2>0, SchedulesAreNot
    DEF Fill, TypeOK, NoOrphanSchedule, StatusScheduled, TimerFile, Units
  <2>4. WrittenInv'
    BY <2>0, Lists DEF Fill, TypeOK, TodoInv, WrittenInv, WrittenFor, Units
  <2>5. ReportInv'
    BY SchedulesAreNot DEF Fill, ReportInv
  <2> QED
    BY <2>1, <2>2, <2>3, <2>4, <2>5
<1>3. WriteFails => IInv'
  BY Lists, SchedulesAreNot
  DEF WriteFails, Ends, TypeOK, TodoInv, PlatformInv, WrittenInv, ReportInv, RemovalInv,
      NoOrphanSchedule, StatusScheduled, TimerFile
<1> QED
  BY <1>1, <1>2, <1>3

\* A command that ends without a report keeps the invariant, whatever it had
\* done to the enablement.
LEMMA EndsQuietly ==
  ASSUME IInv, Ends("none"), enabled' \in BOOLEAN, UNCHANGED <<goos, files, active, ignored, silent>>
  PROVE  IInv'
BY Lists, SchedulesAreNot
DEF Ends, IInv, TypeOK, TodoInv, PlatformInv, WrittenInv, ReportInv, RemovalInv,
    NoOrphanSchedule, StatusScheduled, TimerFile

\* The tools that make the scheduler run what has been written.
LEMMA ActivationStep ==
  IInv /\ (DaemonReload \/ Enable \/ Unload \/ Load \/ LoadDoesNothing \/ ActivationFails)
    => IInv'
<1> SUFFICES ASSUME IInv, DaemonReload \/ Enable \/ Unload \/ Load \/ LoadDoesNothing
                          \/ ActivationFails
             PROVE  IInv'
  OBVIOUS
<1> USE DEF IInv
<1>1. CASE DaemonReload
  <2>1. active' \in {active, "none", files["timer"]} /\ files["timer"] = spec /\ spec \in Schedules
    BY <1>1 DEF DaemonReload, Reloaded, PlatformInv, WrittenInv, WrittenFor
  <2>2. TypeOK'
    BY <1>1, <2>1 DEF DaemonReload, TypeOK
  <2> QED
    BY <1>1, <2>1, <2>2, SchedulesAreNot
    DEF DaemonReload, TodoInv, PlatformInv, WrittenInv, WrittenFor, ReportInv, RemovalInv,
        NoOrphanSchedule, StatusScheduled, TimerFile
<1>2. CASE Enable
  <2>1. goos = "linux" /\ files["timer"] = spec /\ files["service"] = spec /\ spec \in Schedules
    BY <1>2 DEF Enable, PlatformInv, WrittenInv, WrittenFor
  <2> QED
    BY <1>2, <2>1, Lists, SchedulesAreNot
    DEF Enable, Ends, TypeOK, TodoInv, PlatformInv, WrittenInv, WrittenFor, ReportInv,
        RemovalInv, NoOrphanSchedule, StatusScheduled, TimerFile
<1>3. CASE Unload
  BY <1>3
  DEF Unload, TypeOK, TodoInv, PlatformInv, WrittenInv, WrittenFor, ReportInv, RemovalInv,
      NoOrphanSchedule, StatusScheduled, TimerFile
<1>4. CASE Load
  <2>1. goos = "darwin" /\ files["agent"] = spec /\ spec \in Schedules
    BY <1>4 DEF Load, PlatformInv, WrittenInv, WrittenFor
  <2> QED
    BY <1>4, <2>1, Lists, SchedulesAreNot
    DEF Load, Ends, TypeOK, TodoInv, PlatformInv, WrittenInv, WrittenFor, ReportInv,
        RemovalInv, NoOrphanSchedule, StatusScheduled, TimerFile
<1>5. CASE ActivationFails
  <2>1. enabled' \in BOOLEAN
    BY <1>5 DEF ActivationFails, TypeOK
  <2> QED
    BY <1>5, <2>1, EndsQuietly DEF ActivationFails
<1>6. CASE LoadDoesNothing
  <2>1. goos = "darwin" /\ files["agent"] = spec /\ spec \in Schedules
    BY <1>6 DEF LoadDoesNothing, PlatformInv, WrittenInv, WrittenFor
  <2> QED
    BY <1>6, <2>1, Lists, SchedulesAreNot
    DEF LoadDoesNothing, Ends, TypeOK, TodoInv, PlatformInv, WrittenInv, WrittenFor, ReportInv,
        RemovalInv, NoOrphanSchedule, StatusScheduled, TimerFile
<1> QED
  BY <1>1, <1>2, <1>3, <1>4, <1>5, <1>6

\* Deactivating, removing the files, and the last reload.
LEMMA UninstallStep ==
  IInv /\ (StartUninstall \/ NothingInstalled \/ Deactivate \/ DeactivateFails
           \/ Remove \/ RemoveFails \/ ReloadRemoved) => IInv'
<1> SUFFICES ASSUME IInv, StartUninstall \/ NothingInstalled \/ Deactivate \/ DeactivateFails
                          \/ Remove \/ RemoveFails \/ ReloadRemoved
             PROVE  IInv'
  OBVIOUS
<1> USE DEF IInv
<1>1. CASE StartUninstall
  BY <1>1, Lists, SchedulesAreNot
  DEF StartUninstall, TypeOK, TodoInv, PlatformInv, WrittenInv, ReportInv, RemovalInv,
      NoOrphanSchedule, StatusScheduled, TimerFile
<1>2. CASE NothingInstalled
  BY <1>2, Lists, SchedulesAreNot
  DEF NothingInstalled, Ends, TypeOK, TodoInv, PlatformInv, WrittenInv, ReportInv, RemovalInv,
      NoOrphanSchedule, StatusScheduled, TimerFile
<1>3. CASE Deactivate
  BY <1>3, SchedulesAreNot
  DEF Deactivate, TypeOK, TodoInv, PlatformInv, WrittenInv, ReportInv, RemovalInv,
      NoOrphanSchedule
<1>4. CASE DeactivateFails
  BY <1>4, SchedulesAreNot
  DEF DeactivateFails, TypeOK, TodoInv, PlatformInv, WrittenInv, ReportInv, RemovalInv,
      NoOrphanSchedule, StatusScheduled, TimerFile
<1>5. CASE Remove
  <2>1. Head(todo) \in Units /\ Tail(todo) \in Seq(Units)
    BY <1>5, Lists DEF Remove, TodoInv, Units
  <2>2. TypeOK'
    BY <1>5, <2>1 DEF Remove, TypeOK
  <2>3. (TodoInv /\ PlatformInv)'
    BY <1>5, Lists DEF Remove, TypeOK, TodoInv, PlatformInv
  <2>4. (WrittenInv /\ ReportInv)'
    BY <1>5, SchedulesAreNot DEF Remove, WrittenInv, ReportInv
  <2>5. (RemovalInv /\ NoOrphanSchedule)'
    BY <1>5 DEF Remove, RemovalInv, NoOrphanSchedule
  <2> QED
    BY <2>2, <2>3, <2>4, <2>5
<1>6. CASE RemoveFails
  BY <1>6, EndsQuietly DEF RemoveFails, TypeOK
<1>7. CASE ReloadRemoved
  <2>1. active' = active \/ active' = "none" \/ (active # "none" /\ active' = files["timer"] /\ Complete("timer"))
    BY <1>7 DEF ReloadRemoved, Reloaded
  <2>2. active' \in Schedules \cup {"none"}
    BY <2>1 DEF Complete, TypeOK
  <2>3. TypeOK'
    BY <1>7, <2>2, Lists DEF ReloadRemoved, Ends, TypeOK
  <2>4. (TodoInv /\ PlatformInv /\ WrittenInv /\ ReportInv /\ RemovalInv)'
    BY <1>7, SchedulesAreNot
    DEF ReloadRemoved, Ends, TodoInv, PlatformInv, WrittenInv, ReportInv, RemovalInv
  <2>5. NoOrphanSchedule'
    BY <1>7, <2>1, SchedulesAreNot
    DEF ReloadRemoved, Ends, RemovalInv, NoOrphanSchedule
  <2> QED
    BY <2>3, <2>4, <2>5
<1> QED
  BY <1>1, <1>2, <1>3, <1>4, <1>5, <1>6, <1>7

\* A kill, and the next login.
LEMMA EnvironmentStep == IInv /\ (Kill \/ Login) => IInv'
<1>1. IInv /\ Kill => IInv'
  BY EndsQuietly DEF Kill, IInv, TypeOK
<1>2. ASSUME IInv, Login PROVE IInv'
  <2> USE DEF IInv
  <2>1. TypeOK'
    BY <1>2 DEF Login, Complete, TypeOK
  <2>2. (TodoInv /\ PlatformInv /\ WrittenInv /\ RemovalInv)'
    BY <1>2 DEF Login, TodoInv, PlatformInv, WrittenInv, RemovalInv
  <2>3. ReportInv'
    BY <1>2, SchedulesAreNot DEF Login, Complete, TimerFile, TypeOK, ReportInv, WrittenFor
  <2>4. NoOrphanSchedule'
    BY <1>2, SchedulesAreNot DEF Login, Complete, NoOrphanSchedule, StatusScheduled, TimerFile
  <2> QED
    BY <2>1, <2>2, <2>3, <2>4
<1> QED
  BY <1>1, <1>2

LEMMA Invariance == Spec => []IInv
<1>1. IInv /\ [Next]_vars => IInv'
  <2> SUFFICES ASSUME IInv, [Next]_vars PROVE IInv'
    OBVIOUS
  <2>1. CASE UNCHANGED vars
    BY <2>1
    DEF vars, IInv, TypeOK, TodoInv, PlatformInv, WrittenInv, WrittenFor, ReportInv, RemovalInv,
        NoOrphanSchedule, StatusScheduled, TimerFile
  <2>2. CASE Next
    BY <2>2, StartInstallStep, WriteStep, ActivationStep, UninstallStep, EnvironmentStep DEF Next
  <2> QED
    BY <2>1, <2>2
<1> QED
  BY InitIInv, <1>1, PTL DEF Spec

-----------------------------------------------------------------------------
(* The theorems *)

\* The variables keep their types on either platform, whatever is killed or
\* fails.
THEOREM TypeCorrect == Spec => []TypeOK
<1>1. IInv => TypeOK
  BY DEF IInv
<1> QED
  BY <1>1, Invariance, PTL

\* What `schedule install' reports as scheduled is in all the unit files, and is
\* what the scheduler runs from then on and over every login, unless launchctl
\* exited 0 without loading it.
THEOREM ScheduledTheorem == Spec => []ScheduledIsInPlace
<1>1. IInv => ScheduledIsInPlace
  <2> SUFFICES ASSUME IInv, reported \in Schedules
               PROVE  /\ \A i \in DOMAIN UnitFiles : files[UnitFiles[i]] = reported
                      /\ active = reported \/ (silent /\ goos = "darwin")
    BY DEF ScheduledIsInPlace
  <2>1. WrittenFor(reported) /\ (active = reported \/ (silent /\ goos = "darwin"))
    BY DEF IInv, ReportInv
  <2>2. \A i \in DOMAIN UnitFiles : files[UnitFiles[i]] = reported
    BY <2>1 DEF UnitFiles, WrittenFor
  <2> QED
    BY <2>1, <2>2
<1> QED
  BY <1>1, Invariance, PTL

\* On systemd, whose `enable --now' fails visibly, what is reported as scheduled
\* is what runs, whatever fails or is killed: what run ScheduleInstall finds
\* takes a launchctl.
THEOREM ScheduledOnLinux ==
  ASSUME Platforms \subseteq {"linux"}
  PROVE  Spec => []ScheduledIsActive
<1>1. Init => goos = "linux"
  BY DEF Init
<1>2. IInv /\ goos = "linux" /\ [Next]_vars => (goos = "linux")'
  <2> SUFFICES ASSUME [Next]_vars PROVE goos' = goos
    OBVIOUS
  <2>1. ASSUME NEW interval, NEW calendar, StartInstall(interval, calendar) PROVE goos' = goos
    BY <2>1 DEF StartInstall
  <2>2. CASE Truncate \/ Fill \/ WriteFails \/ DaemonReload \/ Enable \/ Unload \/ Load
             \/ LoadDoesNothing \/ ActivationFails
    BY <2>2
    DEF Truncate, Fill, WriteFails, DaemonReload, Enable, Unload, Load, LoadDoesNothing,
        ActivationFails
  <2>3. CASE StartUninstall \/ NothingInstalled \/ Deactivate \/ DeactivateFails \/ Remove
             \/ RemoveFails \/ ReloadRemoved \/ Kill \/ Login \/ UNCHANGED vars
    BY <2>3
    DEF StartUninstall, NothingInstalled, Deactivate, DeactivateFails, Remove, RemoveFails,
        ReloadRemoved, Kill, Login, vars
  <2> QED
    BY <2>1, <2>2, <2>3 DEF Next
<1>3. IInv /\ goos = "linux" => ScheduledIsActive
  BY DEF IInv, ReportInv, ScheduledIsActive
<1> QED
  BY <1>1, <1>2, <1>3, Invariance, PTL DEF Spec

\* Whenever a command is killed, `status' still tells of a schedule that runs,
\* unless its deactivation has failed.
THEOREM OrphanTheorem == Spec => []NoOrphanSchedule
<1>1. IInv => NoOrphanSchedule
  BY DEF IInv
<1> QED
  BY <1>1, Invariance, PTL

\* An uninstall has removed the timer, or the agent, when it says so, and what is
\* not there any more cannot be taken up again.
RemovedInv ==
    /\ pc \in {"deactivate", "remove"} /\ todo = <<"service">> => files["timer"] = "absent"
    /\ pc = "reloadRemoved" => files["timer"] = "absent"
    /\ reported = "removed" => files[TimerFile] = "absent"
    /\ RemovedIsInactive

LEMMA RemovedStep == IInv /\ RemovedInv /\ [Next]_vars => RemovedInv'
<1> SUFFICES ASSUME IInv, RemovedInv, [Next]_vars PROVE RemovedInv'
  OBVIOUS
<1> USE DEF RemovedInv
<1>1. ASSUME NEW interval, NEW calendar, StartInstall(interval, calendar) PROVE RemovedInv'
  BY <1>1 DEF StartInstall, RemovedIsInactive
<1>2. CASE Truncate \/ Fill
  BY <1>2 DEF Truncate, Fill, RemovedIsInactive, IInv, ReportInv
<1>3. CASE WriteFails \/ RemoveFails \/ Kill \/ ActivationFails
  BY <1>3 DEF WriteFails, RemoveFails, Kill, ActivationFails, Ends, RemovedIsInactive
<1>4. CASE Enable \/ Load \/ LoadDoesNothing
  BY <1>4, SchedulesAreNot DEF Enable, Load, LoadDoesNothing, Ends, RemovedIsInactive, IInv, WrittenInv
<1>5. CASE DaemonReload \/ Unload
  BY <1>5 DEF DaemonReload, Unload, RemovedIsInactive, IInv, ReportInv
<1>6. CASE StartUninstall
  BY <1>6, Lists DEF StartUninstall, RemovedIsInactive
<1>7. CASE NothingInstalled
  <2>1. files[TimerFile] = "absent"
    BY <1>7 DEF NothingInstalled, Installed, UnitFiles, TimerFile
  <2> QED
    BY <1>7, <2>1
    DEF NothingInstalled, Ends, RemovedIsInactive, TimerFile, IInv, NoOrphanSchedule,
        StatusScheduled
<1>8. CASE Deactivate \/ DeactivateFails
  BY <1>8 DEF Deactivate, DeactivateFails, RemovedIsInactive, IInv, ReportInv
<1>9. CASE Remove
  <2>1. active = "none" \/ ignored
    BY <1>9 DEF Remove, IInv, RemovalInv
  <2>2. CASE goos = "linux" /\ todo = <<"timer", "service">>
    BY <1>9, <2>2, Lists
    DEF Remove, RemovedIsInactive, IInv, TypeOK, ReportInv, Units
  <2>3. CASE goos = "linux" /\ todo = <<"service">>
    BY <1>9, <2>3, Lists
    DEF Remove, RemovedIsInactive, IInv, TypeOK, ReportInv, Units
  <2>4. CASE goos = "darwin" /\ todo = <<"agent">>
    BY <1>9, <2>1, <2>4, Lists
    DEF Remove, RemovedIsInactive, TimerFile, IInv, TypeOK, Units
  <2> QED
    BY <1>9, <2>2, <2>3, <2>4 DEF Remove, IInv, TodoInv, TypeOK
<1>10. CASE ReloadRemoved
  BY <1>10, SchedulesAreNot
  DEF ReloadRemoved, Reloaded, Complete, Ends, RemovedIsInactive, TimerFile, IInv, PlatformInv,
      RemovalInv
<1>11. CASE Login
  BY <1>11, SchedulesAreNot DEF Login, Complete, TimerFile, RemovedIsInactive
<1>12. CASE UNCHANGED vars
  BY <1>12 DEF vars, RemovedIsInactive, TimerFile
<1> QED
  BY <1>1, <1>2, <1>3, <1>4, <1>5, <1>6, <1>7, <1>8, <1>9, <1>10, <1>11, <1>12 DEF Next

LEMMA InitRemoved == Init => RemovedInv
  BY DEF Init, RemovedInv, RemovedIsInactive

\* After an uninstall that did not fail to deactivate it nothing runs icebeam,
\* until the next install.
THEOREM RemovedTheorem == Spec => []RemovedIsInactive
<1>1. RemovedInv => RemovedIsInactive
  BY DEF RemovedInv
<1>2. Spec => []IInv
  BY Invariance
<1> QED
  BY <1>1, <1>2, InitRemoved, RemovedStep, PTL DEF Spec

\* On systemd, if systemctl itself does not fail, no kill of an install or an
\* uninstall can make a later `uninstall' leave a timer running: what run
\* ScheduleUninstall finds takes a failing tool there.  (On macOS it does not: a
\* killed reinstall leaves a plist that `unload' cannot read.)
THEOREM UninstallTheorem ==
  ASSUME ~ToolFails, Platforms \subseteq {"linux"}
  PROVE  Spec => []UninstallDeactivates
<1> DEFINE Quiet == goos = "linux" /\ ~ignored
<1>1. Init => Quiet
  BY DEF Init
<1>2. IInv /\ Quiet /\ [Next]_vars => Quiet'
  <2> SUFFICES ASSUME IInv, Quiet, [Next]_vars PROVE Quiet'
    OBVIOUS
  <2>1. active # "none" => Deactivatable
    BY DEF IInv, NoOrphanSchedule, StatusScheduled, TimerFile, Deactivatable
  <2>2. CASE DeactivateFails
    BY <2>1, <2>2 DEF DeactivateFails
  <2>3. ASSUME NEW interval, NEW calendar, StartInstall(interval, calendar) PROVE Quiet'
    BY <2>3 DEF StartInstall
  <2>4. CASE Truncate \/ Fill \/ WriteFails \/ DaemonReload \/ Enable \/ Unload \/ Load
             \/ LoadDoesNothing \/ ActivationFails
    BY <2>4
    DEF Truncate, Fill, WriteFails, DaemonReload, Enable, Unload, Load, LoadDoesNothing,
        ActivationFails
  <2>5. CASE StartUninstall \/ NothingInstalled \/ Deactivate \/ Remove \/ RemoveFails
             \/ ReloadRemoved \/ Kill \/ Login \/ UNCHANGED vars
    BY <2>5
    DEF StartUninstall, NothingInstalled, Deactivate, Remove, RemoveFails, ReloadRemoved, Kill,
        Login, vars
  <2> QED
    BY <2>2, <2>3, <2>4, <2>5 DEF Next
<1>3. RemovedIsInactive /\ Quiet => UninstallDeactivates
  BY DEF RemovedIsInactive, UninstallDeactivates
<1>4. Spec => []IInv
  BY Invariance
<1> QED
  BY <1>1, <1>2, <1>3, <1>4, RemovedTheorem, PTL DEF Spec

=============================================================================
