---------------------------- MODULE MCScheduler ----------------------------
(***************************************************************************)
(* Small instances of Scheduler: both platforms, one calendar expression.  *)
(***************************************************************************)
EXTENDS Scheduler

AllPlatforms == {"darwin", "linux"}
MCCalendars == {"Mon 03:00"}
=============================================================================
