---------------------------- MODULE MCBackupRun ----------------------------
(***************************************************************************)
(* Small instances of BackupRun: the old config lists two sets, the new    *)
(* one only the first of them, as a re-run of `icebeam init' leaves it.    *)
(***************************************************************************)
EXTENDS BackupRun, TLC

CONSTANTS home, work

MCSetNames == {home, work}
MCConfigSets == ("old" :> <<home, work>>) @@ ("new" :> <<home>>)

\* No names, one, both in the other order, and one name twice.
MCArguments == {<<>>, <<work>>, <<work, home>>, <<home, home>>}

\* Killed by a signal, generic, Go runtime, incomplete, locked.
MCResticCodes == {-1, 1, 2, 3, 11}
=============================================================================
