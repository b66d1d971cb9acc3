--------------------------- MODULE MCResticRunner ---------------------------
(***************************************************************************)
(* Small instances of ResticRunner.                                        *)
(***************************************************************************)
EXTENDS ResticRunner

AllModes == {"Run", "Parse", "Dump", "JSON"}
=============================================================================
