---------------------------- MODULE MCInvocations ----------------------------
(***************************************************************************)
(* A small instance of Invocations: two processes, one machine with two    *)
(* sets of different tags and a second machine that shares the tags of     *)
(* one of them, a log that is too large after one record.                  *)
(***************************************************************************)
EXTENDS Invocations, TLC

MCSources == {"home", "work", "other"}
TwoHosts == [s \in MCSources |-> IF s = "other" THEN "server" ELSE "laptop"]
OwnTags == [s \in MCSources |-> IF s = "work" THEN {"work"} ELSE {}]
MCCalendar == [k \in {"daily", "weekly", "monthly", "yearly"} |-> [t \in 0 .. MaxTime |->
    IF k = "daily" THEN t \div 2 ELSE 0]]
MCPolicies == {[k \in {"daily", "weekly", "monthly", "yearly"} |->
    IF k = "daily" THEN d ELSE 0] : d \in {1}}

MCInstallations == {
    [restic |-> <<0, 16>>, minimum |-> <<0, 16, 0>>],
    [restic |-> <<0, 16>>, minimum |-> <<0, 16, 1>>],
    [restic |-> <<0, 17, 3>>, minimum |-> <<0, NotANumber>>]}

Symmetry == Permutations(Procs) \cup Permutations(Files)
=============================================================================
