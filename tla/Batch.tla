-------------------------------- MODULE Batch --------------------------------
(***************************************************************************)
(* What `icebeam backup' and `icebeam run' promise of the sets they back   *)
(* up, with no config, secrets or restic: each set has one turn, in order, *)
(* whatever became of the ones before it; a canceled run starts nothing    *)
(* more; and the verdict is on all the sets.                               *)
(*                                                                         *)
(* BackupRun implements this module.                                       *)
(***************************************************************************)
EXTENDS Naturals, Sequences

VARIABLES
    size,     \* how many sets there are, 0 until that is known
    results,  \* "ok" or "failed" for each set that has had its turn
    running,  \* restic is at the next set
    saved,    \* the sets of which this run has made a complete snapshot
    ctx,      \* "live" or "canceled"
    verdict   \* "none", "ok", "partial", "total", or "error" before any set

vars == <<size, results, running, saved, ctx, verdict>>

Init ==
    /\ size = 0
    /\ results = <<>>
    /\ running = FALSE
    /\ saved = {}
    /\ ctx = "live"
    /\ verdict = "none"

Cancel ==
    /\ verdict = "none"
    /\ ctx' = "canceled"
    /\ UNCHANGED <<size, results, running, saved, verdict>>

\* The sets are resolved.
Resolve ==
    /\ size = 0
    /\ verdict = "none"
    /\ size' \in Nat \ {0}
    /\ UNCHANGED <<results, running, saved, ctx, verdict>>

\* The run ends before the first set.
GiveUp ==
    /\ results = <<>>
    /\ ~running
    /\ verdict = "none"
    /\ verdict' = "error"
    /\ UNCHANGED <<size, results, running, saved, ctx>>

\* The set whose turn it is.
Turn == Len(results) + 1

Start ==
    /\ Turn <= size
    /\ ~running
    /\ ctx = "live"
    /\ verdict = "none"
    /\ running' = TRUE
    /\ UNCHANGED <<size, results, saved, ctx, verdict>>

Succeed ==
    /\ running
    /\ results' = Append(results, "ok")
    /\ saved' = saved \cup {Turn}
    /\ running' = FALSE
    /\ UNCHANGED <<size, ctx, verdict>>

\* restic is not started, fails, or is canceled, perhaps just after its snapshot.
Fail ==
    /\ Turn <= size
    /\ verdict = "none"
    /\ results' = Append(results, "failed")
    /\ saved' = saved \/ (running /\ ctx = "canceled" /\ saved' = saved \cup {Turn})
    /\ running' = FALSE
    /\ UNCHANGED <<size, ctx, verdict>>

Judged ==
    IF \A i \in DOMAIN results : results[i] = "ok" THEN "ok"
    ELSE IF \A i \in DOMAIN results : results[i] = "failed" THEN "total"
    ELSE "partial"

Report ==
    /\ size > 0
    /\ Len(results) = size
    /\ verdict = "none"
    /\ verdict' = Judged
    /\ UNCHANGED <<size, results, running, saved, ctx>>

Next == Cancel \/ Resolve \/ GiveUp \/ Start \/ Succeed \/ Fail \/ Report

Spec == Init /\ [][Next]_vars

-----------------------------------------------------------------------------

\* What a reader of the exit status may conclude: with "ok" there is a complete
\* snapshot of every set, with "partial" of one but not of every set was it
\* reported, and a snapshot nobody reported is the work of a cancellation.
VerdictIsTrue ==
    /\ verdict = "ok" => saved = 1..size
    /\ verdict = "partial" => saved # {} /\ \E i \in DOMAIN results : results[i] = "failed"
    /\ verdict = "total" /\ ctx = "live" => saved = {}
    /\ verdict = "error" => saved = {}
=============================================================================
