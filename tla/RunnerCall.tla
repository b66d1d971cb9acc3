----------------------------- MODULE RunnerCall -----------------------------
(***************************************************************************)
(* What a call of the restic runner promises its caller, with none of the  *)
(* goroutines, pipes and signals by which internal/restic keeps it: restic *)
(* is started at most once and never after a cancellation, the call        *)
(* returns once, after restic's end, and what it returns agrees with the   *)
(* exit status, with the output that was delivered and with the context.   *)
(*                                                                         *)
(* ResticRunner implements this module.                                    *)
(***************************************************************************)

VARIABLES
    state,    \* "idle", "running" from restic's start on, or "returned"
    status,   \* restic's exit status: "none", "zero", "one" or "signal"
    ctx,      \* "live" or "canceled"
    reached,  \* the cancellation has been passed on to restic
    missing,  \* some of restic's output will not be delivered
    result    \* "none", "ok", "canceled", "exitError" or "error"

vars == <<state, status, ctx, reached, missing, result>>

Init ==
    /\ state = "idle"
    /\ status = "none"
    /\ ctx = "live"
    /\ reached = FALSE
    /\ missing = FALSE
    /\ result = "none"

Cancel ==
    /\ state # "returned"
    /\ ctx' = "canceled"
    /\ UNCHANGED <<state, status, reached, missing, result>>

Start ==
    /\ state = "idle"
    /\ ctx = "live"
    /\ state' = "running"
    /\ UNCHANGED <<status, ctx, reached, missing, result>>

\* restic is not started: the context was canceled, or something failed.
Refuse ==
    /\ state = "idle"
    /\ state' = "returned"
    /\ \/ result' = "error"
       \/ result' = "canceled" /\ ctx = "canceled"
    /\ UNCHANGED <<status, ctx, reached, missing>>

Reach ==
    /\ state = "running"
    /\ ctx = "canceled"
    /\ reached' = TRUE
    /\ UNCHANGED <<state, status, ctx, missing, result>>

LoseOutput ==
    /\ state = "running"
    /\ missing' = TRUE
    /\ UNCHANGED <<state, status, ctx, reached, result>>

\* Only a cancellation makes icebeam kill restic.
Exit ==
    /\ state = "running"
    /\ status = "none"
    /\ \/ status' \in {"zero", "one"}
       \/ status' = "signal" /\ reached
    /\ UNCHANGED <<state, ctx, reached, missing, result>>

\* What the caller may conclude from each result.
Justified(how) ==
    \/ how = "ok" /\ status = "zero" /\ ~missing /\ ~reached
    \/ how = "canceled" /\ ctx = "canceled"
    \/ how = "exitError" /\ status # "zero" /\ ctx = "live"
    \/ how = "error" /\ status = "zero" /\ missing /\ ~reached

Return ==
    /\ state = "running"
    /\ status # "none"
    /\ state' = "returned"
    /\ Justified(result')
    /\ UNCHANGED <<status, ctx, reached, missing>>

Next == Cancel \/ Start \/ Refuse \/ Reach \/ LoseOutput \/ Exit \/ Return

Spec == Init /\ [][Next]_vars
=============================================================================
