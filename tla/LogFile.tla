------------------------------- MODULE LogFile -------------------------------
(***************************************************************************)
(* The log of icebeam (internal/logging): one file that every process      *)
(* opens for itself, appends to, and renames to its backup (`.1') when it  *)
(* finds it too large on opening.  Nothing locks it: the steps of New in   *)
(* one process come between those of another.                              *)
(*                                                                         *)
(* A file is an inode: a process that holds it goes on writing to it under *)
(* its new name, or under none.  The size counts records.                  *)
(***************************************************************************)
EXTENDS Naturals, FiniteSets

CONSTANTS
    Procs,        \* the icebeam processes
    Files,        \* the inodes
    NoFile,
    maxLogSize,   \* the size at which the log is rotated
    MaxRecords    \* bound on the records of one process

\* What the constants satisfy.
LogAssumption ==
    /\ IsFiniteSet(Procs) /\ Procs # {}
    /\ NoFile \notin Files
    /\ maxLogSize \in Nat \ {0}
    /\ MaxRecords \in Nat \ {0}

VARIABLES
    names,       \* "log" and "backup" -> the file of that name
    size,        \* file -> its size
    held,        \* process -> the file it has open
    logger,      \* process -> what logging.New is at
    written,     \* process -> the records it has written
    disturbed    \* history: process -> another one rotated the log during its New

vars == <<names, size, held, logger, written, disturbed>>

Opening == {"rename", "open", "chmod"}

TypeOK ==
    /\ names \in [{"log", "backup"} -> Files \cup {NoFile}]
    /\ size \in [Files -> Nat]
    /\ held \in [Procs -> Files \cup {NoFile}]
    /\ logger \in [Procs -> Opening \cup {"none", "ready", "failed"}]
    /\ written \in [Procs -> 0 .. MaxRecords]
    /\ disturbed \in [Procs -> BOOLEAN]
    /\ \A p \in Procs : held[p] # NoFile <=> logger[p] \in {"chmod", "ready"}

\* The log of earlier runs, if any, is of any size they can leave.
Init ==
    /\ names \in [{"log", "backup"} -> Files \cup {NoFile}]
    /\ names["backup"] = NoFile
    /\ size \in [Files -> 0 .. maxLogSize]
    /\ \A f \in Files : f # names["log"] => size[f] = 0
    /\ held = [p \in Procs |-> NoFile]
    /\ logger = [p \in Procs |-> "none"]
    /\ written = [p \in Procs |-> 0]
    /\ disturbed = [p \in Procs |-> FALSE]

Exists == names["log"] # NoFile

\* Mutants: rotation one record later; rotation on every opening.
TooLargeLater == Exists /\ size[names["log"]] > maxLogSize
TooLargeAlways == Exists

TooLarge == Exists /\ size[names["log"]] >= maxLogSize

\* A file without a name that no process holds is gone.
InUse == {names["log"], names["backup"]} \cup {held[p] : p \in Procs}

Remaining == [f \in Files |-> IF f \in InUse' THEN size[f] ELSE 0]

-----------------------------------------------------------------------------
(* logging.New *)

\* Mutant: a missing file is an error like any other.
StatMissingFails(p) ==
    /\ logger[p] = "none"
    /\ logger' = [logger EXCEPT ![p] = IF ~Exists THEN "failed"
                                       ELSE IF TooLarge THEN "rename" ELSE "open"]
    /\ written' = [written EXCEPT ![p] = 0]
    /\ disturbed' = [disturbed EXCEPT ![p] = FALSE]
    /\ UNCHANGED <<names, size, held>>

Stat(p) ==
    /\ logger[p] = "none"
    /\ logger' = [logger EXCEPT ![p] = IF TooLarge THEN "rename" ELSE "open"]
    /\ written' = [written EXCEPT ![p] = 0]
    /\ disturbed' = [disturbed EXCEPT ![p] = FALSE]
    /\ UNCHANGED <<names, size, held>>

\* os.Rename replaces the backup; of whatever is the log by now.
Rename(p) ==
    /\ logger[p] = "rename"
    /\ Exists
    /\ names' = [names EXCEPT !["log"] = NoFile, !["backup"] = names["log"]]
    /\ logger' = [logger EXCEPT ![p] = "open"]
    /\ disturbed' = [q \in Procs |-> disturbed[q] \/ (q # p /\ logger[q] \in Opening)]
    /\ UNCHANGED <<held, written>>
    /\ size' = Remaining

RenameFails(p) ==
    /\ logger[p] = "rename"
    /\ ~Exists
    /\ logger' = [logger EXCEPT ![p] = "failed"]
    /\ UNCHANGED <<names, size, held, written, disturbed>>

\* O_CREATE | O_APPEND.
Open(p) ==
    /\ logger[p] = "open"
    /\ \E f \in IF Exists THEN {names["log"]} ELSE Files \ InUse :
        /\ names' = [names EXCEPT !["log"] = f]
        /\ held' = [held EXCEPT ![p] = f]
    /\ logger' = [logger EXCEPT ![p] = "chmod"]
    /\ UNCHANGED <<size, written, disturbed>>

\* The mode is set by name, not on the open file.
Chmod(p) ==
    /\ logger[p] = "chmod"
    /\ Exists
    /\ logger' = [logger EXCEPT ![p] = "ready"]
    /\ disturbed' = [disturbed EXCEPT ![p] = FALSE]
    /\ UNCHANGED <<names, size, held, written>>

\* Mutant: the file stays open.
ChmodFailsOpen(p) ==
    /\ logger[p] = "chmod"
    /\ ~Exists
    /\ logger' = [logger EXCEPT ![p] = "failed"]
    /\ UNCHANGED <<names, size, held, written, disturbed>>

ChmodFails(p) ==
    /\ logger[p] = "chmod"
    /\ ~Exists
    /\ logger' = [logger EXCEPT ![p] = "failed"]
    /\ held' = [held EXCEPT ![p] = NoFile]
    /\ UNCHANGED <<names, written, disturbed>>
    /\ size' = Remaining

New(p) == Stat(p) \/ Rename(p) \/ RenameFails(p) \/ Open(p) \/ Chmod(p) \/ ChmodFails(p)

-----------------------------------------------------------------------------
(* The logger in use *)

\* One record, one write at the end of the file.
Append(p) ==
    /\ logger[p] = "ready"
    /\ written[p] < MaxRecords
    /\ size' = [size EXCEPT ![held[p]] = @ + 1]
    /\ written' = [written EXCEPT ![p] = @ + 1]
    /\ UNCHANGED <<names, held, logger, disturbed>>

\* The process is done with its logger, or never got one.
Close(p) ==
    /\ logger[p] \in {"ready", "failed"}
    /\ held' = [held EXCEPT ![p] = NoFile]
    /\ logger' = [logger EXCEPT ![p] = "none"]
    /\ disturbed' = [disturbed EXCEPT ![p] = FALSE]
    /\ written' = [written EXCEPT ![p] = 0]
    /\ UNCHANGED names
    /\ size' = Remaining

Next == \E p \in Procs : New(p) \/ Append(p) \/ Close(p)

Spec == Init /\ [][Next]_vars

-----------------------------------------------------------------------------
(* Properties *)

\* However the openings interleave, a file outgrows the threshold by no more
\* than the processes that had looked at it before write (logging.go:29-32,
\* `a guard against unbounded growth').
LogIsBounded ==
    \A f \in Files : size[f] <= maxLogSize - 1 + MaxRecords * Cardinality(Procs)

\* Only a log that has reached the threshold becomes the backup, and replaces
\* the one before, unless another process rotated in the meantime
\* (logging.go:192-193).
RotationKeepsHistory ==
    \A p \in Procs : logger[p] = "rename" /\ ~disturbed[p] =>
        Exists /\ size[names["log"]] >= maxLogSize

\* A log that is missing, small or too large is no reason for a command to
\* fail: only another process's rotation can make New fail between its steps.
FailsInARaceOnly == \A p \in Procs : logger[p] = "failed" => disturbed[p]
=============================================================================
