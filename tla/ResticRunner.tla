---------------------------- MODULE ResticRunner ----------------------------
(***************************************************************************)
(* One call of the restic runner (internal/restic): the goroutines of      *)
(* icebeam that start restic, read its output and wait for it, the restic  *)
(* process with a descendant it may have spawned, the pipes between them,  *)
(* and the cancellation of the context.                                    *)
(*                                                                         *)
(* The four ways a command is run differ in who reads what:                *)
(*   "Run"    stdout and stderr on one pipe, read line by line             *)
(*   "Parse"  Backup and LS: stdout and stderr each read line by line      *)
(*   "Dump"   stdout copied to a writer, stderr read line by line          *)
(*   "JSON"   stdout copied to a buffer by os/exec, stderr line by line    *)
(*                                                                         *)
(* os/exec itself is modelled from how Start, Wait, Cancel and WaitDelay   *)
(* are used here; its goroutine that watches the context is `watcher'.     *)
(***************************************************************************)
EXTENDS Naturals, Sequences, FiniteSets

CONSTANTS
    Modes,        \* the modes to consider
    Descendants,  \* what restic may have spawned: "none", or a process that
                  \* "obeys" or "ignores" SIGTERM
    LongLines,    \* whether restic may print a line the scanner cannot hold
    WriterFails,  \* whether the writer given to Dump may fail
    CheckVersion, \* whether this runner still has to check restic's version
    Lines,        \* bound: lines restic prints on each stream
    PipeCap,      \* bound: items a pipe holds before its writer blocks
    maxTailLines  \* lines an outputTail retains

ASSUME RunnerAssumption ==
    /\ Modes \subseteq {"Run", "Parse", "Dump", "JSON"}
    /\ Descendants \subseteq {"none", "obeys", "ignores"}
    /\ LongLines \in BOOLEAN
    /\ WriterFails \in BOOLEAN
    /\ CheckVersion \in BOOLEAN
    /\ Lines \in Nat
    /\ PipeCap \in Nat \ {0}
    /\ maxTailLines \in Nat \ {0}

VARIABLES
    mode,        \* how the command is run
    descendant,  \* "none", "obeys", "ignores", or "gone"
    holds,       \* the descendant inherited the output pipes
    stubborn,    \* restic itself ignores SIGTERM
    pc,          \* what the goroutine that called the runner is at
    ctx,         \* "live" or "canceled"
    watcher,     \* os/exec's goroutine: "off", "watching", "signaled", "killed", "done"
    watchErr,    \* what it handed to Wait is an error
    delayErr,    \* Wait gave up on the copying goroutine after WaitDelay
    child,       \* restic: "none", "running", "exited" or "reaped"
    code,        \* its exit status: "none", "zero", "one" or "signal"
    termed,      \* the processes the cancellation has signaled
    left,        \* stream -> lines restic has not printed yet
    fatal,       \* restic has printed its fatal message
    pipe,        \* stream -> what was written and not yet read
    closed,      \* icebeam has closed its ends of the pipes
    reader,      \* stream -> "reading", "done", or "stopped" by an over-long line
    copyErr,     \* Dump's copy to the writer failed
    lost,        \* history: streams with output that nobody read
    tail,        \* the outputTail
    result       \* what the call returned

processVars == <<descendant, holds, stubborn, child, code, termed, left, fatal>>
parentVars == <<pc, watcher, watchErr, delayErr, closed, result>>
readVars == <<pipe, reader, copyErr, lost, tail>>
vars == <<mode, ctx, processVars, readVars, parentVars>>

Streams == IF mode = "Run" THEN {"out"} ELSE {"out", "err"}

\* The stream restic's diagnostics arrive on, the one an outputTail records.
TailStream == IF mode = "Run" THEN "out" ELSE "err"

\* The streams read with a bufio.Scanner, whose lines are bounded.
Scanned == CASE mode = "Run"   -> {"out"}
             [] mode = "Parse" -> {"out", "err"}
             [] OTHER          -> {"err"}

\* Mutant: Wait is called as soon as the diagnostics are read.
ReadDiagnosticsOnly == {TailStream}

\* The readers the caller waits for before it calls cmd.Wait; os/exec itself
\* waits for the goroutine that fills a buffer.
ReadBeforeWait == IF mode = "JSON" THEN {"err"} ELSE Streams

\* Mutant: the default of exec.CommandContext, only the direct child.
ChildOnly == {"restic"}

\* Whom Cancel signals: the process group.
Group == {"restic", "descendant"}

Items == {"line", "long", "fatal"}

TypeOK ==
    /\ mode \in {"Run", "Parse", "Dump", "JSON"}
    /\ descendant \in {"none", "obeys", "ignores", "gone"}
    /\ holds \in BOOLEAN /\ stubborn \in BOOLEAN
    /\ pc \in {"version", "checking", "start", "reading", "waiting", "reaped", "returned"}
    /\ ctx \in {"live", "canceled"}
    /\ watcher \in {"off", "watching", "signaled", "killed", "done"}
    /\ watchErr \in BOOLEAN /\ delayErr \in BOOLEAN
    /\ child \in {"none", "running", "exited", "reaped"}
    /\ code \in {"none", "zero", "one", "signal"}
    /\ termed \subseteq {"restic", "descendant"}
    /\ left \in [{"out", "err"} -> 0..Lines]
    /\ fatal \in BOOLEAN
    /\ pipe \in [{"out", "err"} -> Seq(Items)]
    /\ \A s \in {"out", "err"} : Len(pipe[s]) <= PipeCap
    /\ closed \in BOOLEAN
    /\ reader \in [{"out", "err"} -> {"reading", "done", "stopped"}]
    /\ copyErr \in BOOLEAN
    /\ lost \subseteq {"out", "err"}
    /\ tail \in Seq(Items) /\ Len(tail) <= maxTailLines
    /\ result \in {"none", "ok", "canceled", "exitError", "error"}

Init ==
    /\ mode \in Modes
    /\ descendant \in Descendants
    /\ holds \in BOOLEAN
    /\ stubborn \in BOOLEAN
    /\ pc = IF CheckVersion THEN "version" ELSE "start"
    /\ ctx = "live"
    /\ watcher = "off"
    /\ watchErr = FALSE
    /\ delayErr = FALSE
    /\ child = "none"
    /\ code = "none"
    /\ termed = {}
    /\ left = [s \in {"out", "err"} |-> IF s \in Streams THEN Lines ELSE 0]
    /\ fatal = FALSE
    /\ pipe = [s \in {"out", "err"} |-> <<>>]
    /\ closed = FALSE
    /\ reader = [s \in {"out", "err"} |-> IF s \in Streams THEN "reading" ELSE "done"]
    /\ copyErr = FALSE
    /\ lost = {}
    /\ tail = <<>>
    /\ result = "none"

\* Ctrl-C, or SIGTERM to icebeam, at any moment.
Cancel ==
    /\ ctx = "live"
    /\ pc # "returned"
    /\ ctx' = "canceled"
    /\ UNCHANGED <<mode, processVars, readVars, parentVars>>

-----------------------------------------------------------------------------
(* Before restic runs *)

At(here, there) ==
    /\ pc = here
    /\ pc' = there
    /\ UNCHANGED <<mode, ctx, processVars, readVars, watcher, watchErr, delayErr, closed, result>>

GiveUp(how) ==
    /\ pc' = "returned"
    /\ result' = how
    /\ UNCHANGED <<mode, ctx, processVars, readVars, watcher, watchErr, delayErr, closed>>

\* ensureVersion starts `restic version', unless the context is canceled.
VersionStarts == ctx = "live" /\ At("version", "checking")

VersionRefused == pc = "version" /\ ctx = "canceled" /\ GiveUp("canceled")

\* The version is recent enough.
VersionOK == At("checking", "start")

\* `restic version' fails, its output cannot be parsed, or it is too old.
VersionFails == pc = "checking" /\ GiveUp("error")

\* exec.CommandContext kills it: Wait prefers the exit status to the context's
\* error, so what is returned says "signal: killed" and wraps no cancellation.
VersionKilled ==
    /\ pc = "checking"
    /\ ctx = "canceled"
    /\ termed' = {"restic"}
    /\ pc' = "returned"
    /\ result' = "error"
    /\ UNCHANGED <<mode, ctx, descendant, holds, stubborn, child, code, left, fatal,
                   readVars, watcher, watchErr, delayErr, closed>>

\* Mutant: a canceled context is noticed by the watcher only.
StartUnchecked ==
    /\ pc = "start"
    /\ pc' = "reading"
    /\ child' = "running"
    /\ watcher' = "watching"
    /\ UNCHANGED <<mode, ctx, descendant, holds, stubborn, code, termed, left, fatal,
                   readVars, watchErr, delayErr, closed, result>>

\* Start: restic and its descendant run, and the context is watched.
Start ==
    /\ pc = "start"
    /\ ctx = "live"
    /\ pc' = "reading"
    /\ child' = "running"
    /\ watcher' = "watching"
    /\ UNCHANGED <<mode, ctx, descendant, holds, stubborn, code, termed, left, fatal,
                   readVars, watchErr, delayErr, closed, result>>

\* Start returns the error of a canceled context.
StartRefused == pc = "start" /\ ctx = "canceled" /\ GiveUp("canceled")

\* The environment or a pipe cannot be built, or the binary cannot be run.
StartFails == pc = "start" /\ GiveUp("error")

-----------------------------------------------------------------------------
(* restic and its descendant *)

HasDescendant == child # "none" /\ descendant \in {"obeys", "ignores"}

\* Someone can still write to the pipes.
WriterAlive == child = "running" \/ (HasDescendant /\ holds)

\* restic can write to the stream now: the pipe is open and has room.
CanWrite(s) ==
    /\ child = "running"
    /\ ~fatal
    /\ ~closed
    /\ Len(pipe[s]) < PipeCap

ChildWrite(s, item) ==
    /\ CanWrite(s)
    /\ left[s] > 0
    /\ item = "long" => LongLines
    /\ left' = [left EXCEPT ![s] = @ - 1]
    /\ pipe' = [pipe EXCEPT ![s] = Append(@, item)]
    /\ UNCHANGED <<mode, ctx, descendant, holds, stubborn, child, code, termed, fatal,
                   reader, copyErr, lost, tail, parentVars>>

\* The last thing a failing restic prints is its fatal message.
ChildFatal ==
    /\ CanWrite(TailStream)
    /\ fatal' = TRUE
    /\ left' = [s \in {"out", "err"} |-> 0]
    /\ pipe' = [pipe EXCEPT ![TailStream] = Append(@, "fatal")]
    /\ UNCHANGED <<mode, ctx, descendant, holds, stubborn, child, code, termed,
                   reader, copyErr, lost, tail, parentVars>>

ChildDies(status) ==
    /\ child = "running"
    /\ child' = "exited"
    /\ code' = status
    /\ UNCHANGED <<mode, ctx, descendant, holds, stubborn, termed, left, fatal,
                   readVars, parentVars>>

ChildExit == (\A s \in Streams : left[s] = 0) /\ ChildDies(IF fatal THEN "one" ELSE "zero")

ChildTerminates == "restic" \in termed /\ ~stubborn /\ ChildDies("signal")

DescendantGone ==
    /\ HasDescendant
    /\ descendant' = "gone"
    /\ UNCHANGED <<mode, ctx, holds, stubborn, child, code, termed, left, fatal,
                   readVars, parentVars>>

\* A descendant ends by itself once restic is gone, if it cares to.
DescendantExits == child \in {"exited", "reaped"} /\ DescendantGone

DescendantTerminates ==
    "descendant" \in termed /\ descendant = "obeys" /\ DescendantGone

-----------------------------------------------------------------------------
(* Reading the output *)

\* Mutants: the first lines are kept; nothing is dropped.
AddFirst(t, item) == IF Len(t) < maxTailLines THEN Append(t, item) ELSE t
AddAll(t, item) == Append(t, item)

\* outputTail.add
add(t, item) == IF Len(t) < maxTailLines THEN Append(t, item)
                                         ELSE Append(Tail(t), item)

ReaderEnds(s) == reader' = [reader EXCEPT ![s] = "done"]

\* The goroutine that reads the stream has ended.
Ended(s) == reader[s] # "reading"

\* There is something for the reader of this stream.
HasInput(s) ==
    /\ reader[s] = "reading"
    /\ child # "none"
    /\ ~closed
    /\ pipe[s] # <<>>

TooLong(s) == s \in Scanned /\ Head(pipe[s]) = "long"

\* Mutant: one stream after the other, instead of a goroutine for stderr.
ReadInOrder(s) ==
    /\ HasInput(s)
    /\ ~TooLong(s)
    /\ s = "err" => Ended("out")
    /\ pipe' = [pipe EXCEPT ![s] = Tail(@)]
    /\ tail' = IF s = TailStream THEN add(tail, Head(pipe[s])) ELSE tail
    /\ UNCHANGED <<mode, ctx, processVars, reader, copyErr, lost, parentVars>>

\* A line is read, logged, parsed or copied.
Read(s) ==
    /\ HasInput(s)
    /\ ~TooLong(s)
    /\ pipe' = [pipe EXCEPT ![s] = Tail(@)]
    /\ tail' = IF s = TailStream THEN add(tail, Head(pipe[s])) ELSE tail
    /\ UNCHANGED <<mode, ctx, processVars, reader, copyErr, lost, parentVars>>

\* bufio.Scanner stops at a line over its limit and leaves the rest unread;
\* its error is not looked at.
ReadTooLong(s) ==
    /\ HasInput(s)
    /\ TooLong(s)
    /\ pipe' = [pipe EXCEPT ![s] = Tail(@)]
    /\ reader' = [reader EXCEPT ![s] = "stopped"]
    /\ lost' = lost \cup {s}
    /\ UNCHANGED <<mode, ctx, processVars, copyErr, tail, parentVars>>

\* io.Copy stops when the writer fails.
CopyFails ==
    /\ mode = "Dump"
    /\ WriterFails
    /\ HasInput("out")
    /\ pipe' = [pipe EXCEPT !["out"] = Tail(@)]
    /\ ReaderEnds("out")
    /\ copyErr' = TRUE
    /\ lost' = lost \cup {"out"}
    /\ UNCHANGED <<mode, ctx, processVars, tail, parentVars>>

\* Mutant: a pause in the output is taken for its end.
ReadPause(s) ==
    /\ reader[s] = "reading"
    /\ child # "none"
    /\ ~closed
    /\ pipe[s] = <<>>
    /\ ReaderEnds(s)
    /\ UNCHANGED <<mode, ctx, processVars, pipe, copyErr, lost, tail, parentVars>>

\* End of file: nothing is left and nobody can write any more.
ReadEOF(s) ==
    /\ reader[s] = "reading"
    /\ child # "none"
    /\ ~closed
    /\ pipe[s] = <<>>
    /\ ~WriterAlive
    /\ ReaderEnds(s)
    /\ UNCHANGED <<mode, ctx, processVars, pipe, copyErr, lost, tail, parentVars>>

\* The pipe was closed under the reader.
ReadClosed(s) ==
    /\ reader[s] = "reading"
    /\ closed
    /\ ReaderEnds(s)
    /\ lost' = lost \cup {s}
    /\ UNCHANGED <<mode, ctx, processVars, pipe, copyErr, tail, parentVars>>

-----------------------------------------------------------------------------
(* The watcher *)

\* Mutant: the watcher signals, and goes on watching.
WatcherSignalsOnly ==
    /\ watcher = "watching"
    /\ ctx = "canceled"
    /\ watchErr' = TRUE
    /\ termed' = Group
    /\ UNCHANGED <<mode, ctx, descendant, holds, stubborn, child, code, left, fatal,
                   readVars, pc, watcher, delayErr, closed, result>>

\* The context is done: Cancel sends SIGTERM. Whether or not that finds a
\* process, the watcher reports an error.
WatcherSignals ==
    /\ watcher = "watching"
    /\ ctx = "canceled"
    /\ watcher' = "signaled"
    /\ watchErr' = TRUE
    /\ termed' = Group
    /\ UNCHANGED <<mode, ctx, descendant, holds, stubborn, child, code, left, fatal,
                   readVars, pc, delayErr, closed, result>>

\* Mutant: without WaitDelay the watcher does nothing after Cancel.
WatcherNeverKills == watcher = "signaled" /\ UNCHANGED vars

\* Mutant: after WaitDelay the pipes are closed and nobody is killed.
WatcherClosesOnly ==
    /\ watcher = "signaled"
    /\ pc \in {"reading", "waiting"}
    /\ watcher' = "killed"
    /\ closed' = (closed \/ (mode = "JSON" /\ reader["out"] = "reading"))
    /\ UNCHANGED <<mode, ctx, processVars, readVars, pc, watchErr, delayErr, result>>

\* WaitDelay has passed and restic is not reaped: it is killed, it alone; the
\* pipes are closed only for the sake of a goroutine os/exec itself copies in.
WatcherKills ==
    /\ watcher = "signaled"
    /\ pc \in {"reading", "waiting"}
    /\ watcher' = "killed"
    /\ IF child = "running"
       THEN child' = "exited" /\ code' = "signal"
       ELSE UNCHANGED <<child, code>>
    /\ closed' = (closed \/ (mode = "JSON" /\ reader["out"] = "reading"))
    /\ UNCHANGED <<mode, ctx, descendant, holds, stubborn, termed, left, fatal,
                   readVars, pc, watchErr, delayErr, result>>

-----------------------------------------------------------------------------
(* Wait *)

\* Mutant: Dump returns a failed copy at once.
CallWaitUnlessCopyFailed ==
    /\ pc = "reading"
    /\ \A s \in ReadBeforeWait : Ended(s) \/ copyErr
    /\ pc' = IF copyErr THEN "returned" ELSE "waiting"
    /\ result' = IF copyErr THEN "error" ELSE result
    /\ UNCHANGED <<mode, ctx, processVars, readVars, watcher, watchErr, delayErr, closed>>

\* The readers have ended; Wait is called.
CallWait == (\A s \in ReadBeforeWait : Ended(s)) /\ At("reading", "waiting")

Reap ==
    /\ pc = "waiting"
    /\ child = "exited"
    /\ child' = "reaped"
    /\ pc' = "reaped"
    /\ UNCHANGED <<mode, ctx, descendant, holds, stubborn, code, termed, left, fatal,
                   readVars, watcher, watchErr, delayErr, closed, result>>

\* The watcher hands over to Wait; before, it may still notice the context.
WatcherEnds ==
    /\ pc = "reaped"
    /\ watcher # "done"
    /\ watcher' = "done"
    /\ UNCHANGED <<mode, ctx, processVars, readVars, pc, watchErr, delayErr, closed, result>>

\* os/exec's copying goroutine gets WaitDelay to finish, then its pipe is closed.
WaitDelayExpires ==
    /\ pc = "reaped"
    /\ watcher = "done"
    /\ mode = "JSON"
    /\ reader["out"] = "reading"
    /\ ~closed
    /\ closed' = TRUE
    /\ delayErr' = TRUE
    /\ UNCHANGED <<mode, ctx, processVars, readVars, pc, watcher, watchErr, result>>

WaitFailed == code # "zero" \/ watchErr \/ delayErr

\* Mutant: the exit status is looked at before the context is.
ResultOfExitFirst ==
    IF ~WaitFailed THEN (IF copyErr THEN "error" ELSE "ok")
    ELSE IF code # "zero" THEN "exitError"
    ELSE IF ctx = "canceled" THEN "canceled" ELSE "error"

\* wait: the context's error wins over the exit status, and both over a copy's.
resultOf ==
    IF ~WaitFailed THEN (IF copyErr THEN "error" ELSE "ok")
    ELSE IF ctx = "canceled" THEN "canceled"
    ELSE IF code # "zero" THEN "exitError" ELSE "error"

\* Wait closes icebeam's ends of the pipes and the call returns.
Return ==
    /\ pc = "reaped"
    /\ watcher = "done"
    /\ mode = "JSON" => Ended("out")
    /\ pc' = "returned"
    /\ closed' = TRUE
    /\ lost' = lost \cup {s \in Streams : pipe[s] # <<>>}
    /\ result' = resultOf
    /\ UNCHANGED <<mode, ctx, processVars, pipe, reader, copyErr, tail,
                   watcher, watchErr, delayErr>>

\* The call has returned.
Finished == pc = "returned" /\ UNCHANGED vars

-----------------------------------------------------------------------------
(* The specification *)

ReaderStep ==
    \/ \E s \in Streams : Read(s) \/ ReadTooLong(s) \/ ReadEOF(s) \/ ReadClosed(s)
    \/ CopyFails

WatcherStep == WatcherSignals \/ WatcherKills

CallerStep ==
    \/ VersionStarts \/ VersionRefused
    \/ Start \/ StartRefused \/ StartFails
    \/ CallWait \/ Reap \/ WatcherEnds \/ WaitDelayExpires \/ Return

\* What restic and its descendant do of their own accord, if they do not hang.
ChildStep ==
    \/ VersionOK \/ VersionFails
    \/ \E s \in Streams, item \in {"line", "long"} : ChildWrite(s, item)
    \/ ChildExit
    \/ DescendantExits

\* What signals do to them.
SignalStep == VersionKilled \/ ChildTerminates \/ DescendantTerminates

Next ==
    \/ Cancel \/ ReaderStep \/ WatcherStep \/ CallerStep
    \/ ChildStep \/ ChildFatal \/ SignalStep \/ Finished

Spec == Init /\ [][Next]_vars

\* icebeam's goroutines, its timers and the kernel's signals make progress;
\* restic and its descendant may hang for ever.
FairSpec ==
    /\ Spec
    /\ WF_vars(ReaderStep)
    /\ WF_vars(WatcherStep)
    /\ WF_vars(CallerStep)
    /\ WF_vars(SignalStep)

-----------------------------------------------------------------------------
(* Properties *)

\* A call that reports success has an exit status of zero behind it and has
\* read everything restic printed, save what followed a line over the scanner's
\* limit: Wait closes the pipes, so calling it early would silently truncate
\* the listing or the summary (Run, Dump, Backup, LS and captureJSON reading
\* before, or in, Wait).
SuccessIsComplete ==
    result = "ok" => code = "zero" /\ \A s \in lost : reader[s] = "stopped"

\* When a restic failure is reported, the tail the error is classified by
\* holds the fatal message, restic's very last write, unless an over-long line
\* ended the reading (outputTail and wait).
FatalIsSeen ==
    result = "exitError" /\ fatal /\ reader[TailStream] # "stopped"
        => \E i \in DOMAIN tail : tail[i] = "fatal"

\* When the cancellation reached the restic the call is about, the call returns
\* the context's error and nothing else, even if restic failed by itself just
\* before or exited with zero just after (wait).
CanceledIsNotAFailure ==
    pc = "returned" /\ child # "none" /\ termed # {} => result = "canceled"

\* A returned call leaves no restic process behind, not even a zombie,
\* whichever of the readers, the writer or restic failed.
ChildIsReaped == pc = "returned" => child \in {"none", "reaped"}

\* What RunnerCall promises, of this call: output is missing when a reader has
\* given up on it, other than for a line over the scanner's limit.
Call == INSTANCE RunnerCall WITH
    state <- IF pc = "returned" THEN "returned"
             ELSE IF child = "none" THEN "idle" ELSE "running",
    status <- code,
    reached <- child # "none" /\ termed # {},
    missing <- \E s \in lost : reader[s] # "stopped"

\* The goroutines, pipes and signals together keep the promise of a single
\* call: every step of theirs is one of RunnerCall's, or changes nothing that
\* the caller can see.
ImplementsRunnerCall == Call!Spec

\* "Canceling the context terminates restic ... promptly ... and unblocks the
\* output reader" (Run, setProcessGroup): a canceled call returns, even if
\* restic hangs, ignores SIGTERM or blocks on a full pipe, unless a descendant
\* that ignores SIGTERM keeps the pipes open.
CancelReturns ==
    (ctx = "canceled" /\ ~(descendant = "ignores" /\ holds)) ~> (pc = "returned")

\* The same without the exception.
CancelAlwaysReturns == (ctx = "canceled") ~> (pc = "returned")

\* "and any child it spawned ... with no orphan" (Run): once the cancellation
\* has signaled restic its descendant ends too, if it heeds SIGTERM.
CancelLeavesNoOrphan ==
    (termed # {} /\ HasDescendant /\ descendant = "obeys") ~> ~HasDescendant

\* A call returns if restic does not hang: no reader waits for a process that
\* waits for the reader (the goroutines of Backup, LS and Dump), as long as the
\* writer given to Dump takes the output and no line is over the scanner's
\* limit.
CallReturns ==
    WF_vars(ChildStep)
        => <>(pc = "returned" \/ copyErr \/ \E s \in Streams : reader[s] = "stopped")

\* The same for lines of any length.
CallAlwaysReturns == WF_vars(ChildStep) => <>(pc = "returned" \/ copyErr)

-----------------------------------------------------------------------------
(* What the two properties above need besides fairness: somebody can always   *)
(* go on, and every step brings the call closer to its end.                   *)

\* What icebeam's goroutines, os/exec among them, can do: the guards of
\* ReaderStep, WatcherStep and CallerStep.
IcebeamGoesOn ==
    \/ pc \in {"version", "start", "reaped"}
    \/ pc = "reading" /\ \A s \in ReadBeforeWait : Ended(s)
    \/ pc = "waiting" /\ child = "exited"
    \/ \E s \in Streams :
          /\ reader[s] = "reading"
          /\ closed \/ (child # "none" /\ (pipe[s] # <<>> \/ ~WriterAlive))
    \/ watcher = "watching" /\ ctx = "canceled"
    \/ watcher = "signaled" /\ pc \in {"reading", "waiting"}

\* What restic and its descendant can do if they do not hang: the guards of
\* ChildStep.
ResticGoesOn ==
    \/ pc = "checking"
    \/ child = "running" /\ \A s \in Streams : left[s] = 0
    \/ \E s \in Streams : CanWrite(s) /\ left[s] > 0
    \/ child \in {"exited", "reaped"} /\ HasDescendant

\* What signals can do to them: the guards of SignalStep.
SignalGoesOn ==
    \/ pc = "checking" /\ ctx = "canceled"
    \/ child = "running" /\ "restic" \in termed /\ ~stubborn
    \/ HasDescendant /\ "descendant" \in termed /\ descendant = "obeys"

\* No deadlock: as long as the writer takes the output and no line is over the
\* scanner's limit, at every moment before the call returns icebeam can go on or
\* restic can.  No reader waits for another stream, and Wait is not called while
\* restic is blocked on a pipe nobody reads (the goroutines of Backup, LS, Dump).
NobodyWaitsForEverybody ==
    pc # "returned" /\ ~copyErr /\ (\A s \in Streams : reader[s] # "stopped")
        => IcebeamGoesOn \/ ResticGoesOn

\* A canceled call never depends on restic's good will: whether restic hangs,
\* ignores SIGTERM or blocks on a full pipe, icebeam or a signal it has sent can
\* go on, unless a descendant that ignores SIGTERM holds the pipes (Cancel,
\* WaitDelay and the process group of setProcessGroup).
CancelUnblocks ==
    pc # "returned" /\ ctx = "canceled" /\ ~(descendant = "ignores" /\ holds)
        => IcebeamGoesOn \/ SignalGoesOn

CallerSteps ==
    CASE pc = "version"  -> 6
      [] pc = "checking" -> 5
      [] pc = "start"    -> 4
      [] pc = "reading"  -> 3
      [] pc = "waiting"  -> 2
      [] pc = "reaped"   -> 1
      [] pc = "returned" -> 0

WatcherSteps ==
    CASE watcher = "off"      -> 4
      [] watcher = "watching" -> 3
      [] watcher = "signaled" -> 2
      [] watcher = "killed"   -> 1
      [] watcher = "done"     -> 0

\* A line is printed and read; the fatal message replaces what was left.
ToPrint == IF fatal THEN 0 ELSE left["out"] + left["err"] + 1

ToRead == Len(pipe["out"]) + Len(pipe["err"])

OutputSteps == ToPrint + ToPrint + ToRead

ReaderSteps ==
    (IF reader["out"] = "reading" THEN 1 ELSE 0) + (IF reader["err"] = "reading" THEN 1 ELSE 0)

OtherSteps ==
    (IF child \in {"none", "running"} THEN 1 ELSE 0)
      + (IF descendant = "gone" THEN 0 ELSE 1)
      + (IF closed THEN 0 ELSE 1)

\* No call takes more steps than this, cancellation aside.
StepsLeft == CallerSteps + WatcherSteps + OutputSteps + ReaderSteps + OtherSteps

\* No step is ever repeated, the signals, the readers and the timers included:
\* each step but the cancellation brings the call closer to its end.
EveryStepCounts == [][ctx' = ctx => StepsLeft' < StepsLeft]_vars

=============================================================================
