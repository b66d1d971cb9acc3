------------------------- MODULE ResticRunnerProofs -------------------------
(***************************************************************************)
(* The safety of a call of the runner, for pipes and tails of any size,    *)
(* any number of lines, in every mode and with any descendant.             *)
(***************************************************************************)
EXTENDS ResticRunner, TLAPS, SequenceTheorems

\* How far the caller has come, and restic with it.
PhaseInv ==
    /\ pc \in {"version", "checking", "start"} => child = "none"
    /\ pc \in {"reading", "waiting"} => child \in {"running", "exited"}
    /\ pc = "reaped" => child = "reaped"
    /\ pc = "returned" => child \in {"none", "reaped"}
    /\ result # "none" => pc = "returned"
    /\ child = "reaped" /\ pc = "returned" => watcher = "done"
    /\ code = "none" <=> child \in {"none", "running"}

\* What has not happened before restic runs.
FreshInv ==
    child = "none" =>
        /\ watcher = "off" /\ ~closed /\ ~watchErr /\ ~delayErr
        /\ ~fatal /\ lost = {}
        /\ pc # "returned" => termed = {}
        /\ \A s \in Streams : reader[s] = "reading"
        /\ result \in {"none", "canceled", "error"}

\* The watcher acts only on a cancellation, signals only with an error for
\* Wait, and a pipe is closed early only with an error of the watcher or Wait.
WatchInv ==
    /\ child # "none" => watcher # "off"
    /\ watchErr => ctx = "canceled"
    /\ watcher \in {"signaled", "killed"} => watchErr /\ termed # {}
    /\ child # "none" /\ termed # {} => watchErr
    /\ closed /\ pc # "returned" => watchErr \/ delayErr
    /\ delayErr => pc \in {"reaped", "returned"}
    /\ copyErr => mode = "Dump"

\* A reader that has ended has lost something, or there was nothing left to read
\* and nobody to write.
ReadInv ==
    \A s \in Streams :
        Ended(s) => s \in lost \/ (pipe[s] = <<>> /\ child \in {"exited", "reaped"})

\* Wait is called when the readers are done.
WaitInv ==
    /\ pc \in {"waiting", "reaped"} => \A s \in ReadBeforeWait : Ended(s)
    /\ pc = "returned" /\ child = "reaped" => \A s \in Streams : Ended(s)

\* Output that no over-long line has ended is lost only to a failed writer, a
\* cancellation, or WaitDelay.
LossInv ==
    /\ (\E s \in lost : reader[s] # "stopped") => copyErr \/ watchErr \/ delayErr
    /\ TailStream \in lost /\ reader[TailStream] # "stopped" => ctx = "canceled"

GaveUp(s) == s \in lost /\ reader[s] = "done"

\* A failed writer and WaitDelay do lose output.
MissingInv ==
    /\ \A s \in lost : Ended(s)
    /\ copyErr => GaveUp("out")
    /\ delayErr => mode = "JSON" /\ closed /\ (reader["out"] = "reading" \/ GaveUp("out"))

EndsFatal(q) == q # <<>> /\ q[Len(q)] = "fatal"

\* restic prints nothing after its fatal message, so it is the last thing in
\* the pipe, or the last thing that was read.
FatalInv ==
    fatal => \/ EndsFatal(pipe[TailStream])
             \/ pipe[TailStream] = <<>> /\ EndsFatal(tail)

\* What a call that started restic has returned.
ResultInv ==
    pc = "returned" /\ child = "reaped" =>
        /\ result = "ok" => code = "zero" /\ ~copyErr /\ ~watchErr /\ ~delayErr
        /\ watchErr => result = "canceled"
        /\ result = "exitError" => ctx # "canceled"

IInv ==
    /\ TypeOK
    /\ PhaseInv
    /\ FreshInv
    /\ WatchInv
    /\ ReadInv
    /\ WaitInv
    /\ LossInv
    /\ MissingInv
    /\ FatalInv
    /\ ResultInv

-----------------------------------------------------------------------------
(* Sequences *)

LEMMA Empty ==
  ASSUME NEW S, NEW q \in Seq(S)
  PROVE  /\ Len(q) \in Nat
         /\ q = <<>> <=> Len(q) = 0
  BY EmptySeq, LenProperties

\* What is left of a sequence when its first element is read.
LEMMA HeadTail ==
  ASSUME NEW S, NEW q \in Seq(S), q # <<>>
  PROVE  /\ Len(q) \in Nat \ {0} /\ Head(q) = q[1] /\ Head(q) \in S
         /\ Tail(q) \in Seq(S) /\ Len(Tail(q)) = Len(q) - 1
         /\ \A i \in 1..(Len(q) - 1) : Tail(q)[i] = q[i + 1]
  OBVIOUS

LEMMA Appended ==
  ASSUME NEW S, NEW q \in Seq(S), NEW x \in S
  PROVE  /\ Append(q, x) \in Seq(S) /\ Len(Append(q, x)) = Len(q) + 1
         /\ Append(q, x) # <<>> /\ Append(q, x)[Len(q) + 1] = x
         /\ \A i \in 1..Len(q) : Append(q, x)[i] = q[i]
  OBVIOUS

\* outputTail.add keeps the bound and the line it is given.
LEMMA Added ==
  ASSUME NEW t \in Seq(Items), Len(t) <= maxTailLines, NEW x \in Items
  PROVE  /\ add(t, x) \in Seq(Items) /\ Len(add(t, x)) <= maxTailLines
         /\ add(t, x) # <<>> /\ add(t, x)[Len(add(t, x))] = x
<1>0. Len(t) \in Nat /\ Len(<<>>) = 0 /\ maxTailLines \in Nat /\ maxTailLines # 0
  BY RunnerAssumption
<1>1. CASE Len(t) < maxTailLines
  <2>1. add(t, x) = Append(t, x)
    BY <1>1 DEF add
  <2>2. add(t, x) \in Seq(Items) /\ Len(add(t, x)) = Len(t) + 1 /\ add(t, x) # <<>>
        /\ add(t, x)[Len(t) + 1] = x
    BY <2>1, Appended
  <2> QED
    BY <1>0, <1>1, <2>2
<1>2. CASE ~(Len(t) < maxTailLines)
  <2>1. Len(t) = maxTailLines
    BY <1>0, <1>2
  <2>a. t # <<>>
    BY <1>0, <2>1
  <2>2. Tail(t) \in Seq(Items) /\ Len(Tail(t)) = Len(t) - 1
    BY <2>a, HeadTail
  <2>3. add(t, x) = Append(Tail(t), x)
    BY <1>2 DEF add
  <2>4. add(t, x) \in Seq(Items) /\ Len(add(t, x)) = Len(Tail(t)) + 1 /\ add(t, x) # <<>>
        /\ add(t, x)[Len(Tail(t)) + 1] = x
    BY <2>2, <2>3, Appended
  <2> QED
    BY <1>0, <2>1, <2>2, <2>4
<1> QED
  BY <1>1, <1>2

\* A reader that takes the first line either leaves the fatal message or has it.
LEMMA FatalTaken ==
  ASSUME NEW q \in Seq(Items), EndsFatal(q)
  PROVE  EndsFatal(Tail(q)) \/ (Tail(q) = <<>> /\ Head(q) = "fatal")
<1>1. q # <<>> /\ q[Len(q)] = "fatal"
  BY DEF EndsFatal
<1>2. Len(q) \in Nat \ {0} /\ Head(q) = q[1] /\ Tail(q) \in Seq(Items) /\ Len(Tail(q)) = Len(q) - 1
  BY <1>1, HeadTail
<1>3. CASE Len(q) = 1
  <2>0. Len(Tail(q)) = 0
    BY <1>2, <1>3
  <2>1. Tail(q) = <<>>
    BY <1>2, <2>0, Empty, Zenon
  <2> QED
    BY <1>1, <1>2, <1>3, <2>1
<1>4. CASE Len(q) # 1
  <2>1. Tail(q)[Len(q) - 1] = q[Len(q)]
    BY <1>1, <1>2, <1>4, HeadTail
  <2>0. Len(Tail(q)) # 0
    BY <1>2, <1>4
  <2>2. Tail(q) # <<>>
    BY <1>2, <2>0, Empty, Zenon
  <2> QED
    BY <1>1, <1>2, <2>1, <2>2 DEF EndsFatal
<1> QED
  BY <1>3, <1>4

-----------------------------------------------------------------------------
(* The invariant *)

LEMMA InitIInv == Init => IInv
<1> SUFFICES ASSUME Init PROVE IInv
  OBVIOUS
<1>1. TypeOK
  <2>1. mode \in {"Run", "Parse", "Dump", "JSON"} /\ descendant \in {"none", "obeys", "ignores", "gone"}
    BY RunnerAssumption DEF Init
  <2>2. left \in [{"out", "err"} -> 0..Lines]
    BY RunnerAssumption DEF Init
  <2>3. <<>> \in Seq(Items) /\ Len(<<>>) = 0
    OBVIOUS
  <2>4. pipe \in [{"out", "err"} -> Seq(Items)] /\ \A s \in {"out", "err"} : pipe[s] = <<>>
    BY <2>3 DEF Init
  <2>5. reader \in [{"out", "err"} -> {"reading", "done", "stopped"}]
    BY DEF Init
  <2>6. \A s \in {"out", "err"} : Len(pipe[s]) <= PipeCap
    BY <2>3, <2>4, RunnerAssumption
  <2>7. tail \in Seq(Items) /\ Len(tail) <= maxTailLines
    BY <2>3, RunnerAssumption DEF Init
  <2> QED
    BY <2>1, <2>2, <2>4, <2>5, <2>6, <2>7 DEF Init, TypeOK
<1>2. PhaseInv /\ WatchInv /\ ResultInv /\ FatalInv /\ MissingInv
  BY DEF Init, PhaseInv, WatchInv, ResultInv, FatalInv, MissingInv
<1>3. FreshInv /\ ReadInv /\ WaitInv
  BY DEF Init, FreshInv, ReadInv, Ended, WaitInv, Ended, Streams
<1>4. LossInv
  BY DEF Init, LossInv, Streams
<1> QED
  BY <1>1, <1>2, <1>3, <1>4 DEF IInv

\* What the caller does before restic runs, and the cancellation.
LEMMA BeforeStep ==
  ASSUME IInv,
         \/ Cancel \/ VersionStarts \/ VersionRefused \/ VersionOK \/ VersionFails
         \/ VersionKilled \/ Start \/ StartRefused \/ StartFails
  PROVE  IInv'
<1> USE DEF IInv
<1>0. UNCHANGED <<mode, fatal, code, readVars, delayErr, watchErr, closed>>
  BY DEF Cancel, VersionStarts, VersionRefused, VersionOK, VersionFails, VersionKilled, Start,
         StartRefused, StartFails, At, GiveUp, processVars, parentVars
<1>1. TypeOK'
  <2>1. pc' \in {"version", "checking", "start", "reading", "waiting", "reaped", "returned"}
        /\ ctx' \in {"live", "canceled"}
        /\ watcher' \in {"off", "watching", "signaled", "killed", "done"}
        /\ result' \in {"none", "ok", "canceled", "exitError", "error"}
    BY DEF TypeOK, Cancel, VersionStarts, VersionRefused, VersionOK, VersionFails, VersionKilled,
           Start, StartRefused, StartFails, At, GiveUp, processVars, parentVars
  <2>2. child' \in {"none", "running", "exited", "reaped"} /\ termed' \subseteq {"restic", "descendant"}
        /\ UNCHANGED <<descendant, holds, stubborn, left>>
    BY DEF TypeOK, Cancel, VersionStarts, VersionRefused, VersionOK, VersionFails, VersionKilled,
           Start, StartRefused, StartFails, At, GiveUp, processVars, parentVars
  <2> QED
    BY <1>0, <2>1, <2>2 DEF TypeOK, readVars
<1>2. PhaseInv'
  BY <1>0
  DEF PhaseInv, FreshInv,
      Cancel, VersionStarts, VersionRefused, VersionOK, VersionFails, VersionKilled,
      Start, StartRefused, StartFails, At, GiveUp, processVars, parentVars
<1>6. WatchInv'
  BY <1>0
  DEF PhaseInv, FreshInv, WatchInv, readVars,
      Cancel, VersionStarts, VersionRefused, VersionOK, VersionFails, VersionKilled,
      Start, StartRefused, StartFails, At, GiveUp, processVars, parentVars
<1>8. ResultInv'
  BY <1>0
  DEF TypeOK, PhaseInv, FreshInv, ResultInv,
      Cancel, VersionStarts, VersionRefused, VersionOK, VersionFails, VersionKilled,
      Start, StartRefused, StartFails, At, GiveUp, processVars, parentVars
<1>9. FreshInv'
  BY <1>0
  DEF TypeOK, PhaseInv, FreshInv, Streams, readVars,
      Cancel, VersionStarts, VersionRefused, VersionOK, VersionFails, VersionKilled,
      Start, StartRefused, StartFails, At, GiveUp, processVars, parentVars
<1>10. ReadInv'
  BY <1>0
  DEF TypeOK, PhaseInv, FreshInv, ReadInv, Ended, Streams, readVars,
      Cancel, VersionStarts, VersionRefused, VersionOK, VersionFails, VersionKilled,
      Start, StartRefused, StartFails, At, GiveUp, processVars, parentVars
<1>11. WaitInv'
  BY <1>0
  DEF TypeOK, PhaseInv, FreshInv, WaitInv, Ended, Streams, ReadBeforeWait, readVars,
      Cancel, VersionStarts, VersionRefused, VersionOK, VersionFails, VersionKilled,
      Start, StartRefused, StartFails, At, GiveUp, processVars, parentVars
<1>4. ctx = "canceled" => ctx' = "canceled"
  BY DEF Cancel, VersionStarts, VersionRefused, VersionOK, VersionFails, VersionKilled, Start,
         StartRefused, StartFails, At, GiveUp
<1>5. (LossInv /\ FatalInv /\ MissingInv)'
  BY <1>0, <1>4 DEF LossInv, FatalInv, MissingInv, Ended, GaveUp, EndsFatal, Streams, TailStream, readVars
<1> QED
  BY <1>1, <1>2, <1>5, <1>6, <1>8, <1>9, <1>10, <1>11

\* A step that touches no stream, revives nobody and takes back no error keeps
\* what the invariant says of the streams.
LEMMA StreamsKept ==
  ASSUME IInv, UNCHANGED <<mode, fatal, readVars>>,
         ctx = "canceled" => ctx' = "canceled",
         watchErr => watchErr', delayErr => delayErr',
         child \in {"exited", "reaped"} => child' \in {"exited", "reaped"},
         closed => closed',
         delayErr' => delayErr \/ (closed' /\ mode = "JSON" /\ reader["out"] = "reading")
  PROVE  (ReadInv /\ LossInv /\ MissingInv /\ FatalInv)'
<1>1. ReadInv'
  BY DEF IInv, ReadInv, Ended, Streams, readVars
<1>4. MissingInv'
  BY DEF IInv, MissingInv, Ended, GaveUp, readVars
<1>2. LossInv'
  BY DEF IInv, LossInv, Streams, TailStream, readVars
<1>3. FatalInv'
  BY DEF IInv, FatalInv, EndsFatal, Streams, TailStream, readVars
<1> QED
  BY <1>1, <1>2, <1>3, <1>4

\* restic and its descendant end; the watcher signals and kills; Wait.
LEMMA ControlStep ==
  ASSUME IInv,
         \/ ChildExit \/ ChildTerminates \/ DescendantExits \/ DescendantTerminates
         \/ WatcherSignals \/ WatcherKills \/ CallWait \/ Reap \/ WatcherEnds
         \/ WaitDelayExpires
  PROVE  IInv'
<1> USE DEF IInv
<1>1. CASE ChildExit \/ ChildTerminates
  <2>1. PICK status \in {"one", "zero", "signal"} : ChildDies(status)
    BY <1>1 DEF ChildExit, ChildTerminates
  <2>2. TypeOK'
    BY <2>1 DEF ChildDies, TypeOK, readVars, parentVars
  <2>3. (PhaseInv /\ FreshInv /\ WatchInv /\ ResultInv)'
    BY <2>1
    DEF ChildDies, PhaseInv, FreshInv, WatchInv, ResultInv, readVars, parentVars
  <2>4. WaitInv'
    BY <2>1 DEF ChildDies, WaitInv, Ended, ReadBeforeWait, Streams, readVars, parentVars
  <2> QED
    BY <2>1, <2>2, <2>3, <2>4, StreamsKept DEF ChildDies, readVars, parentVars
<1>2. CASE DescendantExits \/ DescendantTerminates
  <2>1. DescendantGone
    BY <1>2 DEF DescendantExits, DescendantTerminates
  <2>2. TypeOK'
    BY <2>1 DEF DescendantGone, TypeOK, readVars, parentVars
  <2>3. (PhaseInv /\ WatchInv /\ ResultInv)'
    BY <2>1
    DEF DescendantGone, PhaseInv, WatchInv, ResultInv, readVars, parentVars
  <2>4. (FreshInv /\ WaitInv)'
    BY <2>1 DEF DescendantGone, FreshInv, WaitInv, Ended, ReadBeforeWait, Streams, readVars, parentVars
  <2> QED
    BY <2>1, <2>2, <2>3, <2>4, StreamsKept DEF DescendantGone, readVars, parentVars
<1>3. CASE WatcherSignals
  <2>1. TypeOK'
    BY <1>3 DEF WatcherSignals, Group, TypeOK, readVars
  <2>2. child # "none" /\ pc # "returned"
    BY <1>3 DEF WatcherSignals, FreshInv, PhaseInv
  <2>3. (PhaseInv /\ FreshInv /\ WatchInv /\ ResultInv)'
    BY <1>3, <2>2
    DEF WatcherSignals, Group, PhaseInv, FreshInv, WatchInv, ResultInv, readVars
  <2>4. WaitInv'
    BY <1>3 DEF WatcherSignals, WaitInv, Ended, ReadBeforeWait, Streams, readVars
  <2> QED
    BY <1>3, <2>1, <2>3, <2>4, StreamsKept DEF WatcherSignals, readVars
<1>4. CASE WatcherKills
  <2>1. child \in {"running", "exited"} /\ child' = "exited" /\ pc # "returned"
    BY <1>4 DEF WatcherKills, PhaseInv
  <2>2. TypeOK'
    BY <1>4 DEF WatcherKills, TypeOK, readVars
  <2>3. (PhaseInv /\ FreshInv /\ WatchInv /\ ResultInv)'
    BY <1>4, <2>1
    DEF WatcherKills, PhaseInv, FreshInv, WatchInv, ResultInv, readVars
  <2>4. WaitInv'
    BY <1>4, <2>1 DEF WatcherKills, WaitInv, Ended, ReadBeforeWait, Streams, readVars
  <2> QED
    BY <1>4, <2>1, <2>2, <2>3, <2>4, StreamsKept DEF WatcherKills, readVars
<1>5. CASE CallWait
  <2>1. TypeOK'
    BY <1>5 DEF CallWait, At, TypeOK, processVars, readVars
  <2>2. (PhaseInv /\ WatchInv /\ ResultInv)'
    BY <1>5
    DEF CallWait, At, PhaseInv, WatchInv, ResultInv, processVars, readVars
  <2>3. (FreshInv /\ WaitInv)'
    BY <1>5
    DEF CallWait, At, PhaseInv, FreshInv, WaitInv, Ended, ReadBeforeWait, Streams, processVars, readVars
  <2> QED
    BY <1>5, <2>1, <2>2, <2>3, StreamsKept DEF CallWait, At, processVars, readVars
<1>6. CASE Reap
  <2>1. TypeOK'
    BY <1>6 DEF Reap, TypeOK, readVars
  <2>2. (PhaseInv /\ FreshInv /\ WatchInv /\ ResultInv)'
    BY <1>6 DEF Reap, PhaseInv, FreshInv, WatchInv, ResultInv, readVars
  <2>3. WaitInv'
    BY <1>6 DEF Reap, WaitInv, Ended, ReadBeforeWait, Streams, readVars
  <2> QED
    BY <1>6, <2>1, <2>2, <2>3, StreamsKept DEF Reap, readVars
<1>7. CASE WatcherEnds \/ WaitDelayExpires
  <2>0. UNCHANGED <<mode, ctx, processVars, readVars, pc, watchErr, result>>
        /\ watcher' \in {watcher, "done"} /\ closed' \in {closed, TRUE} /\ delayErr' \in {delayErr, TRUE}
    BY <1>7 DEF WatcherEnds, WaitDelayExpires
  <2>a. closed' \in BOOLEAN /\ delayErr' \in BOOLEAN
        /\ watcher' \in {"off", "watching", "signaled", "killed", "done"}
    BY <2>0 DEF TypeOK
  <2>1. TypeOK'
    BY <2>0, <2>a DEF TypeOK, processVars, readVars
  <2>2. (PhaseInv /\ FreshInv /\ WatchInv /\ ResultInv)'
    BY <1>7
    DEF WatcherEnds, WaitDelayExpires, PhaseInv, FreshInv, WatchInv, ResultInv,
        processVars, readVars
  <2>3. WaitInv'
    BY <1>7
    DEF WatcherEnds, WaitDelayExpires, WaitInv, Ended, ReadBeforeWait, Streams, processVars, readVars
  <2> QED
    BY <1>7, <2>1, <2>2, <2>3, StreamsKept
    DEF WatcherEnds, WaitDelayExpires, processVars, readVars
<1> QED
  BY <1>1, <1>2, <1>3, <1>4, <1>5, <1>6, <1>7

\* A stream's name, and the types of what is on it.
LEMMA StreamTypes ==
  ASSUME TypeOK
  PROVE  /\ Streams \subseteq {"out", "err"} /\ TailStream \in Streams
         /\ \A s \in Streams : pipe[s] \in Seq(Items)
  BY DEF TypeOK, Streams, TailStream

\* restic prints a line, or its fatal message.
LEMMA PrintStep ==
  ASSUME IInv, NEW s \in Streams, NEW item \in Items, CanWrite(s),
         pipe' = [pipe EXCEPT ![s] = Append(@, item)],
         fatal' = (item = "fatal"), item = "fatal" => s = TailStream,
         left' \in [{"out", "err"} -> 0..Lines],
         UNCHANGED <<mode, ctx, descendant, holds, stubborn, child, code, termed,
                     reader, copyErr, lost, tail, parentVars>>
  PROVE  IInv'
<1> USE DEF IInv
<1>1. child = "running" /\ ~fatal /\ ~closed /\ Len(pipe[s]) < PipeCap
  BY DEF CanWrite
<1>2. s \in {"out", "err"} /\ pipe[s] \in Seq(Items)
  BY StreamTypes
<1>3. /\ Append(pipe[s], item) \in Seq(Items) /\ Len(Append(pipe[s], item)) = Len(pipe[s]) + 1
      /\ Append(pipe[s], item) # <<>> /\ Append(pipe[s], item)[Len(pipe[s]) + 1] = item
      /\ \A i \in 1..Len(pipe[s]) : Append(pipe[s], item)[i] = pipe[s][i]
  BY <1>2, Appended
<1>4. Len(pipe[s]) \in Nat
  BY <1>2, Empty
<1>5. /\ pipe' \in [{"out", "err"} -> Seq(Items)]
      /\ pipe'[s] = Append(pipe[s], item)
      /\ \A r \in {"out", "err"} : r # s => pipe'[r] = pipe[r]
  BY <1>2, <1>3 DEF TypeOK
<1>6. TypeOK'
  <2>1. \A r \in {"out", "err"} : Len(pipe'[r]) <= PipeCap
    BY <1>1, <1>2, <1>3, <1>4, <1>5, RunnerAssumption DEF TypeOK
  <2> QED
    BY <1>5, <2>1 DEF TypeOK, parentVars
<1>7. (PhaseInv /\ FreshInv /\ WatchInv /\ ResultInv)'
  BY <1>1 DEF PhaseInv, FreshInv, WatchInv, ResultInv, parentVars
<1>8. WaitInv'
  BY DEF WaitInv, Ended, ReadBeforeWait, Streams, parentVars
<1>9. ReadInv'
  <2>1. Streams' = Streams
    BY DEF Streams
  <2>2. \A r \in Streams : Ended(r) => r \in lost
    BY <1>1 DEF ReadInv
  <2> QED
    BY <2>1, <2>2 DEF ReadInv, Ended
<1>10. LossInv' /\ MissingInv'
  BY DEF LossInv, MissingInv, Ended, GaveUp, TailStream, parentVars
<1>11. FatalInv'
  <2>1. TailStream' = TailStream
    BY DEF TailStream
  <2>2. item = "fatal" => EndsFatal(pipe'[TailStream])
    BY <1>3, <1>5 DEF EndsFatal
  <2> QED
    BY <2>1, <2>2 DEF FatalInv
<1> QED
  BY <1>6, <1>7, <1>8, <1>9, <1>10, <1>11

LEMMA WriteStep ==
  ASSUME IInv,
         ChildFatal \/ \E s \in Streams, item \in {"line", "long"} : ChildWrite(s, item)
  PROVE  IInv'
<1>1. CASE ChildFatal
  <2>1. left' \in [{"out", "err"} -> 0..Lines]
    BY <1>1, RunnerAssumption DEF ChildFatal
  <2> QED
    BY <1>1, <2>1, PrintStep, StreamTypes DEF ChildFatal, IInv, Items
<1>2. ASSUME NEW s \in Streams, NEW item \in {"line", "long"}, ChildWrite(s, item) PROVE IInv'
  <2>1. fatal' = (item = "fatal")
    BY <1>2 DEF ChildWrite, CanWrite, IInv, TypeOK
  <2>2. left' \in [{"out", "err"} -> 0..Lines]
    BY <1>2, RunnerAssumption, StreamTypes DEF ChildWrite, IInv, TypeOK
  <2> QED
    BY <1>2, <2>1, <2>2, PrintStep DEF ChildWrite, Items
<1> QED
  BY <1>1, <1>2

\* What the first item of a pipe leaves behind.
LEMMA Taken ==
  ASSUME TypeOK, NEW s \in Streams, pipe[s] # <<>>, pipe' = [pipe EXCEPT ![s] = Tail(@)]
  PROVE  /\ pipe' \in [{"out", "err"} -> Seq(Items)]
         /\ \A r \in {"out", "err"} : Len(pipe'[r]) <= PipeCap
         /\ pipe'[s] = Tail(pipe[s])
         /\ \A r \in {"out", "err"} : r # s => pipe'[r] = pipe[r]
         /\ Head(pipe[s]) \in Items
<1>1. s \in {"out", "err"} /\ pipe[s] \in Seq(Items)
  BY StreamTypes
<1>2. /\ Len(pipe[s]) \in Nat \ {0} /\ Head(pipe[s]) \in Items
      /\ Tail(pipe[s]) \in Seq(Items) /\ Len(Tail(pipe[s])) = Len(pipe[s]) - 1
  BY <1>1, HeadTail
<1>3. /\ pipe' \in [{"out", "err"} -> Seq(Items)]
      /\ pipe'[s] = Tail(pipe[s])
      /\ \A r \in {"out", "err"} : r # s => pipe'[r] = pipe[r]
  BY <1>1, <1>2 DEF TypeOK
<1>4. \A r \in {"out", "err"} : Len(pipe'[r]) <= PipeCap
  BY <1>1, <1>2, <1>3, RunnerAssumption DEF TypeOK
<1> QED
  BY <1>2, <1>3, <1>4

\* A stream is still being read only in a call that has not returned.
LEMMA StillReading ==
  ASSUME IInv, NEW s \in Streams, reader[s] = "reading", child # "none"
  PROVE  pc # "returned"
BY DEF IInv, PhaseInv, WaitInv, Ended

\* What reading leaves alone.
LEMMA ReadersKeep ==
  ASSUME IInv, UNCHANGED <<mode, ctx, processVars, parentVars>>, child # "none",
         copyErr' => mode = "Dump",
         copyErr' = copyErr \/ pc # "returned",
         \A s \in Streams : Ended(s) => Ended(s)'
  PROVE  (PhaseInv /\ FreshInv /\ WatchInv /\ WaitInv /\ ResultInv)'
<1>1. (PhaseInv /\ WatchInv /\ ResultInv)'
  BY DEF IInv, PhaseInv, FreshInv, WatchInv, ResultInv, processVars, parentVars
<1>2. (FreshInv /\ WaitInv)'
  BY DEF IInv, FreshInv, WaitInv, Ended, ReadBeforeWait, Streams, processVars, parentVars
<1> QED
  BY <1>1, <1>2

LEMMA ReadStep ==
  ASSUME IInv, NEW s \in Streams, Read(s)
  PROVE  IInv'
<1> USE DEF IInv
<1>1. /\ reader[s] = "reading" /\ child # "none" /\ pipe[s] # <<>>
      /\ pipe' = [pipe EXCEPT ![s] = Tail(@)]
      /\ tail' = IF s = TailStream THEN add(tail, Head(pipe[s])) ELSE tail
      /\ UNCHANGED <<mode, ctx, processVars, reader, copyErr, lost, parentVars>>
  BY DEF Read, HasInput
<1>2. (PhaseInv /\ FreshInv /\ WatchInv /\ WaitInv /\ ResultInv)'
  BY <1>1, ReadersKeep DEF WatchInv, TypeOK, Ended
<1>3. Streams' = Streams /\ TailStream' = TailStream
  BY <1>1 DEF Streams, TailStream
<1>4. tail' \in Seq(Items) /\ Len(tail') <= maxTailLines
  BY <1>1, Taken, Added DEF TypeOK
<1>5. TypeOK'
  <2>1. pipe' \in [{"out", "err"} -> Seq(Items)] /\ \A r \in {"out", "err"} : Len(pipe'[r]) <= PipeCap
    BY <1>1, Taken
  <2> QED
    BY <1>1, <1>4, <2>1 DEF TypeOK, processVars, parentVars
<1>6. ReadInv'
  BY <1>1, <1>3, Taken, StreamTypes DEF ReadInv, Ended, processVars
<1>7. LossInv' /\ MissingInv'
  BY <1>1, <1>3 DEF LossInv, MissingInv, Ended, GaveUp, parentVars
<1>8. FatalInv'
  <2> SUFFICES ASSUME fatal
               PROVE  EndsFatal(pipe'[TailStream]) \/ (pipe'[TailStream] = <<>> /\ EndsFatal(tail'))
    BY <1>1, <1>3 DEF FatalInv, processVars
  <2>1. CASE s = TailStream
    <3>1. EndsFatal(pipe[s]) /\ pipe[s] \in Seq(Items) /\ pipe'[s] = Tail(pipe[s])
      BY <1>1, <2>1, Taken, StreamTypes DEF FatalInv
    <3>2. EndsFatal(Tail(pipe[s])) \/ (Tail(pipe[s]) = <<>> /\ Head(pipe[s]) = "fatal")
      BY <3>1, FatalTaken
    <3>3. Head(pipe[s]) = "fatal" => EndsFatal(tail')
      BY <1>1, <2>1, Taken, Added DEF EndsFatal, TypeOK
    <3> QED
      BY <2>1, <3>1, <3>2, <3>3
  <2>2. CASE s # TailStream
    BY <1>1, <2>2, Taken, StreamTypes DEF FatalInv
  <2> QED
    BY <2>1, <2>2
<1> QED
  BY <1>2, <1>5, <1>6, <1>7, <1>8

\* A reader stops at a line that is too long, or Dump's when its writer fails.
LEMMA StopStep ==
  ASSUME IInv, CopyFails \/ \E s \in Streams : ReadTooLong(s)
  PROVE  IInv'
<1> USE DEF IInv
<1>1. PICK s \in Streams :
        /\ reader[s] = "reading" /\ child # "none" /\ pipe[s] # <<>>
        /\ pipe' = [pipe EXCEPT ![s] = Tail(@)]
        /\ lost' = lost \cup {s}
        /\ UNCHANGED <<mode, ctx, processVars, tail, parentVars>>
        /\ \/ /\ reader' = [reader EXCEPT ![s] = "done"]
              /\ copyErr' = TRUE /\ mode = "Dump" /\ s = "out"
           \/ /\ reader' = [reader EXCEPT ![s] = "stopped"]
              /\ copyErr' = copyErr /\ s \in Scanned /\ Head(pipe[s]) = "long"
  <2>1. CASE CopyFails
    <3>1. "out" \in Streams
      BY DEF Streams
    <3> QED
      BY <2>1, <3>1 DEF CopyFails, HasInput, ReaderEnds
  <2>2. CASE \E s \in Streams : ReadTooLong(s)
    BY <2>2 DEF ReadTooLong, HasInput, TooLong
  <2> QED
    BY <2>1, <2>2
<1>2. s \in {"out", "err"} /\ pc # "returned"
  BY <1>1, StreamTypes, StillReading
<1>3. /\ reader' \in [{"out", "err"} -> {"reading", "done", "stopped"}]
      /\ reader'[s] \in {"done", "stopped"}
      /\ reader'[s] = "done" => copyErr' = TRUE /\ mode = "Dump" /\ s = "out"
      /\ reader'[s] = "stopped" => copyErr' = copyErr
      /\ \A r \in {"out", "err"} : r # s => reader'[r] = reader[r]
      /\ copyErr' \in BOOLEAN /\ lost' \subseteq {"out", "err"}
  BY <1>1, <1>2 DEF TypeOK
<1>4. (PhaseInv /\ FreshInv /\ WatchInv /\ WaitInv /\ ResultInv)'
  <2>1. \A r \in Streams : Ended(r) => Ended(r)'
    BY <1>3, StreamTypes DEF Ended
  <2> QED
    BY <1>1, <1>2, <2>1, ReadersKeep DEF WatchInv
<1>5. Streams' = Streams /\ TailStream' = TailStream
  BY <1>1 DEF Streams, TailStream
<1>6. TypeOK'
  <2>1. pipe' \in [{"out", "err"} -> Seq(Items)] /\ \A r \in {"out", "err"} : Len(pipe'[r]) <= PipeCap
    BY <1>1, Taken
  <2> QED
    BY <1>1, <1>3, <2>1 DEF TypeOK, processVars, parentVars
<1>7. ReadInv'
  BY <1>1, <1>3, <1>5, Taken, StreamTypes DEF ReadInv, Ended, processVars
<1>8. LossInv' /\ MissingInv'
  <2>1. CASE reader'[s] = "stopped"
    <3>1. delayErr => s # "out"
      BY <1>1, <1>3, <2>1 DEF MissingInv, Scanned
    <3>2. MissingInv'
      BY <1>1, <1>2, <1>3, <2>1, <3>1 DEF MissingInv, Ended, GaveUp, parentVars
    <3>3. LossInv'
      <4>1. \A r \in lost' : reader'[r] # "stopped" => r \in lost /\ reader[r] # "stopped"
        BY <1>1, <1>3, <2>1 DEF TypeOK
      <4>2. UNCHANGED <<copyErr, watchErr, delayErr, ctx>>
        BY <1>1, <1>3, <2>1 DEF parentVars
      <4> QED
        BY <1>5, <4>1, <4>2 DEF LossInv
    <3> QED
      BY <3>2, <3>3
  <2>2. CASE reader'[s] # "stopped"
    <3>1. copyErr' = TRUE /\ mode = "Dump" /\ s = "out" /\ reader'["out"] = "done"
      BY <1>3, <2>2
    <3>2. s # TailStream
      BY <3>1 DEF TailStream
    <3>3. delayErr => mode = "JSON"
      BY DEF MissingInv
    <3> QED
      BY <1>1, <1>3, <1>5, <3>1, <3>2, <3>3, StreamTypes
      DEF LossInv, MissingInv, Ended, GaveUp, parentVars
  <2> QED
    BY <2>1, <2>2
<1>9. FatalInv'
  <2> SUFFICES ASSUME fatal
               PROVE  EndsFatal(pipe'[TailStream]) \/ (pipe'[TailStream] = <<>> /\ EndsFatal(tail'))
    BY <1>1, <1>5 DEF FatalInv, processVars
  <2>1. CASE s = TailStream
    <3>1. EndsFatal(pipe[s]) /\ pipe[s] \in Seq(Items) /\ pipe'[s] = Tail(pipe[s])
      BY <1>1, <2>1, Taken, StreamTypes DEF FatalInv
    <3>2. EndsFatal(Tail(pipe[s])) \/ (Tail(pipe[s]) = <<>> /\ Head(pipe[s]) = "fatal")
      BY <3>1, FatalTaken
    <3>3. Head(pipe[s]) # "fatal"
      BY <1>1, <2>1 DEF TailStream
    <3> QED
      BY <2>1, <3>1, <3>2, <3>3
  <2>2. CASE s # TailStream
    BY <1>1, <2>2, Taken, StreamTypes DEF FatalInv
  <2> QED
    BY <2>1, <2>2
<1> QED
  BY <1>4, <1>6, <1>7, <1>8, <1>9

\* The end of a stream, and a pipe closed under its reader.
LEMMA EndStep ==
  ASSUME IInv, NEW s \in Streams, ReadEOF(s) \/ ReadClosed(s)
  PROVE  IInv'
<1> USE DEF IInv
<1>1. /\ reader[s] = "reading" /\ reader' = [reader EXCEPT ![s] = "done"]
      /\ UNCHANGED <<mode, ctx, processVars, pipe, copyErr, tail, parentVars>>
      /\ \/ pipe[s] = <<>> /\ child \in {"exited", "reaped"} /\ ~closed /\ lost' = lost
         \/ closed /\ lost' = lost \cup {s}
  BY DEF ReadEOF, ReadClosed, ReaderEnds, WriterAlive, TypeOK
<1>2. child # "none" /\ pc # "returned"
  BY <1>1, StillReading DEF FreshInv
<1>3. s \in {"out", "err"}
  BY StreamTypes
<1>4. /\ reader' \in [{"out", "err"} -> {"reading", "done", "stopped"}] /\ reader'[s] = "done"
      /\ \A r \in {"out", "err"} : r # s => reader'[r] = reader[r]
      /\ lost' \subseteq {"out", "err"}
  BY <1>1, <1>3 DEF TypeOK
<1>5. (PhaseInv /\ FreshInv /\ WatchInv /\ WaitInv /\ ResultInv)'
  <2>1. \A r \in Streams : Ended(r) => Ended(r)'
    BY <1>4, StreamTypes DEF Ended
  <2>2. copyErr' = (copyErr \/ FALSE) /\ (copyErr' => mode = "Dump")
    BY <1>1 DEF TypeOK, WatchInv
  <2> QED
    BY <1>1, <1>2, <2>1, <2>2, ReadersKeep
<1>6. Streams' = Streams /\ TailStream' = TailStream
  BY <1>1 DEF Streams, TailStream
<1>7. TypeOK'
  BY <1>1, <1>4 DEF TypeOK, processVars, parentVars
<1>8. ReadInv'
  BY <1>1, <1>4, <1>6, StreamTypes DEF ReadInv, Ended, processVars
<1>9. LossInv'
  <2>1. CASE pipe[s] = <<>> /\ lost' = lost
    BY <1>1, <1>3, <1>4, <1>6, <2>1, StreamTypes DEF LossInv, parentVars
  <2>2. CASE closed /\ lost' = lost \cup {s}
    <3>1. watchErr \/ delayErr
      BY <1>2, <2>2 DEF WatchInv
    <3>2. s = TailStream => ctx = "canceled"
      <4> SUFFICES ASSUME s = TailStream, delayErr PROVE FALSE
        BY <3>1 DEF WatchInv
      <4>1. pc = "reaped"
        BY <1>2 DEF WatchInv
      <4>2. s \in ReadBeforeWait
        BY DEF ReadBeforeWait, Streams, TailStream
      <4> QED
        BY <1>1, <4>1, <4>2 DEF WaitInv, Ended
    <3> QED
      BY <1>1, <1>6, <2>2, <3>1, <3>2 DEF LossInv, parentVars
  <2> QED
    BY <1>1, <2>1, <2>2
<1>10. FatalInv'
  BY <1>1, <1>6 DEF FatalInv, processVars
<1>11. MissingInv'
  BY <1>1, <1>3, <1>4 DEF MissingInv, Ended, GaveUp, parentVars
<1> QED
  BY <1>5, <1>7, <1>8, <1>9, <1>10, <1>11

\* Wait returns when the readers are done, so it closes nothing that was not read.
LEMMA ReturnStep == IInv /\ Return => IInv'
<1> SUFFICES ASSUME IInv, Return PROVE IInv'
  OBVIOUS
<1> USE DEF IInv
<1>1. /\ pc = "reaped" /\ watcher = "done" /\ pc' = "returned" /\ closed' = TRUE
      /\ result' = resultOf
      /\ lost' = lost \cup {s \in Streams : pipe[s] # <<>>}
      /\ UNCHANGED <<mode, ctx, processVars, pipe, reader, copyErr, tail,
                     watcher, watchErr, delayErr>>
  BY DEF Return
<1>2. \A s \in Streams : Ended(s)
  BY DEF Return, WaitInv, Ended, ReadBeforeWait, Streams, TypeOK
<1>3. UNCHANGED <<mode, fatal, readVars>>
  BY <1>1, <1>2 DEF ReadInv, Ended, processVars, readVars
<1>4. (ReadInv /\ LossInv /\ MissingInv /\ FatalInv)'
  BY <1>1, <1>3, StreamsKept DEF processVars
<1>5. TypeOK'
  <2>1. result' \in {"none", "ok", "canceled", "exitError", "error"}
    BY <1>1 DEF resultOf
  <2>2. /\ closed' \in BOOLEAN
        /\ pc' \in {"version", "checking", "start", "reading", "waiting", "reaped", "returned"}
        /\ UNCHANGED <<mode, ctx, processVars, readVars, watcher, watchErr, delayErr>>
    BY <1>1, <1>3
  <2> QED
    BY <2>1, <2>2 DEF TypeOK, processVars, readVars
<1>6. (PhaseInv /\ FreshInv /\ WatchInv)'
  BY <1>1 DEF PhaseInv, FreshInv, WatchInv, processVars
<1>7. WaitInv'
  BY <1>1, <1>2 DEF WaitInv, Ended, Streams
<1>8. ResultInv'
  BY <1>1 DEF ResultInv, WatchInv, resultOf, WaitFailed, processVars
<1> QED
  BY <1>4, <1>5, <1>6, <1>7, <1>8

LEMMA IdleStep == IInv /\ UNCHANGED vars => IInv'
<1> SUFFICES ASSUME IInv, UNCHANGED vars PROVE IInv'
  OBVIOUS
<1> USE DEF IInv, vars, processVars, parentVars
<1>1. (ReadInv /\ LossInv /\ MissingInv /\ FatalInv)'
  BY StreamsKept
<1>2. TypeOK'
  BY DEF TypeOK, readVars
<1>3. (PhaseInv /\ WatchInv /\ ResultInv)'
  BY DEF PhaseInv, WatchInv, ResultInv, readVars
<1>4. (FreshInv /\ WaitInv)'
  BY DEF FreshInv, WaitInv, Ended, ReadBeforeWait, Streams, readVars
<1> QED
  BY <1>1, <1>2, <1>3, <1>4

LEMMA Invariance == Spec => []IInv
<1>1. IInv /\ [Next]_vars => IInv'
  <2> SUFFICES ASSUME IInv, [Next]_vars PROVE IInv'
    OBVIOUS
  <2>1. CASE Cancel \/ VersionKilled
    BY <2>1, BeforeStep
  <2>2. CASE ReaderStep
    BY <2>2, ReadStep, StopStep, EndStep DEF ReaderStep
  <2>3. CASE WatcherStep
    BY <2>3, ControlStep DEF WatcherStep
  <2>4. CASE CallerStep
    BY <2>4, BeforeStep, ControlStep, ReturnStep DEF CallerStep
  <2>5. CASE ChildStep \/ ChildFatal
    BY <2>5, BeforeStep, WriteStep, ControlStep DEF ChildStep
  <2>6. CASE ChildTerminates \/ DescendantTerminates
    BY <2>6, ControlStep
  <2>7. CASE Finished \/ UNCHANGED vars
    BY <2>7, IdleStep DEF Finished
  <2> QED
    BY <2>1, <2>2, <2>3, <2>4, <2>5, <2>6, <2>7 DEF Next, SignalStep
<1> QED
  BY <1>1, InitIInv, PTL DEF Spec

-----------------------------------------------------------------------------
(* The theorems *)

\* Every variable keeps its type, and neither a pipe nor the tail outgrows its
\* bound, for any bound.
THEOREM TypeCorrect == Spec => []TypeOK
<1>1. IInv => TypeOK
  BY DEF IInv
<1> QED
  BY <1>1, Invariance, PTL

\* However a call ends - a canceled version check, a restic that cannot be
\* started, a failed writer, a kill after WaitDelay - it has reaped the restic
\* it started (Run, Dump, captureJSON and scanStreams, which reach cmd.Wait).
THEOREM ReapedTheorem == Spec => []ChildIsReaped
<1>1. IInv => ChildIsReaped
  BY DEF IInv, PhaseInv, ChildIsReaped
<1> QED
  BY <1>1, Invariance, PTL

\* A call that succeeds has read all of the output, save what followed an
\* over-long line, and restic exited with zero: Wait closes no pipe that holds
\* output, and a pipe closed early comes with an error.
THEOREM SuccessTheorem == Spec => []SuccessIsComplete
<1>1. IInv => SuccessIsComplete
  <2> SUFFICES ASSUME IInv, result = "ok"
               PROVE  code = "zero" /\ \A s \in lost : reader[s] = "stopped"
    BY DEF SuccessIsComplete
  <2>1. pc = "returned" /\ child = "reaped"
    BY DEF IInv, PhaseInv, FreshInv
  <2>2. code = "zero" /\ ~copyErr /\ ~watchErr /\ ~delayErr
    BY <2>1 DEF IInv, ResultInv
  <2> QED
    BY <2>2 DEF IInv, LossInv
<1> QED
  BY <1>1, Invariance, PTL

\* The outputTail by which a failure of restic is classified holds its fatal
\* message, however much was printed before it and however small the tail,
\* unless an over-long line ended the reading.
THEOREM FatalTheorem == Spec => []FatalIsSeen
<1>1. IInv => FatalIsSeen
  <2> SUFFICES ASSUME IInv, result = "exitError", fatal, reader[TailStream] # "stopped"
               PROVE  \E i \in DOMAIN tail : tail[i] = "fatal"
    BY DEF FatalIsSeen
  <2>1. pc = "returned" /\ child = "reaped"
    BY DEF IInv, PhaseInv, FreshInv
  <2>2. ctx # "canceled"
    BY <2>1 DEF IInv, ResultInv
  <2>3. TailStream \notin lost
    BY <2>2 DEF IInv, LossInv
  <2>4. pipe[TailStream] = <<>>
    BY <2>1, <2>3, StreamTypes DEF IInv, WaitInv, Ended, ReadInv
  <2>5. EndsFatal(tail)
    BY <2>4 DEF IInv, FatalInv, EndsFatal
  <2>6. tail \in Seq(Items) /\ Len(tail) \in Nat /\ Len(tail) # 0 /\ tail[Len(tail)] = "fatal"
    BY <2>5, Empty DEF IInv, TypeOK, EndsFatal
  <2>7. Len(tail) \in DOMAIN tail
    BY <2>6
  <2> QED
    BY <2>6, <2>7
<1> QED
  BY <1>1, Invariance, PTL

\* A call whose cancellation reached the restic it started returns the
\* context's error, whatever restic exited with (wait).
THEOREM CanceledTheorem == Spec => []CanceledIsNotAFailure
<1>1. IInv => CanceledIsNotAFailure
  <2> SUFFICES ASSUME IInv, pc = "returned", child # "none", termed # {}
               PROVE  result = "canceled"
    BY DEF CanceledIsNotAFailure
  <2>1. child = "reaped"
    BY DEF IInv, PhaseInv
  <2>2. watchErr
    BY <2>1 DEF IInv, WatchInv
  <2> QED
    BY <2>1, <2>2 DEF IInv, ResultInv
<1> QED
  BY <1>1, Invariance, PTL

-----------------------------------------------------------------------------
(* The refinement *)

\* What RunnerCall calls the phase of a call, and its missing output.
CallState ==
    IF pc = "returned" THEN "returned" ELSE IF child = "none" THEN "idle" ELSE "running"

Reached == child # "none" /\ termed # {}

Missing == \E s \in lost : reader[s] # "stopped"

CallView == <<CallState, code, ctx, Reached, Missing, result>>

\* RunnerCall's next-state relation, with the refinement mapping written out.
LEMMA CallNext ==
  Call!Next <=>
    \/ /\ CallState # "returned" /\ ctx' = "canceled"
       /\ UNCHANGED <<CallState, code, Reached, Missing, result>>
    \/ /\ CallState = "idle" /\ ctx = "live" /\ CallState' = "running"
       /\ UNCHANGED <<code, ctx, Reached, Missing, result>>
    \/ /\ CallState = "idle" /\ CallState' = "returned"
       /\ result' = "error" \/ (result' = "canceled" /\ ctx = "canceled")
       /\ UNCHANGED <<code, ctx, Reached, Missing>>
    \/ /\ CallState = "running" /\ ctx = "canceled" /\ Reached' = TRUE
       /\ UNCHANGED <<CallState, code, ctx, Missing, result>>
    \/ /\ CallState = "running" /\ Missing' = TRUE
       /\ UNCHANGED <<CallState, code, ctx, Reached, result>>
    \/ /\ CallState = "running" /\ code = "none"
       /\ code' \in {"zero", "one"} \/ (code' = "signal" /\ Reached)
       /\ UNCHANGED <<CallState, ctx, Reached, Missing, result>>
    \/ /\ CallState = "running" /\ code # "none" /\ CallState' = "returned"
       /\ Call!Justified(result')
       /\ UNCHANGED <<code, ctx, Reached, Missing>>
  BY DEF Call!Next, Call!Cancel, Call!Start, Call!Refuse, Call!Reach, Call!LoseOutput, Call!Exit,
         Call!Return, CallState, Reached, Missing

LEMMA CallVars == Call!vars = CallView /\ (Call!vars)' = CallView'
  BY DEF Call!vars, CallView, CallState, Reached, Missing

LEMMA CallInit == Init => Call!Init
  BY DEF Init, Call!Init

\* The steps before restic runs are a cancellation, a start, a refusal, or none.
LEMMA CallBefore ==
  ASSUME IInv,
         \/ Cancel \/ VersionStarts \/ VersionRefused \/ VersionOK \/ VersionFails
         \/ VersionKilled \/ Start \/ StartRefused \/ StartFails
  PROVE  Call!Next \/ UNCHANGED CallView
<1> USE DEF IInv
<1>0. UNCHANGED <<code, lost, reader>>
  BY DEF Cancel, VersionStarts, VersionRefused, VersionOK, VersionFails, VersionKilled, Start,
         StartRefused, StartFails, At, GiveUp, processVars, readVars
<1>1. CASE Cancel
  BY <1>1, CallNext DEF Cancel, CallState, Reached, Missing, processVars, readVars, parentVars
<1>2. CASE VersionStarts \/ VersionOK
  BY <1>2 DEF VersionStarts, VersionOK, At, CallView, CallState, Reached, Missing, PhaseInv,
              processVars, readVars
<1>3. CASE VersionRefused \/ VersionFails \/ VersionKilled \/ StartRefused \/ StartFails
  <2>1. CallState = "idle" /\ CallState' = "returned" /\ ~Reached /\ ~Reached'
        /\ UNCHANGED <<code, ctx, Missing>>
    BY <1>0, <1>3
    DEF VersionRefused, VersionFails, VersionKilled, StartRefused, StartFails, GiveUp,
        CallState, Reached, Missing, PhaseInv, processVars
  <2>2. result' = "error" \/ (result' = "canceled" /\ ctx = "canceled")
    BY <1>3 DEF VersionRefused, VersionFails, VersionKilled, StartRefused, StartFails, GiveUp
  <2> QED
    BY <2>1, <2>2, CallNext DEF Reached
<1>4. CASE Start
  <2>1. CallState = "idle" /\ CallState' = "running" /\ ctx = "live"
        /\ UNCHANGED <<code, ctx, Missing, result>>
    BY <1>0, <1>4 DEF Start, CallState, Missing, PhaseInv
  <2>2. ~Reached /\ ~Reached'
    BY <1>4 DEF Start, Reached, PhaseInv, FreshInv
  <2> QED
    BY <2>1, <2>2, CallNext DEF Reached
<1> QED
  BY <1>1, <1>2, <1>3, <1>4

\* A running call has a child, and a call that has not returned no result.
LEMMA Running ==
  ASSUME IInv, child # "none", pc # "returned"
  PROVE  CallState = "running" /\ result = "none" /\ (termed # {} => Reached)
  BY DEF IInv, PhaseInv, CallState, Reached

\* The steps of restic, its descendant, the watcher and Wait, but for the return.
LEMMA CallControl ==
  ASSUME IInv,
         \/ ChildExit \/ ChildTerminates \/ DescendantExits \/ DescendantTerminates
         \/ WatcherSignals \/ WatcherKills \/ CallWait \/ Reap \/ WatcherEnds
         \/ WaitDelayExpires
         \/ ChildFatal \/ \E s \in Streams, item \in {"line", "long"} : ChildWrite(s, item)
  PROVE  Call!Next \/ UNCHANGED CallView
<1> USE DEF IInv
<1>1. CASE ChildExit \/ ChildTerminates
  <2>1. /\ child = "running" /\ child' = "exited" /\ code' \in {"zero", "one", "signal"}
        /\ code' = "signal" => termed # {}
        /\ UNCHANGED <<pc, ctx, termed, lost, reader, result>>
    BY <1>1 DEF ChildExit, ChildTerminates, ChildDies, readVars, parentVars
  <2>2. CallState = "running" /\ code = "none"
    BY <2>1 DEF CallState, PhaseInv
  <2> QED
    BY <2>1, <2>2, CallNext DEF CallState, Reached, Missing
<1>2. CASE DescendantExits \/ DescendantTerminates
  BY <1>2
  DEF DescendantExits, DescendantTerminates, DescendantGone, CallView, CallState, Reached, Missing,
      readVars, parentVars
<1>3. CASE WatcherSignals
  <2>1. child # "none" /\ pc # "returned"
    BY <1>3 DEF WatcherSignals, FreshInv, PhaseInv
  <2> QED
    BY <1>3, <2>1, CallNext
    DEF WatcherSignals, Group, CallState, Reached, Missing, readVars
<1>4. CASE WatcherKills
  <2>1. /\ child \in {"running", "exited"} /\ child' = "exited" /\ termed # {}
        /\ pc # "returned" /\ UNCHANGED <<pc, ctx, termed, lost, reader, result>>
    BY <1>4 DEF WatcherKills, PhaseInv, WatchInv, readVars
  <2>2. CASE child = "running"
    <3>1. code = "none" /\ code' = "signal"
      BY <1>4, <2>2 DEF WatcherKills, PhaseInv
    <3> QED
      BY <2>1, <3>1, CallNext DEF CallState, Reached, Missing
  <2>3. CASE child = "exited"
    BY <1>4, <2>1, <2>3 DEF WatcherKills, CallView, CallState, Reached, Missing
  <2> QED
    BY <2>1, <2>2, <2>3
<1>5. CASE CallWait \/ Reap \/ WatcherEnds \/ WaitDelayExpires
  BY <1>5
  DEF CallWait, At, Reap, WatcherEnds, WaitDelayExpires, CallView, CallState, Reached, Missing,
      PhaseInv, processVars, readVars
<1>6. CASE ChildFatal \/ \E s \in Streams, item \in {"line", "long"} : ChildWrite(s, item)
  BY <1>6 DEF ChildFatal, ChildWrite, CallView, CallState, Reached, Missing, parentVars
<1> QED
  BY <1>1, <1>2, <1>3, <1>4, <1>5, <1>6

\* A reader only ever makes output go missing, and only while the call runs.
LEMMA CallRead ==
  ASSUME IInv, ReaderStep
  PROVE  Call!Next \/ UNCHANGED CallView
<1> USE DEF IInv
<1>0. UNCHANGED <<mode, ctx, processVars, parentVars>>
  BY DEF ReaderStep, Read, ReadTooLong, ReadEOF, ReadClosed, CopyFails
<1>1. UNCHANGED <<CallState, code, ctx, Reached, result>>
  BY <1>0 DEF CallState, Reached, processVars, parentVars
<1>2. CASE Missing' = Missing
  BY <1>1, <1>2 DEF CallView
<1>3. CASE Missing' # Missing
  <2>1. Missing => Missing'
    <3>1. lost \subseteq lost' /\ \A s \in lost : reader[s] # "stopped" => reader'[s] # "stopped"
      BY StreamTypes
      DEF ReaderStep, Read, ReadTooLong, ReadEOF, ReadClosed, CopyFails, ReaderEnds, HasInput,
          MissingInv, Ended, TypeOK
    <3> QED
      BY <3>1 DEF Missing
  <2>2. Missing' = TRUE
    BY <1>3, <2>1 DEF Missing
  <2>3. child # "none" /\ pc # "returned"
    BY <1>3, StillReading, StreamTypes
    DEF ReaderStep, Read, ReadTooLong, ReadEOF, ReadClosed, CopyFails, HasInput, FreshInv, Streams
  <2>4. CallState = "running"
    BY <2>3, Running
  <2> QED
    BY <1>1, <2>2, <2>4, CallNext
<1> QED
  BY <1>2, <1>3

\* What the call returns is justified by what has happened.
LEMMA CallReturn == IInv /\ Return => Call!Next
<1> SUFFICES ASSUME IInv, Return PROVE Call!Next
  OBVIOUS
<1> USE DEF IInv
<1>1. /\ pc = "reaped" /\ pc' = "returned" /\ child = "reaped" /\ result' = resultOf
      /\ UNCHANGED <<ctx, child, code, termed, reader>>
  BY DEF Return, PhaseInv, processVars
<1>2. CallState = "running" /\ CallState' = "returned" /\ code # "none"
      /\ UNCHANGED <<code, ctx, Reached>>
  BY <1>1 DEF CallState, Reached, PhaseInv
<1>3. lost' = lost
  BY <1>1 DEF Return, WaitInv, Ended, ReadBeforeWait, Streams, ReadInv
<1>4. Missing' = Missing
  BY <1>1, <1>3 DEF Missing
<1>5. Call!Justified(result')
  <2>1. Reached => watchErr
    BY DEF Reached, WatchInv
  <2>2. watchErr => ctx = "canceled"
    BY DEF WatchInv
  <2>3. Missing => copyErr \/ watchErr \/ delayErr
    BY DEF Missing, LossInv
  <2>4. copyErr \/ delayErr => Missing
    BY DEF Return, MissingInv, Ended, GaveUp, Missing, Ended
  <2>5. ctx \in {"live", "canceled"}
    BY DEF TypeOK
  <2> QED
    BY <1>1, <1>2, <2>1, <2>2, <2>3, <2>4, <2>5
    DEF resultOf, WaitFailed, Call!Justified, Reached, Missing
<1> QED
  BY <1>2, <1>4, <1>5, CallNext DEF Return

\* The runner implements RunnerCall: whatever the goroutines, restic, its
\* descendant and the cancellation do, and in whatever order, the caller sees one
\* call that starts restic at most once and returns what its end justifies.
THEOREM RefinementTheorem == Spec => ImplementsRunnerCall
<1>1. IInv /\ [Next]_vars => [Call!Next]_(Call!vars)
  <2> SUFFICES ASSUME IInv, [Next]_vars PROVE Call!Next \/ UNCHANGED CallView
    BY CallVars
  <2>1. CASE Cancel \/ VersionKilled
    BY <2>1, CallBefore
  <2>2. CASE ReaderStep
    BY <2>2, CallRead
  <2>3. CASE WatcherStep
    BY <2>3, CallControl DEF WatcherStep
  <2>4. CASE CallerStep
    BY <2>4, CallBefore, CallControl, CallReturn DEF CallerStep
  <2>5. CASE ChildStep \/ ChildFatal
    BY <2>5, CallBefore, CallControl DEF ChildStep
  <2>6. CASE ChildTerminates \/ DescendantTerminates
    BY <2>6, CallControl
  <2>7. CASE Finished \/ UNCHANGED vars
    BY <2>7
    DEF Finished, vars, processVars, readVars, parentVars, CallView, CallState, Reached, Missing
  <2> QED
    BY <2>1, <2>2, <2>3, <2>4, <2>5, <2>6, <2>7 DEF Next, SignalStep
<1>2. Call!Init /\ [][Call!Next]_(Call!vars) => Call!Spec
  BY DEF Call!Spec
<1> QED
  BY <1>1, CallInit, Invariance, PTL DEF Spec, ImplementsRunnerCall, Call!Spec

-----------------------------------------------------------------------------
(* Termination.  CallReturns and CancelReturns need fairness; what they need *)
(* besides it are two facts about safety: somebody can always go on, and     *)
(* every step brings the call closer to its end.                             *)

\* How far the watcher has come, and what has been closed or lost by then.
ProgressInv ==
    /\ watcher = "done" => pc \in {"reaped", "returned"}
    /\ watcher = "killed" => child # "running"
    /\ closed => child # "running"
    /\ fatal => \A s \in Streams : left[s] = 0
    /\ child # "none" /\ termed # {} => termed = Group
    /\ \A s \in lost : reader[s] = "done" => copyErr \/ closed

\* Where a step of the run leaves what ProgressInv is about: one case each.
LEMMA ProgressNext ==
  ASSUME IInv, ProgressInv, [Next]_vars
  PROVE  ProgressInv'
<1> USE DEF ProgressInv
<1>1. CASE Cancel \/ VersionStarts \/ VersionRefused \/ VersionOK \/ VersionFails
             \/ StartRefused \/ StartFails
  BY <1>1
  DEF Cancel, VersionStarts, VersionRefused, VersionOK, VersionFails, StartRefused, StartFails,
      At, GiveUp, Streams, IInv, PhaseInv, FreshInv, processVars, readVars, parentVars
<1>2. CASE VersionKilled \/ Start
  BY <1>2
  DEF VersionKilled, Start, Streams, IInv, PhaseInv, FreshInv, readVars
<1>3. CASE ChildFatal \/ \E s \in Streams, item \in {"line", "long"} : ChildWrite(s, item)
  <2>1. UNCHANGED <<mode, watcher, pc, child, closed, termed, lost, reader, copyErr>>
    BY <1>3 DEF ChildFatal, ChildWrite, parentVars
  <2>2. fatal' => \A s \in Streams : left'[s] = 0
    BY <1>3, StreamTypes DEF ChildFatal, ChildWrite, CanWrite, IInv
  <2> QED
    BY <2>1, <2>2 DEF Streams, Group
<1>4. CASE ChildExit \/ ChildTerminates \/ DescendantExits \/ DescendantTerminates
  BY <1>4
  DEF ChildExit, ChildTerminates, ChildDies, DescendantExits, DescendantTerminates,
      DescendantGone, Streams, Group, readVars, parentVars
<1>5. CASE WatcherStep
  <2>1. CASE WatcherSignals
    BY <2>1 DEF WatcherSignals, Streams, readVars
  <2>2. CASE WatcherKills
    <3>1. child' # "running" /\ UNCHANGED <<mode, left, fatal, termed, copyErr, lost, reader>>
      BY <2>2 DEF WatcherKills, readVars
    <3>2. child # "none" /\ watcher' = "killed" /\ (closed => closed')
      BY <2>2 DEF WatcherKills, IInv, PhaseInv, TypeOK
    <3> QED
      BY <3>1, <3>2 DEF Streams, Group
  <2> QED
    BY <1>5, <2>1, <2>2 DEF WatcherStep
<1>6. CASE CallWait \/ Reap \/ WatcherEnds \/ WaitDelayExpires
  BY <1>6
  DEF CallWait, At, Reap, WatcherEnds, WaitDelayExpires, Streams, Group, processVars, readVars,
      IInv, PhaseInv
<1>7. CASE Return
  BY <1>7 DEF Return, Streams, Group, processVars, IInv, PhaseInv
<1>8. CASE ReaderStep
  <2>1. UNCHANGED <<mode, processVars, parentVars>>
    BY <1>8 DEF ReaderStep, Read, ReadTooLong, ReadEOF, ReadClosed, CopyFails
  <2>2. reader \in [{"out", "err"} -> {"reading", "done", "stopped"}] /\ lost \subseteq {"out", "err"}
        /\ \A s \in lost : reader[s] # "reading"
    BY DEF IInv, TypeOK, MissingInv, Ended
  <2>3. ASSUME NEW s \in Streams, Read(s) \/ ReadTooLong(s) \/ ReadEOF(s) \/ ReadClosed(s)
        PROVE  \A r \in lost' : reader'[r] = "done" => copyErr' \/ closed'
    <3>1. s \in {"out", "err"}
      BY StreamTypes DEF IInv
    <3>2. CASE Read(s)
      BY <2>1, <3>2 DEF Read, parentVars
    <3>3. CASE ReadTooLong(s)
      BY <2>1, <2>2, <3>1, <3>3 DEF ReadTooLong, parentVars
    <3>4. CASE ReadEOF(s)
      BY <2>1, <2>2, <3>1, <3>4 DEF ReadEOF, ReaderEnds, parentVars
    <3>5. CASE ReadClosed(s)
      BY <2>1, <3>5 DEF ReadClosed, parentVars
    <3> QED
      BY <2>3, <3>2, <3>3, <3>4, <3>5
  <2>4. CopyFails => copyErr'
    BY DEF CopyFails
  <2>6. \A s \in lost' : reader'[s] = "done" => copyErr' \/ closed'
    BY <1>8, <2>3, <2>4 DEF ReaderStep
  <2> QED
    BY <2>1, <2>6 DEF Streams, Group, processVars, parentVars
<1>9. CASE Finished \/ UNCHANGED vars
  BY <1>9 DEF Finished, vars, processVars, readVars, parentVars, Streams, Group
<1> QED
  BY <1>1, <1>2, <1>3, <1>4, <1>5, <1>6, <1>7, <1>8, <1>9
  DEF Next, CallerStep, ChildStep, SignalStep

LEMMA ProgressCorrect == Spec => [](IInv /\ ProgressInv)
<1>1. Init => ProgressInv
  BY DEF Init, ProgressInv, Streams
<1> QED
  BY <1>1, ProgressNext, Invariance, PTL DEF Spec

\* As long as restic has something to print, it can print it or a reader can
\* make room.
LEMMA RunningGoesOn ==
  ASSUME IInv, ProgressInv, child = "running", ~copyErr,
         \A s \in Streams : reader[s] # "stopped"
  PROVE  IcebeamGoesOn \/ ResticGoesOn
<1>1. CASE \A s \in Streams : left[s] = 0
  BY <1>1 DEF ResticGoesOn
<1>2. CASE ~ \A s \in Streams : left[s] = 0
  <2>1. PICK s \in Streams : left[s] # 0
    BY <1>2
  <2>2. ~fatal /\ ~closed
    BY <2>1 DEF ProgressInv
  <2>3. s \in {"out", "err"} /\ pipe[s] \in Seq(Items) /\ left[s] \in 0..Lines
        /\ reader[s] \in {"reading", "done", "stopped"} /\ Len(pipe[s]) <= PipeCap
    BY StreamTypes DEF IInv, TypeOK
  <2>4. CASE Len(pipe[s]) < PipeCap
    BY <2>1, <2>2, <2>3, <2>4, RunnerAssumption DEF ResticGoesOn, CanWrite
  <2>5. CASE ~(Len(pipe[s]) < PipeCap)
    <3>1. pipe[s] # <<>>
      BY <2>3, <2>5, Empty, RunnerAssumption
    <3>2. reader[s] = "reading"
      <4>1. CASE s \in lost
        BY <2>2, <2>3, <4>1 DEF ProgressInv
      <4>2. CASE s \notin lost
        BY <2>3, <3>1, <4>2 DEF IInv, ReadInv, Ended
      <4> QED
        BY <4>1, <4>2
    <3> QED
      BY <3>1, <3>2 DEF IcebeamGoesOn
  <2> QED
    BY <2>4, <2>5
<1> QED
  BY <1>1, <1>2

\* Once restic is gone, the caller, a reader or the watcher can go on, unless its
\* descendant holds the pipes.
LEMMA ExitedGoesOn ==
  ASSUME IInv, pc # "returned", child = "exited", ~(HasDescendant /\ holds)
  PROVE  IcebeamGoesOn
<1>1. pc \in {"reading", "waiting"} /\ ~WriterAlive
  BY DEF IInv, PhaseInv, TypeOK, WriterAlive
<1>2. ReadBeforeWait \subseteq Streams
  BY DEF ReadBeforeWait, Streams
<1> QED
  BY <1>1, <1>2 DEF IcebeamGoesOn, Ended

\* No deadlock: with a writer that takes the output and lines that fit the
\* scanner, at every moment before the call returns icebeam can go on or restic
\* can, for pipes of any size and any amount of output.  Nobody waits for a reader
\* that waits for another stream, and Wait is not called while restic is blocked.
THEOREM NobodyWaitsTheorem == Spec => []NobodyWaitsForEverybody
<1>1. IInv /\ ProgressInv => NobodyWaitsForEverybody
  <2> SUFFICES ASSUME IInv, ProgressInv, pc # "returned", ~copyErr,
                      \A s \in Streams : reader[s] # "stopped"
               PROVE  IcebeamGoesOn \/ ResticGoesOn
    BY DEF NobodyWaitsForEverybody
  <2>1. CASE child = "running"
    BY <2>1, RunningGoesOn
  <2>2. CASE child = "exited"
    BY <2>2, ExitedGoesOn DEF ResticGoesOn
  <2>3. CASE child \in {"none", "reaped"}
    BY <2>3 DEF IcebeamGoesOn, ResticGoesOn, IInv, TypeOK, PhaseInv
  <2> QED
    BY <2>1, <2>2, <2>3 DEF IInv, TypeOK
<1> QED
  BY <1>1, ProgressCorrect, PTL

\* A canceled call never depends on restic's good will: whether restic hangs,
\* ignores SIGTERM or blocks, whether a line is too long or the writer has failed,
\* icebeam or a signal it has sent can go on, unless a descendant that ignores
\* SIGTERM holds the pipes.
THEOREM CancelTheorem == Spec => []CancelUnblocks
<1>1. IInv /\ ProgressInv => CancelUnblocks
  <2> SUFFICES ASSUME IInv, ProgressInv, pc # "returned", ctx = "canceled",
                      ~(descendant = "ignores" /\ holds)
               PROVE  IcebeamGoesOn \/ SignalGoesOn
    BY DEF CancelUnblocks
  <2>1. CASE child = "none"
    BY <2>1 DEF IcebeamGoesOn, SignalGoesOn, IInv, TypeOK, PhaseInv
  <2>2. CASE child = "reaped"
    BY <2>2 DEF IcebeamGoesOn, IInv, TypeOK, PhaseInv
  <2>3. CASE child \in {"running", "exited"} /\ watcher # "killed"
    BY <2>3 DEF IcebeamGoesOn, ProgressInv, IInv, TypeOK, PhaseInv, WatchInv
  <2>4. CASE child \in {"running", "exited"} /\ watcher = "killed"
    <3>1. child = "exited" /\ termed = Group
      BY <2>4 DEF ProgressInv, IInv, WatchInv
    <3>2. CASE HasDescendant /\ holds
      BY <3>1, <3>2 DEF HasDescendant, Group, SignalGoesOn
    <3> QED
      BY <3>1, <3>2, ExitedGoesOn
  <2> QED
    BY <2>1, <2>2, <2>3, <2>4 DEF IInv, TypeOK
<1> QED
  BY <1>1, ProgressCorrect, PTL

Counted ==
    /\ CallerSteps \in Nat /\ WatcherSteps \in Nat /\ OutputSteps \in Nat
    /\ ReaderSteps \in Nat /\ OtherSteps \in Nat

LEMMA PrintType ==
  ASSUME TypeOK
  PROVE  ToPrint \in Nat /\ left["out"] \in Nat /\ left["err"] \in Nat
<1>1. left["out"] \in 0..Lines /\ left["err"] \in 0..Lines /\ Lines \in Nat
  BY RunnerAssumption DEF TypeOK
<1> QED
  BY <1>1 DEF ToPrint

\* Sums of two numbers one of which changes by one.
LEMMA SumType == ASSUME NEW a \in Nat, NEW b \in Nat PROVE a + b \in Nat
  OBVIOUS

LEMMA SumLess ==
  \A a, b \in Nat : (a - 1) + b = (a + b) - 1 /\ a + (b - 1) = (a + b) - 1
  OBVIOUS

LEMMA SumMore ==
  \A a, b \in Nat : (a + 1) + b = (a + b) + 1 /\ a + (b + 1) = (a + b) + 1
  OBVIOUS

LEMMA StepTypes == TypeOK => Counted
<1> SUFFICES ASSUME TypeOK PROVE Counted
  OBVIOUS
<1>1. CallerSteps \in Nat
  BY DEF TypeOK, CallerSteps
<1>2. WatcherSteps \in Nat
  BY DEF TypeOK, WatcherSteps
<1>4. pipe["out"] \in Seq(Items) /\ pipe["err"] \in Seq(Items)
  BY DEF TypeOK
<1>5. Len(pipe["out"]) \in Nat /\ Len(pipe["err"]) \in Nat
  BY <1>4, Empty
<1>6. OutputSteps \in Nat
  <2>1. ToPrint \in Nat
    BY PrintType
  <2>2. ToRead \in Nat
    BY <1>5, SumType, Zenon DEF ToRead
  <2> QED
    BY <2>1, <2>2 DEF OutputSteps
<1>7. ReaderSteps \in Nat /\ OtherSteps \in Nat
  BY DEF ReaderSteps, OtherSteps
<1> QED
  BY <1>1, <1>2, <1>6, <1>7 DEF Counted

LEMMA NextStepTypes == TypeOK' => Counted'
  BY StepTypes, PTL

\* What a step does to a part it does not change.
LEMMA Unchanged ==
  /\ pc' = pc => CallerSteps' = CallerSteps
  /\ watcher' = watcher => WatcherSteps' = WatcherSteps
  /\ left' = left /\ fatal' = fatal /\ pipe' = pipe => OutputSteps' = OutputSteps
  /\ reader' = reader => ReaderSteps' = ReaderSteps
  /\ child' = child /\ descendant' = descendant /\ closed' = closed => OtherSteps' = OtherSteps
<1>1. pc' = pc => CallerSteps' = CallerSteps
  BY DEF CallerSteps
<1>2. watcher' = watcher => WatcherSteps' = WatcherSteps
  BY DEF WatcherSteps
<1>3. left' = left /\ fatal' = fatal /\ pipe' = pipe => OutputSteps' = OutputSteps
  BY DEF OutputSteps, ToPrint, ToRead
<1>4. reader' = reader => ReaderSteps' = ReaderSteps
  BY DEF ReaderSteps
<1>5. child' = child /\ descendant' = descendant /\ closed' = closed => OtherSteps' = OtherSteps
  BY DEF OtherSteps
<1> QED
  BY <1>1, <1>2, <1>3, <1>4, <1>5

\* The steps of the caller, and os/exec's.
LEMMA ControlCounts ==
  ASSUME IInv, TypeOK',
         \/ VersionStarts \/ VersionRefused \/ VersionOK \/ VersionFails \/ VersionKilled
         \/ Start \/ StartRefused \/ StartFails
         \/ WatcherSignals \/ WatcherKills \/ CallWait \/ Reap \/ WatcherEnds
         \/ WaitDelayExpires \/ Return
  PROVE  StepsLeft' < StepsLeft
<1>0. OutputSteps' = OutputSteps /\ ReaderSteps' = ReaderSteps
  <2>1. UNCHANGED <<left, fatal, pipe, reader>>
    BY DEF VersionStarts, VersionRefused, VersionOK, VersionFails, VersionKilled, Start,
       StartRefused, StartFails, At, GiveUp, WatcherSignals, WatcherKills, CallWait, Reap,
       WatcherEnds, WaitDelayExpires, Return, processVars, readVars
  <2> QED
    BY <2>1, Unchanged
<1>1. CASE VersionStarts \/ VersionRefused \/ VersionOK \/ VersionFails \/ VersionKilled
             \/ StartRefused \/ StartFails \/ CallWait \/ Return
  <2>1. CallerSteps' < CallerSteps
    BY <1>1
    DEF VersionStarts, VersionRefused, VersionOK, VersionFails, VersionKilled, StartRefused,
        StartFails, At, GiveUp, CallWait, Return, CallerSteps, IInv, TypeOK
  <2>2. UNCHANGED <<watcher, child, descendant>> /\ (closed => closed')
    BY <1>1
    DEF VersionStarts, VersionRefused, VersionOK, VersionFails, VersionKilled, StartRefused,
        StartFails, At, GiveUp, CallWait, Return, processVars
  <2>3. WatcherSteps' = WatcherSteps
    BY <2>2, Unchanged
  <2>4. OtherSteps' <= OtherSteps
    BY <2>2 DEF OtherSteps
  <2> QED
    BY <1>0, <2>1, <2>3, <2>4, StepTypes, NextStepTypes DEF StepsLeft, Counted, IInv
<1>2. CASE Start \/ Reap
  <2>1. CallerSteps' < CallerSteps
    BY <1>2 DEF Start, Reap, CallerSteps
  <2>3. WatcherSteps' <= WatcherSteps
    <3>1. CASE Start
      BY <3>1 DEF Start, WatcherSteps, IInv, PhaseInv, FreshInv
    <3>2. CASE Reap
      BY <3>2, Unchanged, StepTypes DEF Reap, Counted, IInv
    <3> QED
      BY <1>2, <3>1, <3>2
  <2>2. OtherSteps' <= OtherSteps
    BY <1>2 DEF Start, Reap, OtherSteps, IInv, PhaseInv
  <2> QED
    BY <1>0, <2>1, <2>2, <2>3, StepTypes, NextStepTypes DEF StepsLeft, Counted, IInv
<1>3. CASE WatcherSignals \/ WatcherKills \/ WatcherEnds
  <2>1. WatcherSteps' < WatcherSteps
    BY <1>3 DEF WatcherSignals, WatcherKills, WatcherEnds, WatcherSteps, IInv, TypeOK
  <2>2. CallerSteps' = CallerSteps
    BY <1>3, Unchanged DEF WatcherSignals, WatcherKills, WatcherEnds
  <2>3. child' \in {child, "exited"} /\ descendant' = descendant /\ (closed => closed')
    <3>1. CASE WatcherKills
      BY <3>1 DEF WatcherKills
    <3>2. CASE WatcherSignals \/ WatcherEnds
      BY <3>2 DEF WatcherSignals, WatcherEnds, processVars
    <3> QED
      BY <1>3, <3>1, <3>2
  <2>4. OtherSteps' <= OtherSteps
    BY <2>3 DEF OtherSteps
  <2> QED
    BY <1>0, <2>1, <2>2, <2>4, StepTypes, NextStepTypes DEF StepsLeft, Counted, IInv
<1>4. CASE WaitDelayExpires
  <2>1. OtherSteps' < OtherSteps
    BY <1>4 DEF WaitDelayExpires, OtherSteps, processVars
  <2>2. CallerSteps' = CallerSteps /\ WatcherSteps' = WatcherSteps
    BY <1>4, Unchanged DEF WaitDelayExpires
  <2> QED
    BY <1>0, <2>1, <2>2, StepTypes, NextStepTypes DEF StepsLeft, Counted, IInv
<1> QED
  BY <1>1, <1>2, <1>3, <1>4

\* restic and its descendant end.
LEMMA ProcessCounts ==
  ASSUME IInv, TypeOK', ChildExit \/ ChildTerminates \/ DescendantExits \/ DescendantTerminates
  PROVE  StepsLeft' < StepsLeft
<1>1. UNCHANGED <<left, fatal, pipe, reader, pc, watcher, closed>>
  BY DEF ChildExit, ChildTerminates, ChildDies, DescendantExits, DescendantTerminates,
     DescendantGone, readVars, parentVars
<1>2. \/ child = "running" /\ child' = "exited" /\ descendant' = descendant
      \/ child' = child /\ descendant # "gone" /\ descendant' = "gone"
  BY DEF ChildExit, ChildTerminates, ChildDies, DescendantExits, DescendantTerminates,
     DescendantGone, HasDescendant
<1>3. OtherSteps' < OtherSteps
  BY <1>1, <1>2 DEF OtherSteps
<1> QED
  BY <1>1, <1>3, Unchanged, StepTypes, NextStepTypes DEF StepsLeft, Counted, IInv

\* A reader takes a line or ends.
LEMMA ReaderCounts ==
  ASSUME IInv, TypeOK', ReaderStep
  PROVE  StepsLeft' < StepsLeft
<1>1. UNCHANGED <<left, fatal, pc, watcher, child, descendant, closed>>
  BY DEF ReaderStep, Read, ReadTooLong, ReadEOF, ReadClosed, CopyFails, processVars, parentVars
<1>2. reader \in [{"out", "err"} -> {"reading", "done", "stopped"}]
      /\ pipe \in [{"out", "err"} -> Seq(Items)] /\ Streams \subseteq {"out", "err"}
  BY StreamTypes DEF IInv, TypeOK
<1>3. PICK s \in {"out", "err"} :
          \/ /\ pipe[s] # <<>> /\ pipe' = [pipe EXCEPT ![s] = Tail(@)]
             /\ reader' = reader \/ reader' = [reader EXCEPT ![s] = "stopped"]
                \/ reader' = [reader EXCEPT ![s] = "done"]
          \/ /\ pipe' = pipe /\ reader[s] = "reading" /\ reader' = [reader EXCEPT ![s] = "done"]
  <2>1. CASE CopyFails
    BY <2>1 DEF CopyFails, HasInput, ReaderEnds
  <2>2. ASSUME NEW s \in Streams, Read(s) \/ ReadTooLong(s)
        PROVE  /\ pipe[s] # <<>> /\ pipe' = [pipe EXCEPT ![s] = Tail(@)]
               /\ reader' = reader \/ reader' = [reader EXCEPT ![s] = "stopped"]
    BY <2>2 DEF Read, ReadTooLong, HasInput
  <2>3. ASSUME NEW s \in Streams, ReadEOF(s) \/ ReadClosed(s)
        PROVE  pipe' = pipe /\ reader[s] = "reading" /\ reader' = [reader EXCEPT ![s] = "done"]
    BY <2>3 DEF ReadEOF, ReadClosed, ReaderEnds
  <2> QED
    BY <1>2, <2>1, <2>2, <2>3 DEF ReaderStep
<1>4. CASE pipe' = pipe
  <2>1. ReaderSteps' < ReaderSteps
    BY <1>2, <1>3, <1>4 DEF ReaderSteps
  <2> QED
    BY <1>1, <1>4, <2>1, Unchanged, StepTypes, NextStepTypes DEF StepsLeft, Counted, IInv
<1>5. CASE pipe' # pipe
  <2>1. pipe[s] # <<>> /\ pipe' = [pipe EXCEPT ![s] = Tail(@)] /\ pipe[s] \in Seq(Items)
    BY <1>2, <1>3, <1>5
  <2>2. ReaderSteps' <= ReaderSteps
    BY <1>2, <1>3, <1>5 DEF ReaderSteps
  <2>3. Len(pipe[s]) \in Nat \ {0} /\ Len(pipe'[s]) = Len(pipe[s]) - 1
    BY <1>2, <2>1, HeadTail
  <2>4. Len(pipe["out"]) \in Nat /\ Len(pipe["err"]) \in Nat
    BY <1>2, Empty
  <2>5. /\ \/ Len(pipe'["out"]) = Len(pipe["out"]) - 1 /\ pipe'["err"] = pipe["err"]
           \/ Len(pipe'["err"]) = Len(pipe["err"]) - 1 /\ pipe'["out"] = pipe["out"]
    BY <1>2, <2>1, <2>3
  <2>6. OutputSteps' < OutputSteps
    <3>1. ToPrint \in Nat /\ ToPrint' = ToPrint
      BY <1>1, PrintType DEF ToPrint, IInv
    <3>2. ToRead \in Nat
      BY <2>4, SumType, Zenon DEF ToRead
    <3>3. ToRead' = ToRead - 1
      <4>1. \/ Len(pipe'["out"]) = Len(pipe["out"]) - 1 /\ Len(pipe'["err"]) = Len(pipe["err"])
            \/ Len(pipe'["out"]) = Len(pipe["out"]) /\ Len(pipe'["err"]) = Len(pipe["err"]) - 1
        BY <2>5
      <4>2. Len(pipe'["out"]) + Len(pipe'["err"]) = (Len(pipe["out"]) + Len(pipe["err"])) - 1
        BY <2>4, <4>1, SumLess, Zenon
      <4> QED
        BY <4>2, Zenon DEF ToRead
    <3> QED
      BY <1>1, <3>1, <3>2, <3>3 DEF OutputSteps
  <2> QED
    BY <1>1, <2>2, <2>6, Unchanged, StepTypes, NextStepTypes DEF StepsLeft, Counted, IInv
<1> QED
  BY <1>4, <1>5

\* restic prints a line, or its fatal message in place of what was left.
LEMMA PrintCounts ==
  ASSUME IInv, TypeOK',
         ChildFatal \/ \E s \in Streams, item \in {"line", "long"} : ChildWrite(s, item)
  PROVE  StepsLeft' < StepsLeft
<1>1. UNCHANGED <<reader, pc, watcher, child, descendant, closed>>
  BY DEF ChildFatal, ChildWrite, parentVars
<1>2. /\ left \in [{"out", "err"} -> 0..Lines] /\ pipe \in [{"out", "err"} -> Seq(Items)]
      /\ Streams \subseteq {"out", "err"} /\ TailStream \in {"out", "err"} /\ Lines \in Nat
  BY StreamTypes, RunnerAssumption DEF IInv, TypeOK
<1>3. ASSUME NEW s \in {"out", "err"}, NEW item \in Items,
             pipe' = [pipe EXCEPT ![s] = Append(@, item)]
      PROVE  ToRead \in Nat /\ ToRead' = ToRead + 1
  <2>1. Len(pipe["out"]) \in Nat /\ Len(pipe["err"]) \in Nat
    BY <1>2, Empty
  <2>2. Len(pipe'[s]) = Len(pipe[s]) + 1
    BY <1>2, <1>3, Appended
  <2>3. \/ Len(pipe'["out"]) = Len(pipe["out"]) + 1 /\ pipe'["err"] = pipe["err"]
        \/ Len(pipe'["err"]) = Len(pipe["err"]) + 1 /\ pipe'["out"] = pipe["out"]
    BY <1>2, <1>3, <2>2
  <2>4. ToRead \in Nat
    BY <2>1, SumType, Zenon DEF ToRead
  <2>5. ToRead' = ToRead + 1
    <3>1. \/ Len(pipe'["out"]) = Len(pipe["out"]) + 1 /\ Len(pipe'["err"]) = Len(pipe["err"])
          \/ Len(pipe'["out"]) = Len(pipe["out"]) /\ Len(pipe'["err"]) = Len(pipe["err"]) + 1
      BY <2>3
    <3>2. Len(pipe'["out"]) + Len(pipe'["err"]) = (Len(pipe["out"]) + Len(pipe["err"])) + 1
      BY <2>1, <3>1, SumMore, Zenon
    <3> QED
      BY <3>2, Zenon DEF ToRead
  <2> QED
    BY <2>4, <2>5
<1>5. ASSUME ChildFatal PROVE OutputSteps' < OutputSteps
  <2>1. ~fatal /\ fatal'
    BY <1>5 DEF ChildFatal, CanWrite
  <2>2. ToPrint' = 0 /\ ToPrint \in Nat /\ ToPrint # 0
    BY <2>1, PrintType DEF ToPrint, IInv
  <2>3. ToRead \in Nat /\ ToRead' = ToRead + 1
    BY <1>2, <1>3, <1>5 DEF ChildFatal, Items
  <2> QED
    BY <2>2, <2>3 DEF OutputSteps
<1>6. ASSUME NEW s \in Streams, NEW item \in {"line", "long"}, ChildWrite(s, item)
      PROVE  OutputSteps' < OutputSteps
  <2>1. ~fatal /\ ~fatal' /\ left[s] > 0 /\ left' = [left EXCEPT ![s] = @ - 1]
    BY <1>6 DEF ChildWrite, CanWrite
  <2>2. left["out"] \in Nat /\ left["err"] \in Nat /\ ToPrint \in Nat
    BY PrintType DEF IInv
  <2>3. ToPrint' = ToPrint - 1
    BY <1>2, <2>1, <2>2 DEF ToPrint
  <2>4. ToRead \in Nat /\ ToRead' = ToRead + 1
    BY <1>2, <1>3, <1>6 DEF ChildWrite, Items
  <2> QED
    BY <2>2, <2>3, <2>4 DEF OutputSteps
<1> QED
  BY <1>1, <1>5, <1>6, Unchanged, StepTypes, NextStepTypes DEF StepsLeft, Counted, IInv

\* Every step but the cancellation brings the call closer to its end, so a call
\* takes at most as many steps as StepsLeft counts at its start, whatever restic
\* prints, in whatever order the goroutines run, canceled or not.
THEOREM CountsTheorem == Spec => EveryStepCounts /\ [](StepsLeft \in Nat)
<1>1. IInv => StepsLeft \in Nat
  BY StepTypes DEF StepsLeft, Counted, IInv
<1>2. IInv /\ IInv' /\ [Next]_vars => [ctx' = ctx => StepsLeft' < StepsLeft]_vars
  <2> SUFFICES ASSUME IInv, IInv', Next, ctx' = ctx, vars' # vars
               PROVE  StepsLeft' < StepsLeft
    OBVIOUS
  <2>1. TypeOK'
    BY DEF IInv
  <2>2. ~Cancel /\ ~Finished
    BY DEF Cancel, Finished
  <2> QED
    BY <2>1, <2>2, ControlCounts, ProcessCounts, ReaderCounts, PrintCounts
    DEF Next, WatcherStep, CallerStep, ChildStep, SignalStep
<1> QED
  BY <1>1, <1>2, Invariance, PTL DEF Spec, EveryStepCounts

=============================================================================
