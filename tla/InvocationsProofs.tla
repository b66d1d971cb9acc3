-------------------------- MODULE InvocationsProofs --------------------------
(***************************************************************************)
(* Proofs about Invocations.  Every step of a command is a step of the log *)
(* or none, and a step of the repository or none; what LogFileProofs and   *)
(* RetentionProofs establish of those holds of the commands together.      *)
(***************************************************************************)
EXTENDS Invocations, VersionsProofs, TLAPS

L == INSTANCE LogFileProofs
R == INSTANCE RetentionProofs

-----------------------------------------------------------------------------
(* The two instances of Retention are one *)

LEMMA SameConstants ==
  /\ Repository!RetentionAssumption => R!RetentionAssumption
  /\ Repository!TagsDistinct => R!TagsDistinct
  BY DEF Repository!RetentionAssumption, R!RetentionAssumption, Repository!Periods, R!Periods,
         Repository!Times, R!Times, Repository!TagsDistinct, R!TagsDistinct

LEMMA SameKept ==
  ASSUME NEW S, NEW policy
  PROVE  Repository!Kept(S, policy) = R!Kept(S, policy)
<1>1. ASSUME NEW k, NEW x
      PROVE  /\ Repository!NewestOfBucket(k, x, S) = R!NewestOfBucket(k, x, S)
             /\ Repository!LaterBuckets(k, x, S) = R!LaterBuckets(k, x, S)
  BY DEF Repository!NewestOfBucket, R!NewestOfBucket, Repository!LaterBuckets,
         R!LaterBuckets, Repository!Bucket, R!Bucket
<1>2. \A T : Repository!Cardinality(T) = R!Cardinality(T)
  BY Zenon DEF Repository!Cardinality, R!Cardinality, Repository!IsFiniteSet, R!IsFiniteSet
<1>3. Repository!Periods = R!Periods
  BY DEF Repository!Periods, R!Periods
<1>4. \A x \in S : (\E k \in Repository!Periods :
                      /\ policy[k] > 0
                      /\ Repository!NewestOfBucket(k, x, S)
                      /\ Repository!Cardinality(Repository!LaterBuckets(k, x, S)) < policy[k])
                 <=> (\E k \in R!Periods :
                      /\ policy[k] > 0
                      /\ R!NewestOfBucket(k, x, S)
                      /\ R!Cardinality(R!LaterBuckets(k, x, S)) < policy[k])
  BY <1>1, <1>2, <1>3, Zenon
<1>5. \A x : x \in Repository!Kept(S, policy) <=> x \in R!Kept(S, policy)
  BY <1>4, ZenonT(60) DEF Repository!Kept, R!Kept
<1> QED
  BY <1>5

LEMMA SameForgotten ==
  ASSUME NEW policy, NEW dryRun
  PROVE  Repository!Forgotten(policy, dryRun) = R!Forgotten(policy, dryRun)
<1>1. Repository!NoPolicy(policy) = R!NoPolicy(policy)
  BY DEF Repository!NoPolicy, R!NoPolicy, Repository!Periods, R!Periods
<1>2. \A x : Repository!Group(x) = R!Group(x)
  BY DEF Repository!Group, R!Group, Repository!GroupOf, R!GroupOf
<1> QED
  BY <1>1, <1>2, SameKept DEF Repository!Forgotten, R!Forgotten

LEMMA SameOf == \A s : Repository!Of(s) = R!Of(s) /\ Repository!Made(s) = R!Made(s)
  BY DEF Repository!Of, R!Of, Repository!Made, R!Made

LEMMA SameInit == Repository!Init => R!Init
  BY DEF Repository!Init, R!Init

LEMMA SameNext == [Repository!Next]_Repository!vars => [R!Next]_R!vars
<1>1. Repository!Tick => R!Tick
  BY DEF Repository!Tick, R!Tick
<1>2. \A s \in Sources : Repository!Backup(s) => R!Backup(s)
  BY DEF Repository!Backup, R!Backup
<1>3. \A policy \in Policies, dryRun \in BOOLEAN :
         Repository!Forget(policy, dryRun) => R!Forget(policy, dryRun)
  BY SameForgotten DEF Repository!Forget, R!Forget
<1> QED
  BY <1>1, <1>2, <1>3 DEF Repository!Next, R!Next, Repository!vars, R!vars

LEMMA SamePruned ==
  [~(snapshots \subseteq snapshots') =>
      \E policy \in Policies : \A s \in Sources : R!Of(s)' = R!Kept(R!Of(s), policy)]_R!vars
  =>
  [~(snapshots \subseteq snapshots') =>
      \E policy \in Policies : \A s \in Sources :
         Repository!Of(s)' = Repository!Kept(Repository!Of(s), policy)]_Repository!vars
<1>1. \A s : R!Of(s) = Repository!Of(s) /\ R!Of(s)' = Repository!Of(s)'
  BY DEF R!Of, Repository!Of
<1>2. R!vars = Repository!vars /\ R!vars' = Repository!vars'
  BY DEF R!vars, Repository!vars
<1> QED
  BY <1>1, <1>2, SameKept

LEMMA SameLatest == R!LatestSurvives => LatestSurvives
  BY DEF LatestSurvives, Repository!LatestSurvives, R!LatestSurvives, Repository!Made, R!Made

-----------------------------------------------------------------------------
(* The two instances of LogFile are one *)

LEMMA SameLogInit == Log!Init => L!Init
  BY DEF Log!Init, L!Init

LEMMA SameLogStep ==
  ASSUME NEW p
  PROVE  /\ Log!New(p) <=> L!New(p)
         /\ Log!Append(p) <=> L!Append(p)
         /\ Log!Close(p) <=> L!Close(p)
<1> USE DEF Log!Exists, L!Exists, Log!Opening, L!Opening, Log!InUse, L!InUse
<1>1. Log!Stat(p) <=> L!Stat(p)
  BY DEF Log!Stat, L!Stat, Log!TooLarge, L!TooLarge
<1>2. Log!Remaining = L!Remaining
  BY DEF Log!Remaining, L!Remaining
<1>3. Log!Rename(p) <=> L!Rename(p)
  BY <1>2 DEF Log!Rename, L!Rename
<1>4. Log!RenameFails(p) <=> L!RenameFails(p)
  BY DEF Log!RenameFails, L!RenameFails
<1>5. Log!Open(p) <=> L!Open(p)
  BY DEF Log!Open, L!Open
<1>6. Log!Chmod(p) <=> L!Chmod(p)
  BY DEF Log!Chmod, L!Chmod
<1>7. Log!ChmodFails(p) <=> L!ChmodFails(p)
  BY <1>2 DEF Log!ChmodFails, L!ChmodFails
<1>8. Log!Append(p) <=> L!Append(p)
  BY DEF Log!Append, L!Append
<1>9. Log!Close(p) <=> L!Close(p)
  BY <1>2 DEF Log!Close, L!Close
<1> QED
  BY <1>1, <1>3, <1>4, <1>5, <1>6, <1>7, <1>8, <1>9 DEF Log!New, L!New

LEMMA SameLogProperties ==
  /\ Log!LogAssumption => L!LogAssumption
  /\ Log!TypeOK <=> L!TypeOK
  /\ L!LogIsBounded => LogIsBounded
  /\ L!RotationKeepsHistory => RotationKeepsHistory
  /\ L!FailsInARaceOnly => FailsInARaceOnly
<1>1. Log!LogAssumption => L!LogAssumption
  BY Zenon DEF Log!LogAssumption, L!LogAssumption, Log!IsFiniteSet, L!IsFiniteSet
<1>2. Log!TypeOK <=> L!TypeOK
  BY DEF Log!TypeOK, L!TypeOK, Log!Opening, L!Opening
<1>3. L!RotationKeepsHistory => RotationKeepsHistory
  BY DEF RotationKeepsHistory, Log!RotationKeepsHistory, L!RotationKeepsHistory,
         Log!Exists, L!Exists
<1>4. L!FailsInARaceOnly => FailsInARaceOnly
  BY DEF FailsInARaceOnly, Log!FailsInARaceOnly, L!FailsInARaceOnly
<1>5. L!LogIsBounded => LogIsBounded
  <2>1. Log!Cardinality(Procs) = L!Cardinality(Procs)
    BY Zenon DEF Log!Cardinality, L!Cardinality, Log!IsFiniteSet, L!IsFiniteSet
  <2> QED
    BY <2>1 DEF LogIsBounded, Log!LogIsBounded, L!LogIsBounded
<1> QED
  BY <1>1, <1>2, <1>3, <1>4, <1>5

-----------------------------------------------------------------------------
(* Each step as a step of the log and of the repository *)

CommandsInv == command \in [Procs -> Commands]

\* What each step does to the log and to the repository.
LEMMA Effects ==
  ASSUME CommandsInv, [Next]_vars
  PROVE  /\ \/ UNCHANGED logVars
            \/ \E p \in Procs : Log!New(p) \/ Log!Append(p) \/ Log!Close(p)
         /\ UNCHANGED repositoryVars \/ Repository!Next
<1>1. ASSUME NEW p \in Procs, NEW c \in Commands, Begin(p, c)
      PROVE  UNCHANGED logVars /\ UNCHANGED repositoryVars
  BY <1>1 DEF Begin
<1>2. ASSUME NEW p \in Procs,
             GuardPasses(p) \/ GuardLooks(p) \/ GuardRefuses(p) \/ ReadDir(p)
               \/ OpenRunnerFails(p) \/ CheckVersion(p) \/ LastSet(p)
      PROVE  UNCHANGED logVars /\ UNCHANGED repositoryVars
  BY <1>2 DEF GuardPasses, GuardLooks, GuardRefuses, ReadDir, OpenRunnerFails, CheckVersion,
              LastSet
<1>3. ASSUME NEW p \in Procs,
             OpenLogger(p) \/ OpenRunner(p) \/ LogOutput(p) \/ LogEnd(p) \/ LogSummary(p)
               \/ NextSet(p) \/ CloseLogger(p)
      PROVE  /\ UNCHANGED logVars \/ Log!New(p) \/ Log!Append(p) \/ Log!Close(p)
             /\ UNCHANGED repositoryVars
  BY <1>3 DEF OpenLogger, OpenRunner, LogOutput, LogEnd, LogSummary, NextSet, CloseLogger
<1>4. ASSUME NEW p \in Procs, Restic(p)
      PROVE  UNCHANGED logVars /\ (UNCHANGED repositoryVars \/ Repository!Next)
  <2>1. UNCHANGED logVars
    BY <1>4 DEF Restic
  <2>2. command[p] \in Commands
    BY DEF CommandsInv
  <2>3. CASE ResticBacksUp(p)
    <3>1. command[p].set \in Sources
      BY <2>2, <2>3 DEF Commands, Local, ResticBacksUp
    <3> QED
      BY <2>1, <2>3, <3>1 DEF ResticBacksUp, Repository!Next
  <2>4. CASE ResticForgets(p)
    <3>1. command[p].policy \in Policies /\ command[p].dryRun \in BOOLEAN
      BY <2>2, <2>4 DEF Commands, ResticForgets
    <3> QED
      BY <2>1, <2>4, <3>1 DEF ResticForgets, Repository!Next
  <2>5. CASE ResticRestores(p) \/ ResticLeavesAll(p)
    BY <2>1, <2>5 DEF ResticRestores, ResticLeavesAll
  <2> QED
    BY <1>4, <2>3, <2>4, <2>5 DEF Restic
<1>5. CASE TimePasses \/ OtherHost
  BY <1>5 DEF TimePasses, OtherHost, Repository!Next
<1>6. ASSUME NEW t \in Targets, TargetChanges(t)
      PROVE  UNCHANGED logVars /\ UNCHANGED repositoryVars
  BY <1>6 DEF TargetChanges
<1>7. CASE UNCHANGED vars
  BY <1>7 DEF vars
<1> QED
  BY <1>1, <1>2, <1>3, <1>4, <1>5, <1>6, <1>7 DEF Next, Step

LEMMA CommandsCorrect == Spec => []CommandsInv
<1>1. Init => CommandsInv
  BY DEF Init, CommandsInv, Idle, Commands
<1>2. CommandsInv /\ [Next]_vars => CommandsInv'
  <2> SUFFICES ASSUME CommandsInv, [Next]_vars PROVE CommandsInv'
    OBVIOUS
  <2>1. Idle \in Commands
    BY DEF Idle, Commands
  <2>2. ASSUME NEW p \in Procs, NEW c \in Commands, Begin(p, c) PROVE CommandsInv'
    BY <2>2 DEF Begin, CommandsInv
  <2>3. ASSUME NEW p \in Procs,
               GuardPasses(p) \/ GuardLooks(p) \/ GuardRefuses(p) \/ ReadDir(p)
                 \/ OpenLogger(p) \/ OpenRunner(p) \/ OpenRunnerFails(p)
                 \/ CheckVersion(p) \/ LogOutput(p) \/ LogEnd(p) \/ LogSummary(p)
                 \/ LastSet(p) \/ CloseLogger(p)
        PROVE  CommandsInv'
    <3>1. UNCHANGED command \/ command' = [command EXCEPT ![p] = Idle]
      BY <2>3 DEF GuardPasses, GuardLooks, GuardRefuses, ReadDir, OpenLogger, OpenRunner,
                  OpenRunnerFails, CheckVersion, LogOutput, LogEnd, LogSummary, LastSet,
                  CloseLogger, LoadConfig, Goes, Ends
    <3> QED
      BY <2>1, <3>1 DEF CommandsInv
  <2>4. ASSUME NEW p \in Procs, Restic(p) PROVE CommandsInv'
    BY <2>4 DEF Restic, CommandsInv
  <2>5. ASSUME NEW p \in Procs, NextSet(p) PROVE CommandsInv'
    <3>1. PICK s \in Local : command' = [command EXCEPT ![p].set = s]
      BY <2>5 DEF NextSet
    <3>2. command[p] \in [kind : {"backup"}, set : Local]
      BY <2>5 DEF NextSet, CommandsInv, Commands
    <3>3. [command[p] EXCEPT !.set = s] \in Commands
      BY <3>2 DEF Commands
    <3> QED
      BY <3>1, <3>3 DEF CommandsInv
  <2>6. CASE \/ TimePasses \/ OtherHost
             \/ \E t \in Targets : TargetChanges(t)
             \/ UNCHANGED vars
    BY <2>6 DEF TimePasses, OtherHost, TargetChanges, CommandsInv, vars
  <2> QED
    BY <2>2, <2>3, <2>4, <2>5, <2>6 DEF Next, Step
<1> QED
  BY <1>1, <1>2, PTL DEF Spec

\* Whatever the commands do, and whatever restic, the user and the log do to
\* them, the repository goes through backups and forgets of whole policies.
THEOREM RepositoryTheorem == Spec => ImplementsRepository
<1>1. Init => Repository!Init
  BY DEF Init
<1>2. CommandsInv /\ [Next]_vars => [Repository!Next]_Repository!vars
  BY Effects DEF repositoryVars, Repository!vars
<1> QED
  BY <1>1, <1>2, CommandsCorrect, PTL DEF Spec, ImplementsRepository, Repository!Spec

\* With tags that tell the sets of a host apart, the last snapshot of a set is
\* never forgotten, whatever commands run side by side.
THEOREM LatestTheorem ==
  ASSUME Repository!TagsDistinct
  PROVE  Spec => []LatestSurvives
<1>1. R!RetentionAssumption /\ R!TagsDistinct
  BY InvocationsAssumption, SameConstants
<1>2. R!Spec => []R!LatestSurvives
  BY <1>1, R!LatestTheorem
<1> QED
  BY <1>2, RepositoryTheorem, SameInit, SameNext, SameLatest, PTL
     DEF ImplementsRepository, Repository!Spec, R!Spec

\* Under the same condition, a forget leaves of every set what a configured
\* policy keeps of that set alone.
THEOREM PrunedTheorem ==
  ASSUME Repository!TagsDistinct
  PROVE  Spec => PrunedIndependently
<1>1. R!RetentionAssumption /\ R!TagsDistinct
  BY InvocationsAssumption, SameConstants
<1>2. R!Spec => R!PrunedIndependently
  BY <1>1, R!PrunedTheorem
<1> QED
  BY <1>2, RepositoryTheorem, SameInit, SameNext, SamePruned, PTL
     DEF ImplementsRepository, Repository!Spec, R!Spec, PrunedIndependently,
         Repository!PrunedIndependently, R!PrunedIndependently

\* With one policy for all the commands that ever run, a set has after a forget
\* what the policy would have kept of every snapshot ever made of it.
THEOREM HistoryTheorem ==
  ASSUME Repository!TagsDistinct, NEW policy \in [Repository!Periods -> Nat],
         \A other \in Policies : other = policy \/ Repository!NoPolicy(other)
  PROVE  Spec => [](\A s \in Sources :
             Repository!Kept(Repository!Of(s), policy) = Repository!Kept(Repository!Made(s), policy))
<1> DEFINE H == \A s \in Sources : R!Kept(R!Of(s), policy) = R!Kept(R!Made(s), policy)
           I == \A s \in Sources :
             Repository!Kept(Repository!Of(s), policy) = Repository!Kept(Repository!Made(s), policy)
<1>1. R!RetentionAssumption /\ R!TagsDistinct
  BY InvocationsAssumption, SameConstants
<1>2. policy \in [R!Periods -> Nat] /\ \A other \in Policies : other = policy \/ R!NoPolicy(other)
  BY DEF Repository!NoPolicy, R!NoPolicy, Repository!Periods, R!Periods
<1>3. R!Spec => []H
  BY <1>1, <1>2, R!HistoryTheorem
<1>4. H => I
  BY SameOf, SameKept
<1> QED
  BY <1>3, <1>4, RepositoryTheorem, SameInit, SameNext, PTL
     DEF ImplementsRepository, Repository!Spec, R!Spec

\* What the commands do to the log between them is what any number of processes
\* may do to it on their own: they implement LogFile.
THEOREM LogTheorem == Spec => L!Spec
<1>1. Init => L!Init
  BY SameLogInit DEF Init
<1>2. CommandsInv /\ [Next]_vars => [L!Next]_L!vars
  BY Effects, SameLogStep DEF logVars, L!vars, L!Next
<1> QED
  BY <1>1, <1>2, CommandsCorrect, PTL DEF Spec, L!Spec

\* For any number of commands at once: a log file ends below the threshold and
\* what each process may write to it.
THEOREM BoundTheorem == Spec => []LogIsBounded
<1>1. L!LogAssumption
  BY InvocationsAssumption, SameLogProperties
<1>2. L!Spec => []L!LogIsBounded
  BY <1>1, L!BoundTheorem
<1> QED
  BY <1>2, LogTheorem, SameLogProperties, PTL

\* A command that no other disturbs renames only a log that has reached the
\* threshold.
THEOREM RotationTheorem == Spec => []RotationKeepsHistory
<1>1. L!LogAssumption
  BY InvocationsAssumption, SameLogProperties
<1>2. L!Spec => []L!RotationKeepsHistory
  BY <1>1, L!RotationTheorem
<1> QED
  BY <1>2, LogTheorem, SameLogProperties, PTL

\* A command is denied its logger, once New has looked at the log, only by the
\* rotation of another.
THEOREM RaceTheorem == Spec => []FailsInARaceOnly
<1>1. L!LogAssumption
  BY InvocationsAssumption, SameLogProperties
<1>2. L!Spec => []L!FailsInARaceOnly
  BY <1>1, L!RaceTheorem
<1> QED
  BY <1>2, LogTheorem, SameLogProperties, PTL

-----------------------------------------------------------------------------
(* Type correctness *)

ControlOK ==
    /\ installed \in Installations
    /\ target \in Targets
    /\ pc \in [Procs -> Stages]
    /\ occupied \in [Procs -> BOOLEAN]
    /\ commands \in 0 .. MaxCommands

\* The steps of p that leave everything but its stage and the log as it is.
Plain(p) ==
    GuardPasses(p) \/ GuardLooks(p) \/ GuardRefuses(p) \/ ReadDir(p)
      \/ OpenLogger(p) \/ OpenRunner(p) \/ OpenRunnerFails(p) \/ CheckVersion(p)
      \/ LogOutput(p) \/ LogEnd(p) \/ LogSummary(p) \/ LastSet(p) \/ CloseLogger(p)

LEMMA PlainStep ==
  ASSUME NEW p \in Procs, Plain(p)
  PROVE  (\E stage \in Stages : Goes(p, stage)) \/ Ends(p)
<1>1. CASE GuardPasses(p) \/ GuardLooks(p) \/ GuardRefuses(p) \/ ReadDir(p)
  BY <1>1 DEF GuardPasses, GuardLooks, GuardRefuses, ReadDir, LoadConfig, Stages
<1>2. CASE OpenLogger(p)
  BY <1>2 DEF OpenLogger, Stages
<1>3. CASE OpenRunner(p) \/ OpenRunnerFails(p) \/ CheckVersion(p)
  BY <1>3 DEF OpenRunner, OpenRunnerFails, CheckVersion, AfterRestic, Stages
<1>4. CASE LogOutput(p) \/ LogEnd(p) \/ LogSummary(p) \/ LastSet(p) \/ CloseLogger(p)
  BY <1>4 DEF LogOutput, LogEnd, LogSummary, LastSet, CloseLogger, Stages
<1> QED
  BY <1>1, <1>2, <1>3, <1>4 DEF Plain

\* One case per kind of step.
LEMMA StepCases ==
  ASSUME [Next]_vars
  PROVE  \/ \E p \in Procs, c \in Commands : Begin(p, c)
         \/ \E p \in Procs : Plain(p)
         \/ \E p \in Procs : Restic(p)
         \/ \E p \in Procs : NextSet(p)
         \/ TimePasses \/ OtherHost
         \/ \E t \in Targets : TargetChanges(t)
         \/ UNCHANGED vars
  BY DEF Next, Step, Plain

LEMMA ControlNext ==
  ASSUME ControlOK, [Next]_vars
  PROVE  ControlOK'
<1> USE InvocationsAssumption DEF ControlOK
<1>1. ASSUME NEW p \in Procs, NEW c \in Commands, Begin(p, c) PROVE ControlOK'
  BY <1>1 DEF Begin, Stages
<1>2. ASSUME NEW p \in Procs, Plain(p) PROVE ControlOK'
  <2>1. CASE \E stage \in Stages : Goes(p, stage)
    BY <2>1 DEF Goes
  <2>2. CASE Ends(p)
    BY <2>2 DEF Ends, Stages
  <2> QED
    BY <1>2, <2>1, <2>2, PlainStep
<1>3. ASSUME NEW p \in Procs, Restic(p) PROVE ControlOK'
  <2>1. target' \in Targets
    BY <1>3 DEF Restic, ResticBacksUp, ResticForgets, ResticRestores, ResticLeavesAll, Targets
  <2>2. AfterRestic(command[p]) \in Stages
    BY DEF AfterRestic, Stages
  <2>3. pc' \in [Procs -> Stages]
    BY <1>3, <2>2 DEF Restic
  <2>4. occupied' \in [Procs -> BOOLEAN]
    BY <1>3 DEF Restic, InTheWay
  <2> QED
    BY <1>3, <2>1, <2>3, <2>4 DEF Restic
<1>4. ASSUME NEW p \in Procs, NextSet(p) PROVE ControlOK'
  BY <1>4 DEF NextSet, Stages
<1>5. CASE TimePasses \/ OtherHost
  BY <1>5 DEF TimePasses, OtherHost
<1>6. ASSUME NEW t \in Targets, TargetChanges(t) PROVE ControlOK'
  BY <1>6 DEF TargetChanges, InTheWay
<1>7. CASE UNCHANGED vars
  BY <1>7 DEF vars
<1> QED
  BY <1>1, <1>2, <1>3, <1>4, <1>5, <1>6, <1>7, StepCases

LEMMA ControlCorrect == Spec => []ControlOK
<1>1. Init => ControlOK
  BY InvocationsAssumption DEF Init, ControlOK, Stages, Targets
<1>2. ControlOK /\ [Next]_vars => ControlOK'
  BY ControlNext
<1> QED
  BY <1>1, <1>2, PTL DEF Spec

\* The variables keep their types, those of the log and of the repository
\* with them, for any number of processes, commands and sets.
THEOREM TypeCorrect == Spec => []TypeOK
<1>1. L!LogAssumption /\ R!RetentionAssumption
  BY InvocationsAssumption, SameLogProperties, SameConstants
<1>2. L!Spec => []L!TypeOK
  BY <1>1, L!TypeCorrect
<1>3. R!Spec => []R!TypeOK
  BY <1>1, R!TypeCorrect
<1>4. Spec => R!Spec
  BY RepositoryTheorem, SameInit, SameNext, PTL
     DEF ImplementsRepository, Repository!Spec, R!Spec
<1>5. R!TypeOK => Repository!TypeOK
  BY DEF R!TypeOK, Repository!TypeOK, R!Times, Repository!Times, R!Snapshots,
         Repository!Snapshots
<1>6. L!TypeOK /\ R!TypeOK /\ ControlOK /\ CommandsInv => TypeOK
  BY <1>5, SameLogProperties DEF TypeOK, ControlOK, CommandsInv
<1> QED
  BY <1>2, <1>3, <1>4, <1>6, LogTheorem, ControlCorrect, CommandsCorrect, PTL

-----------------------------------------------------------------------------
(* A target that stays filled is refused *)

Careful(p) == command[p].kind = "restore" /\ ~command[p].force

\* Past the guard, the target has been out of the way at some moment.
GuardedInv ==
    \A p \in Procs :
        /\ occupied[p] => InTheWay(target)
        /\ Careful(p) /\ pc[p] \notin {"idle", "guard", "readDir"} => ~occupied[p]

LEMMA GuardedNext ==
  ASSUME ControlOK, CommandsInv, GuardedInv, [Next]_vars
  PROVE  GuardedInv'
<1> USE DEF ControlOK, CommandsInv, GuardedInv, Careful
<1>1. ASSUME NEW p \in Procs, NEW c \in Commands, Begin(p, c) PROVE GuardedInv'
  BY <1>1 DEF Begin
<1>2. ASSUME NEW p \in Procs, Plain(p) PROVE GuardedInv'
  <2>1. CASE Ends(p)
    BY <2>1 DEF Ends, Idle
  <2>2. CASE \E stage \in Stages : Goes(p, stage)
    <3>1. PICK stage \in Stages : Goes(p, stage)
      BY <2>2
    <3>2. pc' = [pc EXCEPT ![p] = stage] /\ UNCHANGED <<target, command, occupied>>
      BY <3>1 DEF Goes
    <3>3. CASE pc[p] \in {"idle", "guard", "readDir"}
      <4>1. CASE GuardPasses(p) \/ ReadDir(p)
        <5>1. Ends(p) \/ (Careful(p) => ~InTheWay(target))
          BY <4>1 DEF GuardPasses, ReadDir, InTheWay
        <5> QED
          BY <2>1, <3>2, <5>1
      <4>2. CASE GuardLooks(p)
        <5>1. pc' = [pc EXCEPT ![p] = "readDir"]
          BY <4>2 DEF GuardLooks, Goes
        <5> QED
          BY <3>2, <5>1
      <4> QED
        BY <1>2, <2>1, <3>3, <4>1, <4>2
           DEF Plain, GuardRefuses, OpenLogger, OpenRunner, OpenRunnerFails, CheckVersion,
               LogOutput, LogEnd, LogSummary, LastSet, CloseLogger
    <3>4. CASE pc[p] \notin {"idle", "guard", "readDir"}
      BY <3>2, <3>4
    <3> QED
      BY <3>3, <3>4
  <2> QED
    BY <1>2, <2>1, <2>2, PlainStep
<1>3. ASSUME NEW p \in Procs, Restic(p) PROVE GuardedInv'
  <2>1. pc[p] = "restic" /\ command' = command /\ pc' = [pc EXCEPT ![p] = AfterRestic(command[p])]
    BY <1>3 DEF Restic
  <2>2. \A q \in Procs : occupied'[q] = (occupied[q] /\ InTheWay(target'))
    BY <1>3 DEF Restic
  <2> QED
    BY <2>1, <2>2 DEF InTheWay
<1>4. ASSUME NEW p \in Procs, NextSet(p) PROVE GuardedInv'
  <2>1. PICK s \in Local : command' = [command EXCEPT ![p].set = s]
    BY <1>4 DEF NextSet
  <2>2. command'[p].kind = "backup"
    BY <1>4, <2>1 DEF NextSet, Commands
  <2> QED
    BY <1>4, <2>1, <2>2 DEF NextSet
<1>5. CASE TimePasses \/ OtherHost
  BY <1>5 DEF TimePasses, OtherHost
<1>6. ASSUME NEW t \in Targets, TargetChanges(t) PROVE GuardedInv'
  BY <1>6 DEF TargetChanges, InTheWay
<1>7. CASE UNCHANGED vars
  BY <1>7 DEF vars
<1> QED
  BY <1>1, <1>2, <1>3, <1>4, <1>5, <1>6, <1>7, StepCases

\* For any number of commands and any meddling with the target: no restore
\* without --force meets a target that was in use all along.
THEOREM FilledTheorem == Spec => []FilledTargetIsRefused
<1>1. Init => GuardedInv
  BY DEF Init, GuardedInv, InTheWay
<1>2. ControlOK /\ CommandsInv /\ GuardedInv /\ [Next]_vars => GuardedInv'
  BY GuardedNext
<1>3. GuardedInv => FilledTargetIsRefused
  BY DEF GuardedInv, FilledTargetIsRefused, Careful
<1> QED
  BY <1>1, <1>2, <1>3, ControlCorrect, CommandsCorrect, PTL DEF Spec

-----------------------------------------------------------------------------
(* The version gate *)

GateInv == \A p \in Procs : pc[p] = "restic" => Accepted(installed)

LEMMA GateNext ==
  ASSUME ControlOK, GateInv, [Next]_vars
  PROVE  GateInv'
<1> USE DEF ControlOK, GateInv
<1>1. ASSUME NEW p \in Procs, NEW c \in Commands, Begin(p, c) PROVE GateInv'
  BY <1>1 DEF Begin
<1>2. ASSUME NEW p \in Procs, Plain(p) PROVE GateInv'
  <2>1. CASE Ends(p)
    BY <2>1 DEF Ends
  <2>2. CASE \E stage \in Stages : Goes(p, stage)
    <3>1. PICK stage \in Stages : Goes(p, stage)
      BY <2>2
    <3>2. pc' = [pc EXCEPT ![p] = stage] /\ installed' = installed
      BY <3>1 DEF Goes
    <3>3. pc'[p] = "restic" => Accepted(installed)
      <4>1. CASE CheckVersion(p) \/ LogOutput(p)
        BY <3>2, <4>1 DEF CheckVersion, LogOutput, Goes, AfterRestic
      <4>2. CASE GuardPasses(p) \/ GuardLooks(p) \/ GuardRefuses(p) \/ ReadDir(p)
        BY <3>2, <4>2 DEF GuardPasses, GuardLooks, GuardRefuses, ReadDir, LoadConfig, Goes, Ends
      <4>3. CASE OpenLogger(p) \/ OpenRunner(p) \/ OpenRunnerFails(p)
        BY <3>2, <4>3 DEF OpenLogger, OpenRunner, OpenRunnerFails, Goes
      <4>4. CASE LogEnd(p) \/ LogSummary(p) \/ LastSet(p) \/ CloseLogger(p)
        BY <3>2, <4>4 DEF LogEnd, LogSummary, LastSet, CloseLogger, Goes, Ends
      <4> QED
        BY <1>2, <4>1, <4>2, <4>3, <4>4 DEF Plain
    <3> QED
      BY <3>2, <3>3
  <2> QED
    BY <1>2, <2>1, <2>2, PlainStep
<1>3. ASSUME NEW p \in Procs, Restic(p) PROVE GateInv'
  BY <1>3 DEF Restic, AfterRestic
<1>4. ASSUME NEW p \in Procs, NextSet(p) PROVE GateInv'
  BY <1>4 DEF NextSet
<1>5. CASE TimePasses \/ OtherHost
  BY <1>5 DEF TimePasses, OtherHost
<1>6. ASSUME NEW t \in Targets, TargetChanges(t) PROVE GateInv'
  BY <1>6 DEF TargetChanges
<1>7. CASE UNCHANGED vars
  BY <1>7 DEF vars
<1> QED
  BY <1>1, <1>2, <1>3, <1>4, <1>5, <1>6, <1>7, StepCases

\* For any releases of at most three components: no command runs a restic below
\* the minimum.
THEOREM RecentTheorem == Spec => []StartedIsRecent
<1>1. Init => GateInv
  BY DEF Init, GateInv
<1>2. ControlOK /\ GateInv /\ [Next]_vars => GateInv'
  BY GateNext
<1>3. ControlOK /\ GateInv => StartedIsRecent
  <2> SUFFICES ASSUME ControlOK, Accepted(installed), installed.minimum # <<>>
               PROVE  /\ Parses(installed.minimum)
                      /\ Number(installed.restic) >= Number(installed.minimum)
    BY DEF GateInv, StartedIsRecent
  <2>1. Parses(installed.minimum) /\ ~Older(installed.restic, installed.minimum)
    BY DEF Accepted
  <2>2. Release(installed.restic) /\ Release(installed.minimum)
    BY <2>1, InvocationsAssumption DEF ControlOK
  <2>3. ASSUME NEW v, Release(v) PROVE Number(v) \in Nat
    BY <2>3, NumberType
  <2> QED
    BY <2>1, <2>2, <2>3, OlderIsSmaller
<1> QED
  BY <1>1, <1>2, <1>3, ControlCorrect, PTL DEF Spec
=============================================================================
