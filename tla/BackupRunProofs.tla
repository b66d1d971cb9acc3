--------------------------- MODULE BackupRunProofs ---------------------------
(***************************************************************************)
(* Theorems about BackupRun, for any number of sets, every list of names,  *)
(* every exit status of restic and every interleaving with a cancellation  *)
(* and with another icebeam that reconfigures.                             *)
(***************************************************************************)
EXTENDS BackupRun, TLAPS, FiniteSetTheorems

Calling == {"call", "username", "password", "start", "restic"}

\* The loop of backupSets: one outcome for each set that has been attempted,
\* and there is a set to attempt while a call is under way.
LoopInv ==
    /\ pc \in {"load", "resolve"} => sets = <<>>
    /\ pc \in {"load", "resolve", "open"} => outcomes = <<>> /\ exit = Running
    /\ pc \in Calling => Len(outcomes) < Len(sets)
    /\ pc = "report" => Len(outcomes) = Len(sets)
    /\ pc \notin {"load", "resolve", "done"} => Len(sets) > 0

\* The config is loaded before anything depends on it.
LoadedInv == pc \notin {"load", "done"} => cfg \in Gens

\* The version is checked before the environment is built.
CheckedInv == pc \in {"username", "password", "start", "restic"} => checkedVersion

\* A call that returned no error has left a complete snapshot.
SnapshotInv ==
    command = "backup" =>
        \A i \in DOMAIN outcomes : outcomes[i] = NoError => <<cfg, i, TRUE>> \in snapshots

\* An exit status other than one is backupSets' verdict on all the sets.
VerdictInv ==
    pc = "done" /\ command = "backup" /\ exit # exitError =>
        Len(outcomes) = Len(sets) /\ exit = backupCode

IInv ==
    /\ TypeOK
    /\ LoopInv
    /\ LoadedInv
    /\ CheckedInv
    /\ SnapshotInv
    /\ VerdictInv

-----------------------------------------------------------------------------
(* The exit status *)

\* The codes backupSets chooses from are not changed by the eight bits.
LEMMA BackupCodeType == backupCode \in {0, 2, 3} /\ backupCode % 256 = backupCode
  BY DEF backupCode, exitOK, exitTotalFailure, exitPartialFailure

LEMMA Byte == \A x \in Int : x % 256 \in 0..255
  OBVIOUS

LEMMA MapResticExitType ==
  ASSUME TypeOK, Len(outcomes) > 0
  PROVE  mapResticExit % 256 \in 0..255
<1>1. outcomes[1] \in {NoError, OtherError} \cup ResticCodes
  BY DEF TypeOK
<1>0. ResticCodes \subseteq Int
  BY BackupRunAssumption
<1>a. NoError \in Int /\ OtherError \in Int
  BY DEF NoError, OtherError
<1>2. outcomes[1] \in Int
  BY <1>0, <1>1, <1>a
<1>3. mapResticExit \in Int
  BY <1>2 DEF mapResticExit, NoError, OtherError, exitOK, exitError
<1> QED
  BY <1>3, Byte

LEMMA IntervalSize ==
  ASSUME NEW n \in Nat
  PROVE  IsFiniteSet(1..n) /\ Cardinality(1..n) = n
<1>1. 1 \in Int /\ n \in Int
  OBVIOUS
<1>2. IsFiniteSet(1..n) /\ Cardinality(1..n) = IF 1 > n THEN 0 ELSE n - 1 + 1
  BY <1>1, FS_Interval, Zenon
<1> QED
  BY <1>2

\* Counting the failures finds out whether all the sets failed.
LEMMA AllFailed ==
  ASSUME TypeOK, Len(outcomes) = Len(sets), Cardinality(Failures) = Len(sets)
  PROVE  Failures = DOMAIN outcomes
<1>1. DOMAIN outcomes = 1..Len(outcomes) /\ Len(outcomes) \in Nat
  BY DEF TypeOK
<1>2. IsFiniteSet(1..Len(outcomes)) /\ Cardinality(1..Len(outcomes)) = Len(outcomes)
  BY <1>1, IntervalSize, Zenon
<1>3. Failures \in SUBSET (1..Len(outcomes))
  BY <1>1 DEF Failures
<1>4. Cardinality(1..Len(outcomes)) = Cardinality(Failures) => 1..Len(outcomes) = Failures
  BY <1>2, <1>3, FS_Subset, Zenon
<1> QED
  BY <1>1, <1>2, <1>4

LEMMA SomeSucceeded ==
  ASSUME TypeOK, Len(outcomes) = Len(sets), Cardinality(Failures) # Len(sets)
  PROVE  \E i \in DOMAIN outcomes : outcomes[i] = NoError
<1>1. DOMAIN outcomes = 1..Len(outcomes) /\ Len(outcomes) \in Nat
  BY DEF TypeOK
<1>2. Cardinality(1..Len(outcomes)) = Len(outcomes)
  BY <1>1, IntervalSize, Zenon
<1>3. SUFFICES ASSUME \A i \in DOMAIN outcomes : outcomes[i] # NoError PROVE FALSE
  OBVIOUS
<1>4. Failures = 1..Len(outcomes)
  BY <1>1, <1>3 DEF Failures
<1> QED
  BY <1>2, <1>4

-----------------------------------------------------------------------------
(* The inductive invariant *)

LEMMA SecretsType == \A gen \in Gens : Secrets(gen) \in [SecretNames -> Gens \cup {"none"}]
  BY DEF Secrets, Gens

LEMMA InitIInv == Init => IInv
<1> SUFFICES ASSUME Init PROVE IInv
  OBVIOUS
<1>1. secrets \in [SecretNames -> Gens \cup {"partial", "none"}]
  BY SecretsType DEF Init, Gens
<1>2. writing \in Seq({"config"} \cup SecretNames)
  <2> DEFINE S == {"config"} \cup SecretNames
  <2>1. <<"config", "RepoPassword">> \in Seq(S) /\ <<"RESTUsername", "RESTPassword">> \in Seq(S)
        /\ <<>> \in Seq(S)
    BY DEF SecretNames
  <2>2. \A x, y \in Seq(S) : x \o y \in Seq(S)
    OBVIOUS
  <2> HIDE DEF S
  <2>3. writing = <<"config", "RepoPassword">> \o
                  (IF "new" \in RestGens THEN <<"RESTUsername", "RESTPassword">> ELSE <<>>)
        \/ writing = <<>>
    BY DEF Init
  <2>4. (IF "new" \in RestGens THEN <<"RESTUsername", "RESTPassword">> ELSE <<>>) \in Seq(S)
    BY <2>1
  <2>5. writing \in Seq(S)
    BY <2>1, <2>2, <2>3, <2>4
  <2> QED
    BY <2>5 DEF S
<1>3. names \in Arguments \cup {<<>>} /\ command \in Commands
  BY DEF Init
<1>4. sets \in Seq(SetNames \cup Commands) /\ outcomes \in Seq({NoError, OtherError} \cup ResticCodes)
  BY DEF Init
<1>5. Len(outcomes) <= Len(sets) /\ snapshots \subseteq Gens \X (1..Len(sets)) \X BOOLEAN
      /\ started \subseteq 1..Len(sets)
  BY DEF Init
<1>6. env \in [SecretNames -> Gens \cup {"partial", "none"}]
  BY DEF Init, NoSecrets
<1>7. TypeOK
  BY <1>4, <1>5, <1>6, <1>1, <1>2, <1>3 DEF Init, TypeOK, Gens, NoSecrets, Running, exitOK
<1> QED
  BY <1>7 DEF Init, IInv, LoopInv, LoadedInv, CheckedInv, SnapshotInv, VerdictInv,
              Calling

\* Another icebeam's writes and the cancellation touch nothing of the run.
LEMMA OthersPreserve ==
  ASSUME IInv, Truncate \/ Fill \/ Cancel
  PROVE  IInv'
<1>1. /\ config' \in Gens \cup {"partial"}
      /\ secrets' \in [SecretNames -> Gens \cup {"partial", "none"}]
      /\ writing' \in Seq({"config"} \cup SecretNames)
      /\ ctx' \in {"live", "canceled"}
      /\ causes' = causes
  <2>1. CASE Truncate
    <3>1. writing # <<>> /\ writing \in Seq({"config"} \cup SecretNames)
      BY <2>1 DEF Truncate, IInv, TypeOK
    <3>2. Head(writing) = "config" \/ Head(writing) \in SecretNames
      BY <3>1
    <3> QED
      BY <2>1, <3>2 DEF Truncate, IInv, TypeOK, runVars, Gens
  <2>2. CASE Fill
    <3>1. writing # <<>> /\ writing \in Seq({"config"} \cup SecretNames)
      BY <2>2 DEF Fill, IInv, TypeOK
    <3>2. /\ Head(writing) = "config" \/ Head(writing) \in SecretNames
          /\ Tail(writing) \in Seq({"config"} \cup SecretNames)
      BY <3>1
    <3> QED
      BY <2>2, <3>2 DEF Fill, IInv, TypeOK, runVars, Gens
  <2>3. CASE Cancel
    BY <2>3 DEF Cancel, IInv, TypeOK, diskVars
  <2> QED
    BY <2>1, <2>2, <2>3
<1>2. UNCHANGED <<command, names, pc, cfg, sets, checkedVersion, env, outcomes, exit,
                  started, snapshots>>
  BY DEF Truncate, Fill, Cancel, runVars
<1>3. TypeOK'
  BY <1>1, <1>2 DEF IInv, TypeOK
<1>4. backupCode' = backupCode
  BY <1>2 DEF backupCode, Failures
<1> QED
  BY <1>2, <1>3, <1>4
  DEF IInv, LoopInv, LoadedInv, CheckedInv, SnapshotInv, VerdictInv,
      Calling

LEMMA FailsPreserve ==
  ASSUME IInv, Fails
  PROVE  IInv'
<1>1. exit' = exitError /\ exit' \in 0..255 /\ pc' = "done"
  BY DEF Fails, Exit, exitError
<1>2. TypeOK'
  BY <1>1 DEF IInv, TypeOK, Fails, diskVars
<1> QED
  BY <1>1, <1>2
  DEF Fails, IInv, LoopInv, LoadedInv, CheckedInv, SnapshotInv, VerdictInv,
      Calling

LEMMA LoadPreserves ==
  ASSUME IInv, Load
  PROVE  IInv'
<1>1. cfg' \in Gens /\ pc' = "resolve" /\ snapshots' = snapshots
  BY DEF Load
<1>2. TypeOK'
  BY <1>1 DEF IInv, TypeOK, Load, diskVars
<1>3. outcomes' = <<>> /\ sets' = <<>> /\ exit' = Running
  BY DEF Load, IInv, LoopInv
<1>4. snapshots = {}
  BY <1>3 DEF Load, IInv, TypeOK
<1> QED
  BY <1>1, <1>2, <1>3, <1>4
  DEF IInv, LoopInv, LoadedInv, CheckedInv, SnapshotInv, VerdictInv,
      Calling

LEMMA ResolvePreserves ==
  ASSUME IInv, Resolve
  PROVE  IInv'
<1>1. sets' \in Seq(SetNames \cup Commands) /\ Len(sets') > 0
  <2>1. cfg \in Gens /\ ConfigSets[cfg] \in Seq(SetNames) /\ ConfigSets[cfg] # <<>>
    BY BackupRunAssumption DEF Resolve, IInv, LoadedInv
  <2>2. names \in Seq(SetNames)
    <3>1. Arguments \subseteq Seq(SetNames)
      BY BackupRunAssumption
    <3>2. names \in Arguments \cup {<<>>}
      BY DEF IInv, TypeOK
    <3>3. <<>> \in Seq(SetNames)
      OBVIOUS
    <3> QED
      BY <3>1, <3>2, <3>3, Zenon
  <2>3. CASE command = "maintenance"
    <3>1. command \in SetNames \cup Commands
      BY DEF IInv, TypeOK
    <3>2. sets' = <<command>>
      BY <2>3 DEF Resolve
    <3>3. \A x : x \in SetNames \cup Commands =>
              <<x>> \in Seq(SetNames \cup Commands) /\ Len(<<x>>) > 0
      OBVIOUS
    <3> QED
      BY <3>1, <3>2, <3>3
  <2>4. CASE command # "maintenance" /\ names = <<>>
    <3>1. sets' = ConfigSets[cfg]
      BY <2>4 DEF Resolve
    <3> QED
      BY <2>1, <3>1
  <2>5. CASE command # "maintenance" /\ names # <<>>
    <3>1. sets' = names
      BY <2>5 DEF Resolve
    <3> QED
      BY <2>2, <2>5, <3>1
  <2> QED
    BY <2>3, <2>4, <2>5
<1>2. outcomes = <<>> /\ sets = <<>> /\ exit = Running
  BY DEF Resolve, IInv, LoopInv
<1>3. snapshots = {} /\ started = {}
  BY <1>2 DEF IInv, TypeOK
<1>4. TypeOK'
  BY <1>1, <1>2, <1>3 DEF IInv, TypeOK, Resolve, diskVars
<1> QED
  BY <1>1, <1>2, <1>3, <1>4
  DEF Resolve, IInv, LoopInv, LoadedInv, CheckedInv, SnapshotInv, VerdictInv,
      Calling

LEMMA OpenPreserves ==
  ASSUME IInv, Open
  PROVE  IInv'
<1>1. TypeOK'
  BY DEF IInv, TypeOK, Open, diskVars
<1>2. Len(outcomes) = 0
  BY DEF IInv, LoopInv, Open
<1> QED
  BY <1>1, <1>2
  DEF Open, IInv, LoopInv, LoadedInv, CheckedInv, SnapshotInv, VerdictInv,
      Calling

Outcomes == {NoError, OtherError} \cup ResticCodes

\* What the end of a call adds to the outcomes.
LEMMA Settled ==
  ASSUME IInv, pc \in Calling, NEW outcome \in Outcomes, Settle(outcome), sets' = sets
  PROVE  /\ outcomes' \in Seq(Outcomes)
         /\ Len(outcomes') = Len(outcomes) + 1
         /\ Len(outcomes') <= Len(sets)
         /\ \/ pc' = "report" /\ Len(outcomes') = Len(sets)
            \/ pc' = "call" /\ Len(outcomes') < Len(sets)
         /\ \A i \in DOMAIN outcomes' :
                \/ i \in DOMAIN outcomes /\ outcomes'[i] = outcomes[i]
                \/ i = Len(outcomes) + 1 /\ outcomes'[i] = outcome
<1>1. outcomes \in Seq(Outcomes) /\ Len(sets) \in Nat /\ Len(outcomes) < Len(sets)
  BY DEF IInv, TypeOK, LoopInv, Outcomes
<1>2. outcomes' = Append(outcomes, outcome)
  BY DEF Settle
<1>3. pc' = IF Len(outcomes') = Len(sets) THEN "report" ELSE "call"
  BY DEF Settle
<1>4. outcomes' \in Seq(Outcomes) /\ Len(outcomes') = Len(outcomes) + 1
  BY <1>1, <1>2
<1>5. \A i \in DOMAIN outcomes' :
          \/ i \in DOMAIN outcomes /\ outcomes'[i] = outcomes[i]
          \/ i = Len(outcomes) + 1 /\ outcomes'[i] = outcome
  BY <1>1, <1>2
<1>6. Len(outcomes) \in Nat
  BY <1>1
<1>7. /\ Len(outcomes') <= Len(sets)
      /\ \/ pc' = "report" /\ Len(outcomes') = Len(sets)
         \/ pc' = "call" /\ Len(outcomes') < Len(sets)
  BY <1>1, <1>3, <1>4, <1>6
<1> QED
  BY <1>4, <1>5, <1>7

\* While a call is under way there is a set it is for.
LEMMA TurnType == IInv /\ pc \in Calling => Turn \in 0..Len(sets)
  BY DEF IInv, TypeOK, LoopInv, Turn

LEMMA CallFailsPreserve ==
  ASSUME IInv, pc \in Calling, CallFails
  PROVE  IInv'
<1>0. causes' \subseteq 0..Len(sets)
  BY TurnType DEF CallFails, Meets, IInv, TypeOK
<1>1. OtherError \in Outcomes /\ OtherError # NoError
  BY DEF Outcomes, OtherError, NoError
<1>2. Settle(OtherError) /\ sets' = sets
  BY DEF CallFails
<1>3. /\ outcomes' \in Seq(Outcomes)
      /\ Len(outcomes') = Len(outcomes) + 1
      /\ Len(outcomes') <= Len(sets)
      /\ \/ pc' = "report" /\ Len(outcomes') = Len(sets)
         \/ pc' = "call" /\ Len(outcomes') < Len(sets)
      /\ \A i \in DOMAIN outcomes' :
             \/ i \in DOMAIN outcomes /\ outcomes'[i] = outcomes[i]
             \/ i = Len(outcomes) + 1 /\ outcomes'[i] = OtherError
  BY <1>1, <1>2, Settled
<1>4. TypeOK'
  BY <1>0, <1>3 DEF IInv, TypeOK, CallFails, diskVars, Outcomes
<1>5. LoopInv'
  BY <1>2, <1>3 DEF IInv, TypeOK, LoopInv, Calling
<1>6. SnapshotInv'
  BY <1>1, <1>3 DEF IInv, SnapshotInv, CallFails
<1>7. LoadedInv' /\ CheckedInv' /\ VerdictInv'
  BY <1>3 DEF IInv, LoadedInv, CheckedInv, VerdictInv, CallFails, Calling
<1> QED
  BY <1>4, <1>5, <1>6, <1>7 DEF IInv

\* Building the environment and starting restic change no outcome.
LEMMA PreparePreserves ==
  ASSUME IInv,
         CheckVersion \/ ReadUsername \/ ReadPassword \/ Start
  PROVE  IInv'
<1>1. /\ pc \in Calling /\ pc' \in Calling \ {"call"}
      /\ UNCHANGED <<diskVars, command, names, ctx, cfg, sets, outcomes, exit, snapshots>>
  BY DEF CheckVersion, ReadUsername, ReadPassword, ReadSecret, Start, ResticStarts, Calling
<1>2. checkedVersion' = TRUE
  BY DEF IInv, CheckedInv, TypeOK, CheckVersion, ReadUsername, ReadPassword, ReadSecret, Start,
         ResticStarts
<1>3. env' \in [SecretNames -> Gens \cup {"partial", "none"}]
  BY DEF IInv, TypeOK, CheckVersion, ReadUsername, ReadPassword, ReadSecret, Start,
         ResticStarts, NoSecrets, SecretNames
<1>4. started' \subseteq 1..Len(sets) /\ causes' \subseteq 0..Len(sets)
  <2>1. Turn \in 1..Len(sets) /\ Turn \in 0..Len(sets)
    BY <1>1 DEF IInv, TypeOK, LoopInv, Turn
  <2> QED
    BY <2>1 DEF IInv, TypeOK, CheckVersion, ReadUsername, ReadPassword, ReadSecret, Start,
                ResticStarts, Meets
<1>5. TypeOK'
  BY <1>1, <1>2, <1>3, <1>4 DEF IInv, TypeOK, diskVars, Calling
<1>6. LoopInv' /\ LoadedInv' /\ VerdictInv'
  BY <1>1 DEF IInv, LoopInv, LoadedInv, VerdictInv, Calling
<1>7. CheckedInv' /\ SnapshotInv'
  BY <1>1, <1>2 DEF IInv, CheckedInv, SnapshotInv
<1> QED
  BY <1>5, <1>6, <1>7 DEF IInv

LEMMA CreatedType ==
  ASSUME IInv, pc = "restic", NEW complete \in BOOLEAN
  PROVE  /\ Created(complete) \subseteq Gens \X (1..Len(sets)) \X BOOLEAN
         /\ snapshots \subseteq Created(complete)
         /\ command = "backup" => <<cfg, Len(outcomes) + 1, complete>> \in Created(complete)
<1>1. Len(outcomes) + 1 \in 1..Len(sets) /\ cfg \in Gens
  BY DEF IInv, TypeOK, LoopInv, LoadedInv, Calling
<1> QED
  BY <1>1 DEF Created, Repository, Turn, IInv, TypeOK

\* The end of restic: no error only with a complete snapshot.
LEMMA ResticEndsPreserve ==
  ASSUME IInv, NEW outcome \in Outcomes, NEW created, ResticEnds(outcome, created),
         created \subseteq Gens \X (1..Len(sets)) \X BOOLEAN,
         snapshots \subseteq created,
         outcome = NoError /\ command = "backup" =>
             <<cfg, Len(outcomes) + 1, TRUE>> \in created,
         NEW reason, Meets(reason) \/ causes' = causes
  PROVE  IInv'
<1>0. causes' \subseteq 0..Len(sets)
  BY TurnType DEF ResticEnds, Calling, Meets, IInv, TypeOK
<1>1. pc = "restic" /\ pc \in Calling /\ Settle(outcome) /\ sets' = sets
  BY DEF ResticEnds, Calling
<1>2. /\ outcomes' \in Seq(Outcomes)
      /\ Len(outcomes') = Len(outcomes) + 1
      /\ Len(outcomes') <= Len(sets)
      /\ \/ pc' = "report" /\ Len(outcomes') = Len(sets)
         \/ pc' = "call" /\ Len(outcomes') < Len(sets)
      /\ \A i \in DOMAIN outcomes' :
             \/ i \in DOMAIN outcomes /\ outcomes'[i] = outcomes[i]
             \/ i = Len(outcomes) + 1 /\ outcomes'[i] = outcome
  BY <1>1, Settled
<1>3. snapshots' = created /\ UNCHANGED <<command, cfg>>
  BY DEF ResticEnds
<1>4. TypeOK'
  BY <1>0, <1>2, <1>3 DEF IInv, TypeOK, ResticEnds, diskVars, Outcomes
<1>5. LoopInv'
  BY <1>1, <1>2 DEF IInv, TypeOK, LoopInv, Calling
<1>6. SnapshotInv'
  BY <1>2, <1>3 DEF IInv, SnapshotInv
<1>7. LoadedInv' /\ CheckedInv' /\ VerdictInv'
  BY <1>1, <1>2, <1>3 DEF IInv, LoadedInv, CheckedInv, VerdictInv
<1> QED
  BY <1>4, <1>5, <1>6, <1>7 DEF IInv

LEMMA SnapshotsType == IInv => snapshots \subseteq Gens \X (1..Len(sets)) \X BOOLEAN
  BY DEF IInv, TypeOK

LEMMA ResticSucceedsPreserves ==
  ASSUME IInv, ResticSucceeds
  PROVE  IInv'
<1>1. pc = "restic" /\ ResticEnds(NoError, Created(TRUE)) /\ causes' = causes
  BY DEF ResticSucceeds, ResticEnds
<1>2. NoError \in Outcomes
  BY DEF Outcomes
<1> QED
  BY <1>1, <1>2, CreatedType, ResticEndsPreserve

LEMMA ResticFailsPreserves ==
  ASSUME IInv, NEW code \in ResticCodes, ResticFails(code)
  PROVE  IInv'
<1>1. pc = "restic" /\ Meets(Opens)
  BY DEF ResticFails, ResticEnds
<1>2. code \in Outcomes /\ code # NoError
  BY BackupRunAssumption DEF Outcomes
<1>3. CASE ResticEnds(code, Created(FALSE))
  BY <1>1, <1>2, <1>3, CreatedType, ResticEndsPreserve
<1>4. CASE ResticEnds(code, snapshots)
  BY <1>1, <1>2, <1>4, SnapshotsType, ResticEndsPreserve
<1> QED
  BY <1>3, <1>4 DEF ResticFails

LEMMA ResticCanceledPreserves ==
  ASSUME IInv, ResticCanceled
  PROVE  IInv'
<1>1. pc = "restic" /\ Meets(TRUE)
  BY DEF ResticCanceled, ResticEnds
<1>2. OtherError \in Outcomes /\ OtherError # NoError
  BY DEF Outcomes, OtherError, NoError
<1>3. CASE ResticEnds(OtherError, Created(TRUE))
  BY <1>1, <1>2, <1>3, CreatedType, ResticEndsPreserve
<1>4. CASE ResticEnds(OtherError, snapshots)
  BY <1>1, <1>2, <1>4, SnapshotsType, ResticEndsPreserve
<1> QED
  BY <1>3, <1>4 DEF ResticCanceled

LEMMA ReportPreserves ==
  ASSUME IInv, Report
  PROVE  IInv'
<1>1. /\ pc = "report" /\ pc' = "done"
      /\ exit' = (IF command = "backup" THEN backupCode ELSE mapResticExit) % 256
      /\ UNCHANGED <<diskVars, command, names, ctx, cfg, sets, checkedVersion, env, outcomes,
                     started, snapshots, causes>>
  BY DEF Report, Exit
<1>2. Len(outcomes) = Len(sets) /\ Len(outcomes) > 0
  BY <1>1 DEF IInv, LoopInv
<1>3. backupCode' = backupCode
  BY <1>1 DEF backupCode, Failures
<1>4. command = "backup" => exit' = backupCode
  BY <1>1, BackupCodeType
<1>5. exit' \in 0..255
  <2>1. CASE command = "backup"
    BY <1>4, <2>1, BackupCodeType
  <2>2. CASE command # "backup"
    <3>1. exit' = mapResticExit % 256
      BY <1>1, <2>2
    <3>2. mapResticExit % 256 \in 0..255
      BY <1>2, MapResticExitType DEF IInv
    <3> QED
      BY <3>1, <3>2
  <2> QED
    BY <2>1, <2>2
<1>6. TypeOK'
  BY <1>1, <1>5 DEF IInv, TypeOK, diskVars
<1>7. VerdictInv'
  BY <1>1, <1>2, <1>3, <1>4 DEF VerdictInv
<1>8. LoopInv' /\ LoadedInv' /\ CheckedInv' /\ SnapshotInv'
  BY <1>1 DEF IInv, LoopInv, LoadedInv, CheckedInv, SnapshotInv, Calling
<1> QED
  BY <1>6, <1>7, <1>8 DEF IInv

LEMMA StepIInv == IInv /\ [Next]_vars => IInv'
<1> SUFFICES ASSUME IInv, [Next]_vars PROVE IInv'
  OBVIOUS
<1>1. CASE Truncate \/ Fill \/ Cancel
  BY <1>1, OthersPreserve
<1>2. CASE Load
  BY <1>2, LoadPreserves
<1>3. CASE LoadFails \/ UnknownSet \/ OpenFails
  BY <1>3, FailsPreserve DEF LoadFails, UnknownSet, OpenFails
<1>4. CASE Resolve
  BY <1>4, ResolvePreserves
<1>5. CASE Open
  BY <1>5, OpenPreserves
<1>6. CASE VersionFails \/ StartFails
  <2>1. pc \in Calling /\ CallFails
    BY <1>6 DEF VersionFails, StartFails, Calling
  <2> QED
    BY <2>1, CallFailsPreserve
<1>7. CASE CheckVersion \/ ReadUsername \/ ReadPassword \/ Start
  BY <1>7, PreparePreserves
<1>8. CASE ResticSucceeds
  BY <1>8, ResticSucceedsPreserves
<1>9. CASE ResticCanceled
  BY <1>9, ResticCanceledPreserves
<1>10. CASE \E code \in ResticCodes : ResticFails(code)
  BY <1>10, ResticFailsPreserves
<1>11. CASE Report
  BY <1>11, ReportPreserves
<1>12. CASE UNCHANGED vars
  <2>1. UNCHANGED <<config, secrets, writing, command, names, pc, ctx, cfg, sets, checkedVersion,
                    env, outcomes, exit, started, snapshots, causes>>
    BY <1>12 DEF vars, diskVars, runVars
  <2>2. TypeOK'
    BY <2>1 DEF IInv, TypeOK
  <2>3. backupCode' = backupCode
    BY <2>1 DEF backupCode, Failures
  <2> QED
    BY <2>1, <2>2, <2>3 DEF IInv, LoopInv, LoadedInv, CheckedInv, SnapshotInv, VerdictInv,
                            Calling
<1> QED
  BY <1>1, <1>2, <1>3, <1>4, <1>5, <1>6, <1>7, <1>8, <1>9, <1>10, <1>11, <1>12
  DEF Next, CommandStep, Done

LEMMA Invariance == Spec => []IInv
  BY InitIInv, StepIInv, PTL DEF Spec

-----------------------------------------------------------------------------
(* The theorems *)

\* The types are right whatever the number of sets: a run makes no more calls
\* than it has sets, and exits with a byte.
THEOREM TypeCorrect == Spec => []TypeOK
<1>1. IInv => TypeOK
  BY DEF IInv
<1> QED
  BY <1>1, Invariance, PTL

\* The exit status of a run tells a complete success, a partial failure and a
\* total failure apart, for any number of sets and any failures.
THEOREM ExitTheorem == Spec => []ExitTellsOutcome
<1>1. IInv => ExitTellsOutcome
  <2> SUFFICES ASSUME IInv, pc = "done", command = "backup", exit # exitError
               PROVE  ExitTellsOutcome
    BY DEF ExitTellsOutcome
  <2>1. Len(outcomes) = Len(sets) /\ exit = backupCode
    BY DEF IInv, VerdictInv
  <2>2. DOMAIN outcomes = DOMAIN sets
    BY <2>1 DEF IInv, TypeOK
  <2>3. \A i \in DOMAIN sets : outcomes[i] = NoError => <<cfg, i, TRUE>> \in snapshots
    BY <2>2 DEF IInv, SnapshotInv
  <2>4. exit = exitOK => Failures = {}
    BY <2>1 DEF backupCode, exitOK, exitTotalFailure, exitPartialFailure
  <2>5. exit = exitPartialFailure => Failures # {} /\ Cardinality(Failures) # Len(sets)
    BY <2>1 DEF backupCode, exitOK, exitTotalFailure, exitPartialFailure
  <2>6. exit = exitTotalFailure => Cardinality(Failures) = Len(sets)
    BY <2>1 DEF backupCode, exitOK, exitTotalFailure, exitPartialFailure
  <2>7. exit = exitOK => \A i \in DOMAIN sets : <<cfg, i, TRUE>> \in snapshots
    BY <2>2, <2>3, <2>4 DEF Failures
  <2>8. exit = exitPartialFailure =>
            /\ \E i \in DOMAIN sets : <<cfg, i, TRUE>> \in snapshots
            /\ \E i \in DOMAIN sets : outcomes[i] # NoError
    <3> SUFFICES ASSUME exit = exitPartialFailure
                 PROVE  /\ \E i \in DOMAIN sets : <<cfg, i, TRUE>> \in snapshots
                        /\ \E i \in DOMAIN sets : outcomes[i] # NoError
      OBVIOUS
    <3>1. \E i \in DOMAIN outcomes : outcomes[i] = NoError
      BY <2>1, <2>5, SomeSucceeded DEF IInv
    <3>2. \E i \in DOMAIN outcomes : outcomes[i] # NoError
      BY <2>5 DEF Failures
    <3> QED
      BY <2>2, <2>3, <3>1, <3>2
  <2>9. exit = exitTotalFailure => \A i \in DOMAIN sets : outcomes[i] # NoError
    <3> SUFFICES ASSUME exit = exitTotalFailure
                 PROVE  \A i \in DOMAIN sets : outcomes[i] # NoError
      OBVIOUS
    <3>1. Failures = DOMAIN outcomes
      BY <2>1, <2>6, AllFailed DEF IInv
    <3> QED
      BY <2>2, <3>1 DEF Failures
  <2> QED
    BY <2>1, <2>7, <2>8, <2>9 DEF ExitTellsOutcome
<1> QED
  BY <1>1, Invariance, PTL

\* restic is started only while the run is not canceled, and with a version
\* that has been checked.
THEOREM GatedTheorem == Spec => StartsAreGated
<1>1. IInv /\ [Next]_vars => [started' # started => ctx = "live" /\ checkedVersion]_vars
  <2> SUFFICES ASSUME IInv, Next, started' # started
               PROVE  ctx = "live" /\ checkedVersion
    BY DEF vars, runVars
  <2>1. Start
    BY DEF Next, CommandStep, Truncate, Fill, Cancel, Load, LoadFails, Fails, Resolve,
           UnknownSet, Open, OpenFails, CheckVersion, VersionFails, CallFails, ReadUsername,
           ReadPassword, ReadSecret, StartFails, ResticSucceeds, ResticCanceled,
           ResticFails, ResticEnds, Report, Done, runVars, vars
  <2> QED
    BY <2>1 DEF Start, ResticStarts, IInv, CheckedInv
<1> QED
  BY <1>1, Invariance, PTL DEF Spec, StartsAreGated

-----------------------------------------------------------------------------
(* A set that fails has had a reason *)

\* A call that has met with no reason to fail works with the secrets of the
\* config it was loaded with, whatever has become of the ones on disk since.
EnvInv ==
    Turn \notin causes =>
        /\ pc \in {"password", "start", "restic"} /\ cfg \in RestGens => env["RESTUsername"] = cfg
        /\ pc \in {"start", "restic"} /\ cfg \in RestGens => env["RESTPassword"] = cfg
        /\ pc = "restic" => env["RepoPassword"] = cfg

OutcomesInv == \A i \in DOMAIN outcomes : outcomes[i] # NoError => i \in causes

CauseInv ==
    /\ EnvInv
    /\ OutcomesInv
    /\ pc = "done" /\ exit # exitOK => causes # {}

\* Without a failure the exit status is zero.
LEMMA ReportCause ==
  ASSUME IInv, CauseInv, Report, exit' # exitOK
  PROVE  causes # {}
<1>1. SUFFICES ASSUME Failures = {} PROVE exit' = exitOK
  BY DEF CauseInv, OutcomesInv, Failures
<1>2. CASE command = "backup"
  BY <1>1, <1>2 DEF Report, Exit, backupCode, exitOK
<1>3. CASE command # "backup"
  <2>1. Len(outcomes) = Len(sets) /\ Len(sets) > 0
    BY DEF Report, IInv, LoopInv
  <2>2. outcomes[1] = NoError
    BY <1>1, <2>1 DEF IInv, TypeOK, Failures
  <2>3. mapResticExit = exitOK
    BY <2>2 DEF mapResticExit, NoError, OtherError
  <2> QED
    BY <1>3, <2>3 DEF Report, Exit, exitOK
<1> QED
  BY <1>2, <1>3

\* A call that ends leaves a reason for its failure, and the next one has read
\* nothing yet.
LEMMA SettleCause ==
  ASSUME IInv, CauseInv, pc \in Calling, NEW outcome, Settle(outcome),
         causes \subseteq causes', outcome # NoError => Turn \in causes'
  PROVE  CauseInv'
<1>1. outcomes' = Append(outcomes, outcome) /\ pc' \in {"report", "call"}
  BY DEF Settle
<1>2. outcomes \in Seq({NoError, OtherError} \cup ResticCodes)
  BY DEF IInv, TypeOK
<1>3. \A i \in DOMAIN outcomes' :
          \/ i \in DOMAIN outcomes /\ outcomes'[i] = outcomes[i]
          \/ i = Turn /\ outcomes'[i] = outcome
  BY <1>1, <1>2 DEF Turn
<1>4. OutcomesInv'
  BY <1>3 DEF CauseInv, OutcomesInv
<1> QED
  BY <1>1, <1>4 DEF CauseInv, EnvInv

\* Reading a secret of the config that is loaded, or meeting with a reason.
LEMMA ReadCause ==
  ASSUME IInv, CauseInv, ReadUsername \/ ReadPassword \/ Start
  PROVE  CauseInv'
<1>1. /\ UNCHANGED <<cfg, outcomes>> /\ causes \subseteq causes' /\ Turn' = Turn
      /\ pc' \in {"password", "start", "restic"}
      /\ Turn \notin causes' => Turn \notin causes /\ Serves(cfg)
  BY DEF ReadUsername, ReadPassword, ReadSecret, Start, ResticStarts, Meets, Turn
<1>2. OutcomesInv'
  BY <1>1 DEF CauseInv, OutcomesInv
<1>3. EnvInv'
  <2> SUFFICES ASSUME Turn \notin causes' PROVE EnvInv'
    BY <1>1 DEF EnvInv
  <2>1. env \in [SecretNames -> Gens \cup {"partial", "none"}] /\ cfg \in Gens
    BY DEF IInv, TypeOK, LoadedInv, ReadUsername, ReadPassword, ReadSecret, Start, ResticStarts
  <2>2. CASE ReadUsername
    <3>1. env' = [env EXCEPT !["RESTUsername"] = secrets["RESTUsername"]]
      BY <2>2 DEF ReadUsername, ReadSecret
    <3>2. env'["RESTUsername"] = secrets["RESTUsername"]
      BY <2>1, <3>1 DEF SecretNames
    <3>3. pc' = IF secrets["RESTUsername"] = "none" THEN "start" ELSE "password"
      BY <2>2 DEF ReadUsername, ReadSecret
    <3> QED
      BY <1>1, <2>1, <3>2, <3>3 DEF EnvInv, Serves, Gens
  <2>3. CASE ReadPassword
    <3>1. env' = [env EXCEPT !["RESTPassword"] = secrets["RESTPassword"]]
          /\ pc = "password" /\ pc' = "start"
      BY <2>3 DEF ReadPassword, ReadSecret
    <3>2. /\ env'["RESTPassword"] = secrets["RESTPassword"]
          /\ env'["RESTUsername"] = env["RESTUsername"]
      BY <2>1, <3>1 DEF SecretNames
    <3> QED
      BY <1>1, <3>1, <3>2 DEF CauseInv, EnvInv, Serves
  <2>4. CASE Start
    <3>1. env' = [env EXCEPT !["RepoPassword"] = secrets["RepoPassword"]]
          /\ pc = "start" /\ pc' = "restic"
      BY <2>4 DEF Start, ResticStarts
    <3>2. /\ env'["RepoPassword"] = secrets["RepoPassword"]
          /\ env'["RESTUsername"] = env["RESTUsername"]
          /\ env'["RESTPassword"] = env["RESTPassword"]
      BY <2>1, <3>1 DEF SecretNames
    <3> QED
      BY <1>1, <3>1, <3>2 DEF CauseInv, EnvInv, Serves
  <2> QED
    BY <2>2, <2>3, <2>4
<1> QED
  BY <1>1, <1>2, <1>3 DEF CauseInv

LEMMA CauseNext == IInv /\ CauseInv /\ [Next]_vars => CauseInv'
<1> SUFFICES ASSUME IInv, CauseInv, [Next]_vars PROVE CauseInv'
  OBVIOUS
<1>1. CASE Truncate \/ Fill \/ Cancel \/ UNCHANGED vars
  BY <1>1
  DEF Truncate, Fill, Cancel, runVars, vars, CauseInv, EnvInv, OutcomesInv, Turn
<1>2. CASE LoadFails \/ UnknownSet \/ OpenFails
  BY <1>2
  DEF LoadFails, UnknownSet, OpenFails, Fails, Exit, CauseInv, EnvInv, OutcomesInv, Turn
<1>3. CASE Load \/ Resolve \/ Open \/ CheckVersion
  BY <1>3
  DEF Load, Resolve, Open, CheckVersion, CauseInv, EnvInv, OutcomesInv, Turn
<1>4. CASE ReadUsername \/ ReadPassword \/ Start
  BY <1>4, ReadCause
<1>5. CASE VersionFails \/ StartFails
  BY <1>5, SettleCause DEF VersionFails, StartFails, CallFails, Meets, Calling
<1>6. CASE ResticSucceeds
  BY <1>6, SettleCause DEF ResticSucceeds, ResticEnds, Calling
<1>7. ASSUME NEW code \in ResticCodes, ResticFails(code) PROVE CauseInv'
  <2>1. pc = "restic" /\ Settle(code) /\ Meets(Opens)
    BY <1>7 DEF ResticFails, ResticEnds
  <2>2. Turn \in causes \/ Opens
    BY <2>1 DEF CauseInv, EnvInv, Opens, Repository
  <2> QED
    BY <2>1, <2>2, SettleCause DEF Meets, Calling
<1>8. CASE ResticCanceled
  BY <1>8, SettleCause DEF ResticCanceled, ResticEnds, Meets, Calling
<1>9. CASE Report
  <2>1. exit' # exitOK => causes # {}
    BY <1>9, ReportCause
  <2> QED
    BY <1>9, <2>1 DEF Report, Exit, CauseInv, EnvInv, OutcomesInv, Turn
<1>10. CASE Done
  BY <1>10 DEF Done, vars, diskVars, runVars, CauseInv, EnvInv, OutcomesInv, Turn
<1> QED
  BY <1>1, <1>2, <1>3, <1>4, <1>5, <1>6, <1>7, <1>8, <1>9, <1>10 DEF Next, CommandStep

\* For any sets, exit statuses and secrets, and wherever in the loop another
\* icebeam rewrites them: a set fails only for a reason of its own call.
THEOREM CauseTheorem == Spec => []FailureHasACause
<1>1. Init => CauseInv
  BY DEF Init, CauseInv, EnvInv, OutcomesInv
<1>2. CauseInv => FailureHasACause
  BY DEF CauseInv, OutcomesInv, FailureHasACause
<1> QED
  BY <1>1, <1>2, CauseNext, Invariance, PTL DEF Spec

-----------------------------------------------------------------------------
(* Every step of a command counts *)

\* The part of the command that is under way: before the loop, and the loop.
Part ==
    CASE pc = "load"    -> 3
      [] pc = "resolve" -> 2
      [] pc = "open"    -> 1
      [] OTHER          -> 0

\* What the loop may still do.
StepsLeft ==
    7 * (Len(sets) - Len(outcomes))
      + CASE pc = "call"     -> 5
          [] pc = "username" -> 4
          [] pc = "password" -> 3
          [] pc = "start"    -> 2
          [] OTHER           -> IF pc \in {"restic", "report"} THEN 1 ELSE 0

\* Each step brings the end of the command closer, however many sets there are
\* and however many of them fail: no set is tried again, and within one call
\* neither the version check nor a secret is gone back to (backupSets, command).
EveryStepCounts ==
    [][ctx' = ctx /\ runVars' # runVars =>
           \/ Part' < Part
           \/ Part' = Part /\ StepsLeft' < StepsLeft]_vars

\* The number of sets that are left.
LEMMA SetsLeft ==
  ASSUME IInv, pc \in Calling \cup {"report"}
  PROVE  \E n \in Nat : n = Len(sets) - Len(outcomes) /\ (pc \in Calling => n > 0)
<1>1. Len(sets) \in Nat /\ Len(outcomes) \in Nat /\ Len(outcomes) <= Len(sets)
  BY DEF IInv, TypeOK
<1>2. Len(sets) - Len(outcomes) \in Nat
  BY <1>1
<1>3. pc \in Calling => Len(outcomes) < Len(sets)
  BY DEF IInv, LoopInv
<1> QED
  BY <1>1, <1>2, <1>3

\* The end of a call takes seven steps off, of which the next call gives back four.
LEMMA SettledCounts ==
  ASSUME IInv, pc \in Calling, NEW outcome \in Outcomes, Settle(outcome), sets' = sets
  PROVE  Part' = Part /\ StepsLeft' < StepsLeft
<1>1. PICK n \in Nat : n = Len(sets) - Len(outcomes) /\ n > 0
  BY SetsLeft
<1>2. /\ Len(outcomes') = Len(outcomes) + 1
      /\ \/ pc' = "report" /\ Len(outcomes') = Len(sets)
         \/ pc' = "call" /\ Len(outcomes') < Len(sets)
  BY Settled
<1>3. Len(sets) \in Nat /\ Len(outcomes) \in Nat
  BY DEF IInv, TypeOK
<1>4. Len(sets') - Len(outcomes') = n - 1
  BY <1>1, <1>2, <1>3
<1>5. StepsLeft >= 7 * n + 1
  BY <1>1 DEF StepsLeft, Calling
<1>6. StepsLeft' <= 7 * (n - 1) + 5
  <2>1. pc' \in {"report", "call"} /\ n - 1 \in Int
    BY <1>1, <1>2
  <2>2. StepsLeft' = 7 * (n - 1) + (IF pc' = "call" THEN 5 ELSE 1)
    BY <1>4, <2>1 DEF StepsLeft
  <2> QED
    BY <2>1, <2>2
<1>7. StepsLeft' \in Int /\ StepsLeft \in Int
  BY <1>1, <1>4 DEF StepsLeft
<1>8. Part' = Part
  BY <1>2 DEF Part, Calling
<1> QED
  BY <1>1, <1>5, <1>6, <1>7, <1>8

\* A command ends after a number of steps that is known once its sets are, for
\* any number of sets and whatever fails: no set is tried again.
THEOREM CountsTheorem == Spec => EveryStepCounts /\ [](StepsLeft \in Nat /\ Part \in 0..3)
<1> DEFINE Counts == Part' < Part \/ (Part' = Part /\ StepsLeft' < StepsLeft)
<1>1. ASSUME IInv, Next, ctx' = ctx, runVars' # runVars PROVE Counts
  <2>1. CommandStep
    BY <1>1 DEF Next, Truncate, Fill, Cancel, Done, vars
  <2>2. CASE Load \/ LoadFails \/ Resolve \/ UnknownSet \/ Open \/ OpenFails
    BY <2>2 DEF Load, LoadFails, Resolve, UnknownSet, Open, OpenFails, Fails, Exit, Part
  <2>3. CASE CheckVersion \/ ReadUsername \/ ReadPassword \/ Start
    <3>1. /\ UNCHANGED <<sets, outcomes>>
          /\ \/ pc = "call" /\ pc' = "username"
             \/ pc = "username" /\ pc' \in {"password", "start"}
             \/ pc = "password" /\ pc' = "start"
             \/ pc = "start" /\ pc' = "restic"
      BY <2>3 DEF CheckVersion, ReadUsername, ReadPassword, ReadSecret, Start, ResticStarts
    <3>2. PICK n \in Nat : n = Len(sets) - Len(outcomes)
      BY <1>1, <3>1, SetsLeft DEF Calling
    <3> QED
      BY <3>1, <3>2 DEF Part, StepsLeft
  <2>4. CASE VersionFails \/ StartFails
    <3>1. pc \in Calling /\ Settle(OtherError) /\ sets' = sets /\ OtherError \in Outcomes
      BY <2>4 DEF VersionFails, StartFails, CallFails, Calling, Outcomes
    <3> QED
      BY <1>1, <3>1, SettledCounts
  <2>5. CASE ResticSucceeds \/ ResticCanceled \/ \E code \in ResticCodes : ResticFails(code)
    <3>1. PICK outcome \in Outcomes : Settle(outcome) /\ pc \in Calling /\ sets' = sets
      BY <2>5 DEF ResticSucceeds, ResticCanceled, ResticFails, ResticEnds, Calling, Outcomes
    <3> QED
      BY <1>1, <3>1, SettledCounts
  <2>6. CASE Report
    <3>1. PICK n \in Nat : n = Len(sets) - Len(outcomes)
      BY <1>1, <2>6, SetsLeft DEF Report
    <3> QED
      BY <2>6, <3>1 DEF Report, Exit, Part, StepsLeft
  <2> QED
    BY <2>1, <2>2, <2>3, <2>4, <2>5, <2>6 DEF CommandStep
<1>2. IInv /\ [Next]_vars => [ctx' = ctx /\ runVars' # runVars => Counts]_vars
  BY <1>1
<1>3. IInv => StepsLeft \in Nat /\ Part \in 0..3
  <2> SUFFICES ASSUME IInv PROVE StepsLeft \in Nat /\ Part \in 0..3
    OBVIOUS
  <2>1. PICK n \in Nat : n = Len(sets) - Len(outcomes)
    <3>1. Len(sets) \in Nat /\ Len(outcomes) \in Nat /\ Len(outcomes) <= Len(sets)
      BY DEF IInv, TypeOK
    <3>2. Len(sets) - Len(outcomes) \in Nat
      BY <3>1
    <3> QED
      BY <3>2
  <2> QED
    BY <2>1 DEF StepsLeft, Part
<1> QED
  BY <1>2, <1>3, Invariance, PTL DEF Spec, EveryStepCounts

-----------------------------------------------------------------------------
(* BackupRun implements Batch *)

\* There is an exit status when there is one.
ExitInv == pc # "done" => exit = Running

LEMMA ExitNext ==
  ASSUME IInv, ExitInv, [Next]_vars
  PROVE  ExitInv'
<1>1. CASE Truncate \/ Fill \/ Cancel \/ UNCHANGED vars
  BY <1>1 DEF Truncate, Fill, Cancel, vars, runVars, ExitInv
<1>2. CASE Load \/ Resolve \/ Open \/ CheckVersion \/ ReadUsername \/ ReadPassword \/ Start
  BY <1>2
  DEF Load, Resolve, Open, CheckVersion, ReadUsername, ReadPassword, ReadSecret, Start,
      ResticStarts, ExitInv
<1>3. CASE LoadFails \/ UnknownSet \/ OpenFails \/ Report
  BY <1>3 DEF LoadFails, UnknownSet, OpenFails, Fails, Report, Exit, ExitInv
<1>4. CASE VersionFails \/ StartFails
  BY <1>4 DEF VersionFails, StartFails, CallFails, ExitInv
<1>5. CASE ResticSucceeds \/ ResticCanceled \/ \E code \in ResticCodes : ResticFails(code)
  BY <1>5 DEF ResticSucceeds, ResticCanceled, ResticFails, ResticEnds, ExitInv
<1> QED
  BY <1>1, <1>2, <1>3, <1>4, <1>5 DEF Next, CommandStep, Done

LEMMA ExitCorrect == Spec => []ExitInv
<1>1. Init => ExitInv
  BY DEF Init, ExitInv
<1> QED
  BY <1>1, ExitNext, Invariance, PTL DEF Spec

BatchView == <<BatchSize, BatchResults, BatchRunning, BatchSaved, ctx, BatchVerdict>>

LEMMA BatchVars == B!vars = BatchView /\ (B!vars)' = BatchView'
  BY DEF B!vars, BatchView

Marks == {"ok", "failed"}

\* Marking the outcomes commutes with adding one.
LEMMA MarkAppended ==
  ASSUME NEW s \in Seq(Outcomes), NEW o \in Outcomes
  PROVE  [i \in DOMAIN Append(s, o) |-> Mark(Append(s, o)[i])]
           = Append([i \in DOMAIN s |-> Mark(s[i])], Mark(o))
<1> DEFINE marked == [i \in DOMAIN s |-> Mark(s[i])]
<1>1. s \in [1..Len(s) -> Outcomes] /\ Len(s) \in Nat /\ DOMAIN s = 1..Len(s)
  OBVIOUS
<1>2. marked \in Seq(Marks) /\ Len(marked) = Len(s)
  <2>1. marked \in [1..Len(s) -> Marks]
    BY <1>1 DEF Mark, Marks
  <2> QED
    BY <1>1, <2>1
<1>3. /\ Append(s, o) \in Seq(Outcomes)
      /\ DOMAIN Append(s, o) = 1..Len(s) + 1
      /\ \A i \in 1..Len(s) : Append(s, o)[i] = s[i]
      /\ Append(s, o)[Len(s) + 1] = o
  BY <1>1
<1>4. /\ DOMAIN Append(marked, Mark(o)) = 1..Len(s) + 1
      /\ \A i \in 1..Len(s) : Append(marked, Mark(o))[i] = marked[i]
      /\ Append(marked, Mark(o))[Len(s) + 1] = Mark(o)
  <2>1. Mark(o) \in Marks
    BY DEF Mark, Marks
  <2> QED
    BY <1>1, <1>2, <2>1
<1>5. \A i \in 1..Len(s) + 1 : Mark(Append(s, o)[i]) = Append(marked, Mark(o))[i]
  BY <1>1, <1>3, <1>4
<1>6. Append(marked, Mark(o)) = [i \in 1..Len(s) + 1 |-> Append(marked, Mark(o))[i]]
  BY <1>1, <1>2, <1>4 DEF Mark, Marks
<1> QED
  BY <1>3, <1>5, <1>6

\* What a batch is at, while a backup is in its loop.
LEMMA BatchFacts ==
  ASSUME IInv, ExitInv, command = "backup", pc # "done"
  PROVE  /\ BatchResults \in Seq(Marks) /\ Len(BatchResults) = Len(outcomes)
         /\ BatchSize = Len(sets) /\ BatchVerdict = "none"
         /\ BatchRunning <=> pc = "restic"
<1>1. BatchResults \in [1..Len(outcomes) -> Marks] /\ Len(outcomes) \in Nat
  BY DEF BatchResults, Mark, Marks, IInv, TypeOK
<1>2. BatchResults \in Seq(Marks) /\ Len(BatchResults) = Len(outcomes)
  BY <1>1
<1>3. BatchVerdict = "none"
  BY DEF BatchVerdict, ExitInv
<1>4. BatchSize = Len(sets) /\ (BatchRunning <=> pc = "restic")
  BY DEF BatchSize, BatchRunning
<1> QED
  BY <1>2, <1>3, <1>4

\* A call ends: what that does to the batch.
LEMMA BatchSettles ==
  ASSUME IInv, ExitInv, command = "backup", pc \in Calling, NEW outcome \in Outcomes,
         Settle(outcome), UNCHANGED <<command, cfg, sets, ctx, exit>>
  PROVE  /\ BatchResults' = Append(BatchResults, Mark(outcome))
         /\ ~BatchRunning'
         /\ UNCHANGED <<BatchSize, ctx, BatchVerdict>>
         /\ Len(BatchResults) + 1 <= BatchSize /\ BatchVerdict = "none"
         /\ Len(BatchResults) + 1 = Len(outcomes) + 1
<1>1. outcomes \in Seq(Outcomes) /\ Len(outcomes) \in Nat /\ Len(sets) \in Nat
      /\ Len(outcomes) < Len(sets)
  BY DEF IInv, TypeOK, Outcomes, LoopInv
<1>2. outcomes' = Append(outcomes, outcome) /\ pc' \in {"report", "call"}
  BY DEF Settle
<1>3. BatchResults' = Append(BatchResults, Mark(outcome))
  BY <1>1, <1>2, MarkAppended DEF BatchResults
<1> QED
  BY <1>1, <1>2, <1>3, BatchFacts DEF BatchRunning, BatchSize, BatchVerdict, Calling

\* The sets of which there is a complete snapshot after restic has ended.
LEMMA BatchSaves ==
  ASSUME IInv, command = "backup", pc = "restic", UNCHANGED <<command, cfg, sets>>
  PROVE  /\ snapshots' = snapshots => BatchSaved' = BatchSaved
         /\ snapshots' = Created(FALSE) => BatchSaved' = BatchSaved
         /\ snapshots' = Created(TRUE) => BatchSaved' = BatchSaved \cup {Len(outcomes) + 1}
<1>1. Len(outcomes) + 1 \in DOMAIN sets
  BY DEF IInv, TypeOK, LoopInv, Calling
<1>2. snapshots' = snapshots => BatchSaved' = BatchSaved
  BY DEF BatchSaved
<1>3. snapshots' = Created(FALSE) => BatchSaved' = BatchSaved
  BY DEF BatchSaved, Created
<1>4. snapshots' = Created(TRUE) => BatchSaved' = BatchSaved \cup {Len(outcomes) + 1}
  BY <1>1 DEF BatchSaved, Created, Repository, Turn
<1> QED
  BY <1>2, <1>3, <1>4

\* Nothing of the batch changes before the sets are known, between the steps of
\* a call, and on the disk.
LEMMA BatchStutters ==
  ASSUME IInv, ExitInv, command = "backup",
         \/ Truncate \/ Fill \/ Load \/ Open \/ CheckVersion \/ ReadUsername \/ ReadPassword
         \/ UNCHANGED vars
  PROVE  UNCHANGED BatchView
<1>1. CASE Load
  <2>1. sets = <<>> /\ sets' = <<>> /\ UNCHANGED <<command, outcomes, ctx, exit>>
        /\ pc # "restic" /\ pc' # "restic"
    BY <1>1 DEF Load, IInv, LoopInv
  <2>2. BatchSaved = {} /\ BatchSaved' = {}
    BY <2>1 DEF BatchSaved
  <2> QED
    BY <2>1, <2>2 DEF BatchView, BatchSize, BatchResults, BatchRunning, BatchVerdict
<1>2. CASE ~Load
  <2>1. UNCHANGED <<command, sets, outcomes, cfg, snapshots, ctx, exit>>
        /\ (pc = "restic" <=> pc' = "restic")
    BY <1>2
    DEF Truncate, Fill, Open, CheckVersion, ReadUsername, ReadPassword, ReadSecret, runVars, vars
  <2> QED
    BY <2>1 DEF BatchView, BatchSize, BatchResults, BatchRunning, BatchSaved, BatchVerdict
<1> QED
  BY <1>1, <1>2

\* Before the loop.
LEMMA BatchBegins ==
  ASSUME IInv, ExitInv, command = "backup",
         Cancel \/ Resolve \/ LoadFails \/ UnknownSet \/ OpenFails
  PROVE  B!Next
<1>1. CASE Cancel
  <2>1. BatchVerdict = "none" /\ ctx' = "canceled"
    BY <1>1, BatchFacts DEF Cancel
  <2>2. UNCHANGED <<BatchSize, BatchResults, BatchRunning, BatchSaved, BatchVerdict>>
    BY <1>1 DEF Cancel, BatchSize, BatchResults, BatchRunning, BatchSaved, BatchVerdict
  <2> QED
    BY <2>1, <2>2 DEF B!Next, B!Cancel
<1>2. CASE Resolve
  <2>1. sets = <<>> /\ Len(sets') \in Nat \ {0} /\ UNCHANGED <<command, outcomes, cfg, snapshots, ctx, exit>>
        /\ pc = "resolve" /\ pc' = "open"
    <3>1. IInv'
      BY <1>2, ResolvePreserves
    <3> QED
      BY <1>2, <3>1 DEF Resolve, IInv, TypeOK, LoopInv
  <2>2. BatchSize = 0 /\ BatchSize' \in Nat \ {0} /\ BatchVerdict = "none"
    BY <2>1, BatchFacts DEF BatchSize
  <2>3. snapshots = {}
    BY <2>1 DEF IInv, TypeOK
  <2>4. BatchSaved' = BatchSaved
    BY <2>1, <2>3 DEF BatchSaved
  <2>5. UNCHANGED <<BatchResults, BatchRunning, ctx, BatchVerdict>>
    BY <2>1 DEF BatchResults, BatchRunning, BatchVerdict
  <2> QED
    BY <2>2, <2>4, <2>5 DEF B!Next, B!Resolve
<1>3. CASE LoadFails \/ UnknownSet \/ OpenFails
  <2>1. /\ pc \in {"load", "resolve", "open"} /\ pc' = "done" /\ exit' = 1
        /\ UNCHANGED <<command, sets, outcomes, cfg, snapshots, ctx>>
    BY <1>3 DEF LoadFails, UnknownSet, OpenFails, Fails, Exit, exitError
  <2>2. BatchResults = <<>> /\ ~BatchRunning /\ BatchVerdict = "none"
    BY <2>1, BatchFacts DEF IInv, LoopInv, BatchResults
  <2>3. BatchVerdict' = "error"
    BY <2>1
    DEF BatchVerdict, Running, exitOK, exitTotalFailure, exitPartialFailure
  <2>4. UNCHANGED <<BatchSize, BatchResults, BatchRunning, BatchSaved, ctx>>
    BY <2>1 DEF BatchSize, BatchResults, BatchRunning, BatchSaved
  <2> QED
    BY <2>2, <2>3, <2>4 DEF B!Next, B!GiveUp
<1> QED
  BY <1>1, <1>2, <1>3

\* In the loop.
LEMMA BatchTurns ==
  ASSUME IInv, ExitInv, command = "backup",
         \/ Start \/ VersionFails \/ StartFails \/ ResticSucceeds \/ ResticCanceled
         \/ \E code \in ResticCodes : ResticFails(code)
  PROVE  B!Next
<1>1. CASE Start
  <2>1. pc = "start" /\ pc' = "restic" /\ ctx = "live"
        /\ UNCHANGED <<command, sets, outcomes, cfg, snapshots, ctx, exit>>
    BY <1>1 DEF Start, ResticStarts
  <2>2. Len(outcomes) \in Nat /\ Len(sets) \in Nat /\ Len(outcomes) < Len(sets)
    BY <2>1 DEF IInv, TypeOK, LoopInv, Calling
  <2>3. Len(BatchResults) + 1 <= BatchSize /\ BatchVerdict = "none" /\ ~BatchRunning
    BY <2>1, <2>2, BatchFacts
  <2>4. BatchRunning' = TRUE
    BY <2>1 DEF BatchRunning
  <2>5. UNCHANGED <<BatchSize, BatchResults, BatchSaved, ctx, BatchVerdict>>
    BY <2>1 DEF BatchSize, BatchResults, BatchSaved, BatchVerdict
  <2> QED
    BY <2>1, <2>3, <2>4, <2>5 DEF B!Next, B!Start, B!Turn
<1>2. CASE VersionFails \/ StartFails
  <2>1. pc \in Calling /\ pc # "restic" /\ Settle(OtherError)
        /\ UNCHANGED <<command, cfg, sets, ctx, exit, snapshots>>
    BY <1>2 DEF VersionFails, StartFails, CallFails, Calling
  <2>2. OtherError \in Outcomes /\ Mark(OtherError) = "failed"
    BY DEF Outcomes, Mark, OtherError, NoError
  <2>3. BatchSaved' = BatchSaved /\ BatchRunning' = FALSE
    BY <2>1, <2>2, BatchSettles DEF BatchSaved, BatchRunning
  <2> QED
    BY <2>1, <2>2, <2>3, BatchSettles DEF B!Next, B!Fail, B!Turn
<1>3. CASE ResticSucceeds
  <2>1. pc \in Calling /\ pc = "restic" /\ Settle(NoError) /\ snapshots' = Created(TRUE)
        /\ UNCHANGED <<command, cfg, sets, ctx, exit>>
    BY <1>3 DEF ResticSucceeds, ResticEnds, Calling
  <2>2. NoError \in Outcomes /\ Mark(NoError) = "ok"
    BY DEF Outcomes, Mark
  <2>3. BatchRunning /\ BatchRunning' = FALSE
    BY <2>1, <2>2, BatchSettles DEF BatchRunning
  <2>4. BatchSaved' = BatchSaved \cup {Len(BatchResults) + 1}
    BY <2>1, <2>2, BatchSaves, BatchSettles
  <2> QED
    BY <2>1, <2>2, <2>3, <2>4, BatchSettles DEF B!Next, B!Succeed, B!Turn
<1>4. ASSUME NEW outcome \in Outcomes, outcome # NoError, ResticEnds(outcome, snapshots')
      PROVE  (\/ snapshots' = snapshots \/ snapshots' = Created(FALSE)
              \/ snapshots' = Created(TRUE) /\ ctx = "canceled") => B!Next
  <2>1. pc \in Calling /\ pc = "restic" /\ Settle(outcome)
        /\ UNCHANGED <<command, cfg, sets, ctx, exit>>
    BY <1>4 DEF ResticEnds, Calling
  <2>2. Mark(outcome) = "failed"
    BY <1>4 DEF Mark
  <2>3. BatchRunning /\ BatchRunning' = FALSE
    BY <2>1, BatchSettles DEF BatchRunning
  <2>4. snapshots' = snapshots \/ snapshots' = Created(FALSE) => BatchSaved' = BatchSaved
    BY <2>1, BatchSaves
  <2>5. snapshots' = Created(TRUE) => BatchSaved' = BatchSaved \cup {Len(BatchResults) + 1}
    BY <2>1, BatchSaves, BatchSettles
  <2> QED
    BY <2>1, <2>2, <2>3, <2>4, <2>5, BatchSettles DEF B!Next, B!Fail, B!Turn
<1>5. CASE ResticCanceled
  <2>1. OtherError \in Outcomes /\ OtherError # NoError
    BY DEF Outcomes, OtherError, NoError
  <2>2. ResticEnds(OtherError, snapshots')
    BY <1>5 DEF ResticCanceled, ResticEnds
  <2>3. ctx = "canceled" /\ (snapshots' = snapshots \/ snapshots' = Created(TRUE))
    BY <1>5 DEF ResticCanceled, ResticEnds
  <2> QED
    BY <1>4, <2>1, <2>2, <2>3
<1>6. ASSUME NEW code \in ResticCodes, ResticFails(code) PROVE B!Next
  <2>1. code \in Outcomes /\ code # NoError
    BY BackupRunAssumption DEF Outcomes
  <2> QED
    BY <1>4, <1>6, <2>1 DEF ResticFails, ResticEnds
<1> QED
  BY <1>1, <1>2, <1>3, <1>5, <1>6

\* The verdict.
LEMMA BatchReports ==
  ASSUME IInv, ExitInv, command = "backup", Report
  PROVE  B!Next
<1>1. /\ pc = "report" /\ exit' = backupCode
      /\ UNCHANGED <<command, sets, outcomes, cfg, snapshots, ctx>>
  BY BackupCodeType DEF Report, Exit
<1>2. Len(outcomes) = Len(sets) /\ Len(sets) \in Nat \ {0} /\ DOMAIN outcomes = DOMAIN sets
      /\ 1 \in DOMAIN outcomes
  BY <1>1 DEF IInv, TypeOK, LoopInv
<1>3. BatchSize > 0 /\ Len(BatchResults) = BatchSize /\ BatchVerdict = "none"
  BY <1>1, <1>2, BatchFacts
<1>4. UNCHANGED <<BatchSize, BatchResults, BatchRunning, BatchSaved, ctx>>
  <2>1. pc' # "restic"
    BY DEF Report, Exit
  <2> QED
    BY <1>1, <2>1 DEF BatchSize, BatchResults, BatchRunning, BatchSaved
<1>5. /\ DOMAIN BatchResults = DOMAIN outcomes
      /\ \A i \in DOMAIN outcomes : BatchResults[i] = Mark(outcomes[i])
  BY DEF BatchResults
<1>6. BatchVerdict' = B!Judged
  <2>1. CASE Failures = {}
    <3>1. \A i \in DOMAIN BatchResults : BatchResults[i] = "ok"
      BY <1>5, <2>1 DEF Failures, Mark
    <3>2. exit' = exitOK
      BY <1>1, <2>1 DEF backupCode
    <3>3. B!Judged = "ok"
      BY <3>1 DEF B!Judged
    <3>4. BatchVerdict' = "ok"
      BY <1>1, <3>2
      DEF BatchVerdict, exitOK, exitTotalFailure, exitPartialFailure, Running
    <3> QED
      BY <3>3, <3>4
  <2>2. CASE Failures # {} /\ Cardinality(Failures) = Len(sets)
    <3>1. Failures = DOMAIN outcomes
      BY <1>2, <2>2, AllFailed DEF IInv
    <3>2. /\ \A i \in DOMAIN BatchResults : BatchResults[i] = "failed"
          /\ 1 \in DOMAIN BatchResults
      BY <1>2, <1>5, <3>1 DEF Failures, Mark
    <3>3. exit' = exitTotalFailure
      BY <1>1, <2>2 DEF backupCode
    <3>4. B!Judged = "total"
      <4>1. BatchResults[1] # "ok"
        BY <3>2
      <4> QED
        BY <3>2, <4>1 DEF B!Judged
    <3>5. BatchVerdict' = "total"
      BY <1>1, <3>3
      DEF BatchVerdict, exitOK, exitTotalFailure, exitPartialFailure, Running
    <3> QED
      BY <3>4, <3>5
  <2>3. CASE Failures # {} /\ Cardinality(Failures) # Len(sets)
    <3>1. \E i \in DOMAIN BatchResults : BatchResults[i] = "ok"
      <4>1. \E i \in DOMAIN outcomes : outcomes[i] = NoError
        BY <1>2, <2>3, SomeSucceeded DEF IInv
      <4> QED
        BY <1>5, <4>1 DEF Mark
    <3>2. \E i \in DOMAIN BatchResults : BatchResults[i] = "failed"
      BY <1>5, <2>3 DEF Failures, Mark
    <3>3. exit' = exitPartialFailure
      BY <1>1, <2>3 DEF backupCode
    <3> QED
      BY <1>1, <3>1, <3>2, <3>3
      DEF B!Judged, BatchVerdict, exitPartialFailure, exitTotalFailure, exitOK, Running
  <2> QED
    BY <2>1, <2>2, <2>3
<1> QED
  BY <1>3, <1>4, <1>6 DEF B!Next, B!Report

\* A maintenance command is a batch at most a cancellation happens to.
LEMMA NoBatch ==
  ASSUME command # "backup", command' = command, [Next]_vars
  PROVE  B!Next \/ UNCHANGED BatchView
<1>1. UNCHANGED <<BatchSize, BatchResults, BatchRunning, BatchSaved, BatchVerdict>>
  BY DEF BatchSize, BatchResults, BatchRunning, BatchSaved, BatchVerdict
<1>2. ctx' = ctx \/ ctx' = "canceled"
  BY DEF Next, Truncate, Fill, Cancel, CommandStep, Load, LoadFails, Fails, Resolve,
         UnknownSet, Open, OpenFails, CheckVersion, VersionFails, CallFails, ReadUsername,
         ReadPassword, ReadSecret, Start, ResticStarts, StartFails, ResticSucceeds,
         ResticCanceled, ResticFails, ResticEnds, Report, Done, runVars, vars
<1>3. BatchVerdict = "none"
  BY DEF BatchVerdict
<1> QED
  BY <1>1, <1>2, <1>3 DEF BatchView, B!Next, B!Cancel

\* backup and run implement Batch, for any number of sets: whatever restic, the
\* version check, the secrets on disk and a cancellation do, each set has its one
\* turn and the verdict is on all of them.
THEOREM BatchTheorem == Spec => ImplementsBatch
<1>1. Init => B!Init
  BY DEF Init, B!Init, BatchSize, BatchResults, BatchRunning, BatchSaved, BatchVerdict
<1>2. IInv /\ ExitInv /\ [Next]_vars => [B!Next]_(B!vars)
  <2> SUFFICES ASSUME IInv, ExitInv, [Next]_vars PROVE B!Next \/ UNCHANGED BatchView
    BY BatchVars
  <2>1. command' = command
    BY DEF Next, Truncate, Fill, Cancel, CommandStep, Load, LoadFails, Fails, Resolve,
           UnknownSet, Open, OpenFails, CheckVersion, VersionFails, CallFails, ReadUsername,
           ReadPassword, ReadSecret, Start, ResticStarts, StartFails, ResticSucceeds,
           ResticCanceled, ResticFails, ResticEnds, Report, Done, runVars, vars
  <2>2. CASE command # "backup"
    BY <2>1, <2>2, NoBatch
  <2>3. CASE command = "backup"
    BY <2>3, BatchStutters, BatchBegins, BatchTurns, BatchReports
    DEF Next, CommandStep, Done
  <2> QED
    BY <2>2, <2>3
<1> QED
  BY <1>1, <1>2, ExitCorrect, Invariance, PTL DEF Spec, ImplementsBatch, B!Spec

\* What a batch has on record: the sets that succeeded have their snapshot, the
\* others only from a cancellation, and a verdict is on all of them.
BatchRecord ==
    /\ BatchSize \in Nat
    /\ BatchResults \in Seq(Marks) /\ Len(BatchResults) <= BatchSize
    /\ BatchSaved \subseteq DOMAIN BatchResults
    /\ BatchRunning => Len(BatchResults) < BatchSize /\ BatchVerdict = "none"
    /\ \A i \in DOMAIN BatchResults : BatchResults[i] = "ok" => i \in BatchSaved
    /\ ctx = "live" => \A i \in BatchSaved : BatchResults[i] = "ok"
    /\ BatchVerdict = "error" => BatchResults = <<>>
    /\ BatchVerdict \in {"ok", "partial", "total"} =>
           Len(BatchResults) = BatchSize /\ BatchSize > 0 /\ BatchVerdict = B!Judged

\* The set whose turn it is gets its result.
LEMMA RecordGrows ==
  ASSUME BatchRecord, BatchVerdict = "none", NEW mark \in Marks, B!Turn <= BatchSize,
         BatchResults' = Append(BatchResults, mark), ~BatchRunning',
         \/ BatchSaved' = BatchSaved /\ mark = "failed"
         \/ BatchSaved' = BatchSaved \cup {B!Turn} /\ (mark = "ok" \/ ctx # "live"),
         UNCHANGED <<BatchSize, ctx, BatchVerdict>>
  PROVE  BatchRecord'
<1>1. /\ BatchResults \in Seq(Marks) /\ Len(BatchResults) \in Nat
      /\ DOMAIN BatchResults = 1..Len(BatchResults)
      /\ B!Turn = Len(BatchResults) + 1
  BY DEF BatchRecord, B!Turn
<1>2. /\ BatchResults' \in Seq(Marks) /\ Len(BatchResults') = B!Turn
      /\ DOMAIN BatchResults' = DOMAIN BatchResults \cup {B!Turn}
      /\ \A i \in DOMAIN BatchResults : BatchResults'[i] = BatchResults[i]
      /\ BatchResults'[B!Turn] = mark
      /\ B!Turn \notin DOMAIN BatchResults
  BY <1>1
<1>3. BatchSize \in Nat /\ BatchSize' = BatchSize /\ BatchVerdict' = "none" /\ ctx' = ctx
  BY DEF BatchRecord
<1>4. BatchSaved' \subseteq DOMAIN BatchResults'
  BY <1>2 DEF BatchRecord
<1>5. \A i \in DOMAIN BatchResults' : BatchResults'[i] = "ok" => i \in BatchSaved'
  BY <1>2 DEF BatchRecord
<1>6. ctx = "live" => \A i \in BatchSaved' : BatchResults'[i] = "ok"
  BY <1>2 DEF BatchRecord
<1> QED
  BY <1>2, <1>3, <1>4, <1>5, <1>6 DEF BatchRecord

LEMMA RecordKept ==
  ASSUME BatchRecord, [B!Next]_(B!vars)
  PROVE  BatchRecord'
<1>1. CASE B!Succeed \/ B!Fail
  <2>1. BatchVerdict = "none" /\ B!Turn <= BatchSize
    BY <1>1 DEF B!Succeed, B!Fail, B!Turn, BatchRecord
  <2>2. "ok" \in Marks /\ "failed" \in Marks
    BY DEF Marks
  <2>3. CASE B!Succeed
    BY <2>1, <2>2, <2>3, RecordGrows DEF B!Succeed
  <2>4. CASE B!Fail
    BY <2>1, <2>2, <2>4, RecordGrows DEF B!Fail
  <2> QED
    BY <1>1, <2>3, <2>4
<1>2. CASE B!Cancel
  BY <1>2 DEF B!Cancel, BatchRecord, B!Judged
<1>3. CASE B!Resolve
  <2>1. BatchResults = <<>>
    BY <1>3 DEF B!Resolve, BatchRecord
  <2> QED
    BY <1>3, <2>1 DEF B!Resolve, BatchRecord, B!Judged
<1>4. CASE B!GiveUp
  BY <1>4 DEF B!GiveUp, BatchRecord, B!Judged
<1>5. CASE B!Start
  BY <1>5 DEF B!Start, B!Turn, BatchRecord, B!Judged
<1>6. CASE B!Report
  BY <1>6 DEF B!Report, BatchRecord, B!Judged
<1>7. CASE UNCHANGED B!vars
  BY <1>7 DEF B!vars, BatchRecord, B!Judged
<1> QED
  BY <1>1, <1>2, <1>3, <1>4, <1>5, <1>6, <1>7 DEF B!Next

\* The record is what makes the verdict true.
LEMMA RecordVerdict ==
  ASSUME BatchRecord
  PROVE  B!VerdictIsTrue
<1>1. DOMAIN BatchResults = 1..Len(BatchResults) /\ BatchResults \in [DOMAIN BatchResults -> Marks]
  BY DEF BatchRecord
<1>2. CASE BatchVerdict = "ok"
  <2>1. \A i \in DOMAIN BatchResults : BatchResults[i] = "ok"
    BY <1>1, <1>2 DEF BatchRecord, B!Judged
  <2>2. BatchSaved = 1..BatchSize
    BY <1>1, <1>2, <2>1 DEF BatchRecord
  <2> QED
    BY <1>2, <2>2 DEF B!VerdictIsTrue
<1>3. CASE BatchVerdict = "partial"
  <2>1. /\ \E i \in DOMAIN BatchResults : BatchResults[i] = "failed"
        /\ \E i \in DOMAIN BatchResults : BatchResults[i] = "ok"
    BY <1>1, <1>3 DEF BatchRecord, B!Judged, Marks
  <2> QED
    BY <1>3, <2>1 DEF BatchRecord, B!VerdictIsTrue
<1>4. CASE BatchVerdict = "total"
  <2>1. \A i \in DOMAIN BatchResults : BatchResults[i] = "failed"
    BY <1>4 DEF BatchRecord, B!Judged
  <2> QED
    BY <1>4, <2>1 DEF BatchRecord, B!VerdictIsTrue
<1>5. CASE BatchVerdict = "error"
  <2>1. BatchSaved = {}
    BY <1>1, <1>5 DEF BatchRecord
  <2> QED
    BY <1>5, <2>1 DEF B!VerdictIsTrue
<1> QED
  BY <1>2, <1>3, <1>4, <1>5 DEF B!VerdictIsTrue

\* Batch keeps its promise by itself.
LEMMA BatchIsTrue == B!Spec => []B!VerdictIsTrue
<1>1. B!Init => BatchRecord
  BY DEF B!Init, BatchRecord, Marks
<1> QED
  BY <1>1, RecordKept, RecordVerdict, PTL DEF B!Spec

\* So backup and run keep it too: the exit status of a run tells which complete
\* snapshots it has made, for any number of sets.
THEOREM VerdictTheorem == Spec => []B!VerdictIsTrue
  BY BatchTheorem, BatchIsTrue, PTL DEF ImplementsBatch

=============================================================================
