---------------------------- MODULE SetupProofs ----------------------------
(***************************************************************************)
(* Theorems about Setup, for every set of URLs, passwords and set names,   *)
(* every server policy SetupAssumption allows, every bound on stdin and    *)
(* every combination of faults.                                            *)
(***************************************************************************)
EXTENDS Setup, FiniteSetTheorems, TLAPS

Probing == {"probe", "askRetry", "askPassword"}

Writing == {"save", "encode", "secrets"}

\* Once the prompts are over there are parameters.
ParamsInv == pc \in Probing \cup Writing => params \in Params

TypeInv == TypeOK /\ ParamsInv

-----------------------------------------------------------------------------
(* Type correctness *)

LEMMA NoStoredType ==
    /\ NoStored \in [SecretNames -> SecretValues]
    /\ \A n \in SecretNames : NoStored[n] \in SecretType(n)
  BY DEF NoStored, SecretNames, SecretValues, SecretType

LEMMA NoLines == 0 \in 0..MaxLines
  BY SetupAssumption

LEMMA InitTypeInv == Init => TypeInv
<1> SUFFICES ASSUME Init PROVE TypeInv
  OBVIOUS
<1>1. /\ secrets \in [SecretNames -> SecretValues \cup {NoSecret}]
      /\ \A n \in SecretNames : secrets[n] \in SecretType(n) \cup {NoSecret}
  BY DEF Init
<1> QED
  BY <1>1, NoStoredType, NoLines
  DEF Init, TypeInv, TypeOK, ParamsInv, PCs, Outcomes, Probing, Writing

LEMMA ExitTypeInv ==
  ASSUME TypeInv, NEW how \in Outcomes, Exit(how),
         config' \in Config \cup {NoConfig, BadConfig},
         secrets' \in [SecretNames -> SecretValues \cup {NoSecret}],
         \A n \in SecretNames : secrets'[n] \in SecretType(n) \cup {NoSecret},
         repo' \in [URLs -> Passwords \cup {NoRepo}],
         interrupted' \in BOOLEAN
  PROVE  TypeInv'
<1>1. stored' = NoStored
  BY DEF Exit
<1>2. /\ pc' = "idle" /\ outcome' = how /\ existing' = NoConfig /\ params' = NoParams
      /\ created' = FALSE /\ pending' = {} /\ lines' = 0
  BY DEF Exit
<1> QED
  BY <1>1, <1>2, NoStoredType, NoLines
  DEF TypeInv, TypeOK, ParamsInv, PCs, Probing, Writing

LEMMA CollectTypeInv ==
  ASSUME TypeInv, NEW in \in Inputs, NEW l \in 0..MaxLines, CollectInputs(in, l)
  PROVE  TypeInv'
<1> USE DEF TypeInv, TypeOK
<1>1. /\ stored' \in [SecretNames -> SecretValues]
      /\ \A n \in SecretNames : stored'[n] \in SecretType(n)
  BY DEF CollectInputs, loadStoredSecrets, getStoredSecret, SecretNames, SecretValues, SecretType
<1>2. loadStoredSecrets = stored'
  BY DEF CollectInputs
<1>3. collectPassword(in, stored') \in SecretType("repo.password")
  BY <1>1 DEF collectPassword, Inputs, SecretNames, SecretType
<1>4. collectRESTUsername(in, stored') \in SecretType("rest.username")
  BY <1>1 DEF collectRESTUsername, KeepOrReplace, Inputs, SecretNames, SecretType
<1>5. collectRESTPassword(in, stored') \in SecretType("rest.password")
  BY <1>1 DEF collectRESTPassword, KeepOrReplace, Inputs, SecretNames, SecretType
<1>6. buildConfig(in, existing) \in Config
  BY DEF buildConfig, Inputs, Config
<1>7. skipProbe(in, stored') \in BOOLEAN
  BY DEF skipProbe
<1>8. params' \in Params
  BY <1>2, <1>3, <1>4, <1>5, <1>6, <1>7 DEF CollectInputs, Params
<1>9. pc' \in PCs
  BY DEF CollectInputs, PCs
<1> QED
  BY <1>1, <1>8, <1>9 DEF CollectInputs, ParamsInv, disk

LEMMA NextTypeInv == TypeInv /\ [Next]_vars => TypeInv'
<1> SUFFICES ASSUME TypeInv, [Next]_vars PROVE TypeInv'
  OBVIOUS
<1>1. ASSUME NEW cmd, StartSetup(cmd) PROVE TypeInv'
  BY <1>1 DEF StartSetup, TypeInv, TypeOK, ParamsInv, PCs, Outcomes, Probing, Writing, disk
<1>2. ASSUME NEW how \in Outcomes, ExitClean(how) PROVE TypeInv'
  BY <1>2, ExitTypeInv DEF ExitClean, TypeInv, TypeOK, disk
<1>3. ASSUME NEW cmd, StartRefused(cmd) PROVE TypeInv'
  BY <1>2, <1>3 DEF StartRefused, Outcomes
<1>4. CASE Collect
  BY <1>4, CollectTypeInv DEF Collect
<1>5. CASE CollectFails
  BY <1>2, <1>5 DEF CollectFails, Outcomes
<1>6. CASE Probe
  BY <1>2, <1>6
  DEF Probe, ProbeVerifies, ProbeFindsNothing, ProbeRejectsPassword, ProbeFails, ProbeCannotRun,
      TypeInv, TypeOK, ParamsInv, PCs, Outcomes, Probing, Writing, disk
<1>7. CASE Answer
  <2>1. CASE RetryDeclined \/ AskPasswordEnds
    BY <1>2, <2>1 DEF RetryDeclined, AskPasswordEnds, Outcomes
  <2>2. CASE RetryAccepted \/ RetryUnclear
    BY <2>2, SetupAssumption
    DEF RetryAccepted, RetryUnclear, TypeInv, TypeOK, ParamsInv, PCs, Probing, Writing, disk
  <2>3. ASSUME NEW pw \in Passwords \cup {Blank}, AskPassword(pw) PROVE TypeInv'
    <3>1. params' \in Params
      BY <2>3 DEF AskPassword, TypeInv, ParamsInv, Probing, Params, SecretType
    <3> QED
      BY <2>3, <3>1, SetupAssumption DEF AskPassword, TypeInv, TypeOK, ParamsInv, PCs, disk
  <2> QED
    BY <1>7, <2>1, <2>2, <2>3 DEF Answer
<1>8. CASE Save
  <2>1. CASE SaveRefused
    BY <1>2, <2>1 DEF SaveRefused, Outcomes
  <2>2. CASE SaveOpen
    BY <2>2 DEF SaveOpen, TypeInv, TypeOK, ParamsInv, PCs, Writing
  <2>3. CASE SaveEncode
    BY <2>3 DEF SaveEncode, TypeInv, TypeOK, ParamsInv, PCs, Writing, Params, ToPersist, SecretNames
  <2>4. CASE SaveFails
    <3>1. config' \in Config \cup {BadConfig}
      BY <2>4 DEF SaveFails, TypeInv, ParamsInv, Writing, Params
    <3> QED
      BY <2>4, <3>1, ExitTypeInv DEF SaveFails, ExitDirty, TypeInv, TypeOK, Outcomes
  <2> QED
    BY <1>8, <2>1, <2>2, <2>3, <2>4 DEF Save
<1>9. CASE Persist
  <2>1. ASSUME NEW n \in SecretNames, pc = "secrets" PROVE Collected(n) \in SecretType(n)
    BY <2>1 DEF Collected, TypeInv, ParamsInv, Writing, Params, SecretNames, SecretType
  <2>2. ASSUME NEW n \in SecretNames PROVE SecretType(n) \subseteq SecretValues /\ Blank \in SecretType(n)
    BY <2>2 DEF SecretNames, SecretType, SecretValues
  <2>3. ASSUME NEW n \in SecretNames, PersistSecret(n) PROVE TypeInv'
    BY <2>1, <2>2, <2>3 DEF PersistSecret, TypeInv, TypeOK, ParamsInv
  <2>4. ASSUME NEW n \in SecretNames, PersistFails(n) PROVE TypeInv'
    <3>1. PICK v \in {secrets[n], Blank, Collected(n)} : secrets' = [secrets EXCEPT ![n] = v]
      BY <2>4 DEF PersistFails
    <3>2. v \in SecretType(n) \cup {NoSecret}
      BY <2>1, <2>2, <2>4, <3>1 DEF PersistFails, TypeInv, TypeOK
    <3>3. /\ secrets' \in [SecretNames -> SecretValues \cup {NoSecret}]
          /\ \A m \in SecretNames : secrets'[m] \in SecretType(m) \cup {NoSecret}
      BY <2>2, <3>1, <3>2 DEF TypeInv, TypeOK
    <3> QED
      BY <2>4, <3>3, ExitTypeInv DEF PersistFails, ExitDirty, TypeInv, TypeOK, Outcomes
  <2> QED
    BY <1>9, <2>3, <2>4 DEF Persist
<1>10. CASE Finish
  <2>1. CASE FinishVerified
    BY <2>1, ExitTypeInv DEF FinishVerified, TypeInv, TypeOK, Outcomes, disk
  <2>2. CASE initRepository
    <3>1. repo' \in [URLs -> Passwords \cup {NoRepo}]
      BY <2>2 DEF initRepository, TypeInv, TypeOK
    <3> QED
      BY <2>2, <3>1, ExitTypeInv DEF initRepository, TypeInv, TypeOK, Outcomes, disk
  <2>3. CASE InitRepositoryFails
    BY <2>3, ExitTypeInv DEF InitRepositoryFails, ExitDirty, TypeInv, TypeOK, Outcomes, disk
  <2> QED
    BY <1>10, <2>1, <2>2, <2>3 DEF Finish
<1>11. CASE Crash
  BY <1>11, ExitTypeInv DEF Crash, TypeInv, TypeOK, Outcomes, disk
<1>12. ASSUME NEW url \in URLs, NEW pw \in Passwords, OtherHostInit(url, pw) PROVE TypeInv'
  BY <1>12 DEF OtherHostInit, TypeInv, TypeOK, ParamsInv, disk, process
<1>13. ASSUME NEW name \in UserSets, UserAddsSet(name) PROVE TypeInv'
  <2>1. config \in Config
    BY <1>13 DEF UserAddsSet, Saved, TypeInv, TypeOK
  <2>2. config' \in Config
    BY <1>13, <2>1, SMTT(30) DEF UserAddsSet, Config
  <2> QED
    BY <1>13, <2>2 DEF UserAddsSet, TypeInv, TypeOK, ParamsInv, Outcomes
<1>14. CASE UNCHANGED vars
  BY <1>14 DEF vars, disk, process, TypeInv, TypeOK, ParamsInv
<1> QED
  BY <1>1, <1>3, <1>4, <1>5, <1>6, <1>7, <1>8, <1>9, <1>10, <1>11, <1>12, <1>13, <1>14
  DEF Next, SetupStep

\* TypeOK is an invariant of every instance of Setup.
THEOREM TypeCorrect == Spec => []TypeOK
<1>1. TypeInv => TypeOK
  BY DEF TypeInv
<1> QED
  BY <1>1, InitTypeInv, NextTypeInv, PTL DEF Spec

-----------------------------------------------------------------------------
(* What is written was verified *)

SameConnection ==
    /\ existing # NoConfig
    /\ params.cfg.url = existing.url
    /\ params.password = stored["repo.password"]
    /\ params.restUsername = stored["rest.username"]
    /\ params.restPassword = stored["rest.password"]

ProbedConnection ==
    \/ Opens(params.cfg.url, params.password, params.restUsername, params.restPassword)
    \/ created /\ ProbeAuthorized

\* Until the first write the disk is what the process loaded, and until it is
\* encoded config.toml is empty.
LoadedInv ==
    /\ pc = "encode" => config = BadConfig
    /\ pc \in {"collect", "save"} \cup Probing => config = existing /\ config # BadConfig
    /\ pc \in {"save", "encode"} \cup Probing => loadStoredSecrets = stored

\* A repository to create was found missing by a probe of this process.
CreatedInv == created => pc \in Writing /\ ~params.skipProbe

ProbingInv == pc \in Probing => ~params.skipProbe

\* A skipped probe keeps the connection, any other run has probed it.
VerifiedInv ==
    pc \in Writing => IF params.skipProbe THEN SameConnection ELSE ProbedConnection

\* A complete config on disk opens its repository unless a run was cut short.
SettledInv ==
    pc \in {"idle", "collect", "save"} \cup Probing /\ ~interrupted => config = NoConfig \/ Usable

\* A run that skips the probe never disturbs the secrets on disk.
SkipInv ==
    pc \in Writing /\ params.skipProbe /\ ~interrupted
        => Opens(params.cfg.url, secrets["repo.password"],
                 secrets["rest.username"], secrets["rest.password"])

\* CopyInto has written what it no longer has to write, and nothing else.
PersistInv ==
    pc = "secrets"
        => /\ config = params.cfg
           /\ pending \subseteq ToPersist
           /\ \A n \in ToPersist \ pending : secrets[n] = Collected(n)
           /\ \A n \in pending \cup (SecretNames \ ToPersist) : getStoredSecret(n) = stored[n]

IInv ==
    /\ TypeInv
    /\ LoadedInv
    /\ CreatedInv
    /\ ProbingInv
    /\ VerifiedInv
    /\ SettledInv
    /\ SkipInv
    /\ PersistInv

LEMMA InitIInv == Init => IInv
  BY InitTypeInv
  DEF Init, IInv, LoadedInv, CreatedInv, ProbingInv, VerifiedInv, SettledInv, SkipInv,
      PersistInv, Probing, Writing, Saved

\* A process that ends leaves only SettledInv to be shown.
LEMMA ExitIInv ==
  ASSUME TypeInv', NEW how, Exit(how), ~interrupted' => config' = NoConfig \/ Usable'
  PROVE  IInv'
<1>1. pc' = "idle" /\ created' = FALSE
  BY DEF Exit
<1> QED
  BY <1>1
  DEF IInv, LoadedInv, CreatedInv, ProbingInv, VerifiedInv, SettledInv, SkipInv,
      PersistInv, Probing, Writing

\* Nothing restic sees has changed.
LEMMA SameDisk ==
  ASSUME UNCHANGED <<config, secrets, repo>>
  PROVE  /\ Saved' = Saved
         /\ Usable' = Usable
         /\ loadStoredSecrets' = loadStoredSecrets
         /\ \A n : getStoredSecret(n)' = getStoredSecret(n)
  BY DEF Saved, Usable, Opens, Authorized, restServerEnv, loadStoredSecrets, getStoredSecret

LEMMA CleanIInv ==
  ASSUME IInv, TypeInv', NEW how, ExitClean(how), pc # "encode", pc # "secrets"
  PROVE  IInv'
<1>1. UNCHANGED <<config, secrets, repo, interrupted>>
  BY DEF ExitClean, disk
<1>2. ~interrupted' => config' = NoConfig \/ Usable'
  BY <1>1, SameDisk DEF IInv, SettledInv, TypeInv, TypeOK, PCs, Probing
<1> QED
  BY <1>2, ExitIInv DEF ExitClean

\* The parameters, the loaded values and restic's view of them are unchanged.
LEMMA SameConnectionKept ==
  ASSUME UNCHANGED <<params, existing, stored>>
  PROVE  SameConnection' = SameConnection /\ ToPersist' = ToPersist
         /\ ProbeAuthorized' = ProbeAuthorized
         /\ \A n : Collected(n)' = Collected(n)
  BY DEF SameConnection, ToPersist, ProbeAuthorized, Authorized, restServerEnv, Collected

-----------------------------------------------------------------------------

LEMMA StartIInv ==
  ASSUME IInv, TypeInv', NEW cmd, StartSetup(cmd)
  PROVE  IInv'
<1>1. /\ pc = "idle" /\ pc' = "collect" /\ existing' = config /\ config # BadConfig
      /\ UNCHANGED <<config, secrets, repo, created, params, interrupted>>
  BY DEF StartSetup, disk
<1>2. SettledInv'
  BY <1>1, SameDisk DEF IInv, SettledInv
<1>3. CreatedInv'
  BY <1>1 DEF IInv, CreatedInv, Writing
<1> QED
  BY <1>1, <1>2, <1>3
  DEF IInv, LoadedInv, ProbingInv, VerifiedInv, SkipInv, PersistInv, Probing, Writing

LEMMA CollectIInv ==
  ASSUME IInv, TypeInv', NEW in \in Inputs, NEW l \in 0..MaxLines, CollectInputs(in, l)
  PROVE  IInv'
<1> DEFINE old == loadStoredSecrets
<1>1. /\ pc = "collect" /\ stored' = old /\ lines' = l
      /\ UNCHANGED <<config, secrets, repo, existing, created, pending, interrupted>>
  BY DEF CollectInputs, disk
<1>2. /\ params'.cfg.url = in.url
      /\ params'.password = collectPassword(in, old)
      /\ params'.restUsername = collectRESTUsername(in, old)
      /\ params'.restPassword = collectRESTPassword(in, old)
      /\ params'.skipProbe = skipProbe(in, old)
      /\ pc' = IF skipProbe(in, old) THEN "save" ELSE "probe"
  BY DEF CollectInputs, buildConfig
<1>3. LoadedInv'
  BY <1>1, <1>2, SameDisk DEF IInv, LoadedInv, Probing
<1>4. ~created
  BY <1>1 DEF IInv, CreatedInv, Writing
<1>5. CreatedInv' /\ ProbingInv' /\ PersistInv'
  BY <1>1, <1>2, <1>4 DEF CreatedInv, ProbingInv, PersistInv, Probing
<1>6. params'.skipProbe => SameConnection'
  BY <1>1, <1>2 DEF skipProbe, SameConnection
<1>7. VerifiedInv'
  BY <1>2, <1>6 DEF VerifiedInv, Writing
<1>8. SettledInv'
  BY <1>1, <1>2, SameDisk DEF IInv, SettledInv, Probing
<1>9. SkipInv'
  <2>1. SUFFICES ASSUME skipProbe(in, old), ~interrupted
                 PROVE  Opens(in.url, secrets["repo.password"],
                              secrets["rest.username"], secrets["rest.password"])'
    BY <1>1, <1>2, <2>1 DEF SkipInv, Writing
  <2>2. existing = config /\ existing # NoConfig /\ config # BadConfig /\ in.url = config.url
    BY <1>1, <2>1 DEF skipProbe, IInv, LoadedInv
  <2>3. Usable
    BY <1>1, <2>1, <2>2 DEF IInv, SettledInv, Saved
  <2> QED
    BY <1>1, <2>2, <2>3 DEF Usable, Opens, Authorized, restServerEnv
<1> QED
  BY <1>3, <1>5, <1>7, <1>8, <1>9 DEF IInv

\* The probe, and the questions it leads to.
LEMMA ProbeIInv ==
  ASSUME IInv, TypeInv',
         \/ ProbeVerifies \/ ProbeFindsNothing \/ ProbeRejectsPassword \/ ProbeFails
         \/ RetryAccepted \/ RetryUnclear
         \/ \E pw \in Passwords \cup {Blank} : AskPassword(pw)
  PROVE  IInv'
<1>1. /\ pc \in Probing /\ pc' \in Probing \cup {"save"}
      /\ UNCHANGED <<config, secrets, repo, existing, stored, interrupted>>
      /\ created' \in {created, FALSE} \/ ProbeFindsNothing
  BY DEF ProbeVerifies, ProbeFindsNothing, ProbeRejectsPassword, ProbeFails, RetryAccepted,
         RetryUnclear, AskPassword, Probing, disk
<1>2. params \in Params /\ ~params.skipProbe /\ ~created
  BY <1>1 DEF IInv, TypeInv, ParamsInv, ProbingInv, CreatedInv, Probing, Writing
<1>3. ~params'.skipProbe
  BY <1>2 DEF ProbeVerifies, ProbeFindsNothing, ProbeRejectsPassword, ProbeFails, RetryAccepted,
         RetryUnclear, AskPassword, Params
<1>4. LoadedInv' /\ ProbingInv' /\ PersistInv' /\ SkipInv'
  BY <1>1, <1>3, SameDisk
  DEF IInv, LoadedInv, ProbingInv, PersistInv, SkipInv, Probing, Writing
<1>5. SettledInv'
  BY <1>1, SameDisk DEF IInv, SettledInv, Probing
<1>6. CreatedInv'
  BY <1>2, <1>3
  DEF CreatedInv, ProbeVerifies, ProbeFindsNothing, ProbeRejectsPassword, ProbeFails,
      RetryAccepted, RetryUnclear, AskPassword, Writing
<1>7. pc' = "save" => UNCHANGED params /\ (ProbeVerifies \/ ProbeFindsNothing)
  BY DEF ProbeVerifies, ProbeFindsNothing, ProbeRejectsPassword, ProbeFails, RetryAccepted,
         RetryUnclear, AskPassword
<1>8. VerifiedInv'
  <2>1. CASE ProbeVerifies
    BY <1>1, <1>3, <2>1
    DEF ProbeVerifies, VerifiedInv, ProbedConnection, Opens, ProbeAuthorized, Authorized, restServerEnv
  <2>2. CASE ProbeFindsNothing
    BY <1>1, <1>3, <2>2
    DEF ProbeFindsNothing, VerifiedInv, ProbedConnection, ProbeAuthorized, Authorized, restServerEnv
  <2> QED
    BY <1>1, <1>7, <2>1, <2>2 DEF VerifiedInv, Probing, Writing
<1> QED
  BY <1>4, <1>5, <1>6, <1>8 DEF IInv

LEMMA SaveIInv ==
  ASSUME IInv, TypeInv', Save
  PROVE  IInv'
<1>1. CASE SaveRefused
  BY <1>1, CleanIInv DEF SaveRefused
<1>2. CASE SaveOpen
  <2>1. /\ pc = "save" /\ pc' = "encode" /\ config' = BadConfig
        /\ UNCHANGED <<secrets, repo, existing, stored, params, created, interrupted>>
    BY <1>2 DEF SaveOpen
  <2>2. LoadedInv'
    BY <2>1 DEF IInv, LoadedInv, Probing, loadStoredSecrets, getStoredSecret
  <2>3. CreatedInv' /\ ProbingInv' /\ SettledInv' /\ PersistInv'
    BY <2>1 DEF IInv, CreatedInv, ProbingInv, SettledInv, PersistInv, Probing, Writing
  <2>4. VerifiedInv'
    BY <2>1, SameConnectionKept
    DEF IInv, VerifiedInv, ProbedConnection, Opens, Authorized, restServerEnv, Writing
  <2>5. SkipInv'
    BY <2>1 DEF IInv, SkipInv, Opens, Authorized, restServerEnv, Writing
  <2> QED
    BY <2>2, <2>3, <2>4, <2>5 DEF IInv
<1>3. CASE SaveEncode
  <2>1. /\ pc = "encode" /\ pc' = "secrets" /\ config' = params.cfg /\ pending' = ToPersist
        /\ UNCHANGED <<secrets, repo, existing, stored, params, created, interrupted>>
    BY <1>3 DEF SaveEncode
  <2>2. LoadedInv' /\ CreatedInv' /\ ProbingInv' /\ SettledInv'
    BY <2>1 DEF IInv, LoadedInv, CreatedInv, ProbingInv, SettledInv, Probing, Writing
  <2>3. VerifiedInv'
    BY <2>1, SameConnectionKept
    DEF IInv, VerifiedInv, ProbedConnection, Opens, Authorized, restServerEnv, Writing
  <2>4. SkipInv'
    BY <2>1 DEF IInv, SkipInv, Opens, Authorized, restServerEnv, Writing
  <2>5. \A n \in SecretNames : getStoredSecret(n) = stored[n]
    BY <2>1 DEF IInv, LoadedInv, loadStoredSecrets
  <2>6. PersistInv'
    BY <2>1, <2>5, SameConnectionKept DEF PersistInv, getStoredSecret, ToPersist, SecretNames
  <2> QED
    BY <2>2, <2>3, <2>4, <2>6 DEF IInv
<1>4. CASE SaveFails
  BY <1>4, ExitIInv DEF SaveFails, ExitDirty
<1> QED
  BY <1>1, <1>2, <1>3, <1>4 DEF Save

LEMMA PersistIInv ==
  ASSUME IInv, TypeInv', NEW n \in SecretNames, PersistSecret(n)
  PROVE  IInv'
<1>1. /\ pc = "secrets" /\ pc' = "secrets" /\ n \in pending /\ pending' = pending \ {n}
      /\ secrets' = [secrets EXCEPT ![n] = Collected(n)]
      /\ UNCHANGED <<config, repo, existing, stored, params, created, interrupted>>
  BY DEF PersistSecret
<1>2. secrets \in [SecretNames -> SecretValues \cup {NoSecret}]
  BY DEF IInv, TypeInv, TypeOK
<1>3. secrets'[n] = Collected(n) /\ \A m \in SecretNames \ {n} : secrets'[m] = secrets[m]
  BY <1>1, <1>2
<1>4. LoadedInv' /\ CreatedInv' /\ ProbingInv' /\ SettledInv'
  BY <1>1 DEF IInv, LoadedInv, CreatedInv, ProbingInv, SettledInv, Probing, Writing
<1>5. VerifiedInv'
  BY <1>1, SameConnectionKept
  DEF IInv, VerifiedInv, ProbedConnection, Opens, Authorized, restServerEnv, Writing
<1>6. /\ config = params.cfg /\ pending \subseteq ToPersist
      /\ \A m \in ToPersist \ pending : secrets[m] = Collected(m)
      /\ \A m \in pending \cup (SecretNames \ ToPersist) : getStoredSecret(m) = stored[m]
  BY <1>1 DEF IInv, PersistInv
<1>7. PersistInv'
  <2>1. \A m \in ToPersist \ pending' : secrets'[m] = Collected(m)
    BY <1>1, <1>3, <1>6 DEF ToPersist, SecretNames
  <2>2. \A m \in pending' \cup (SecretNames \ ToPersist) :
           (IF secrets'[m] = NoSecret THEN Blank ELSE secrets'[m]) = stored[m]
    <3>1. \A m \in pending' \cup (SecretNames \ ToPersist) : m \in SecretNames \ {n}
      BY <1>1, <1>6 DEF ToPersist, SecretNames
    <3>2. \A m \in pending' \cup (SecretNames \ ToPersist) : getStoredSecret(m) = stored[m]
      BY <1>1, <1>6
    <3> QED
      BY <1>3, <3>1, <3>2 DEF getStoredSecret
  <2>3. ToPersist' = ToPersist /\ \A m : Collected(m)' = Collected(m)
    BY <1>1, SameConnectionKept
  <2>4. \A m \in ToPersist' \ pending' : secrets'[m] = Collected(m)'
    BY <2>1, <2>3
  <2>5. \A m \in pending' \cup (SecretNames \ ToPersist') : getStoredSecret(m)' = stored'[m]
    BY <1>1, <2>2, <2>3 DEF getStoredSecret
  <2> QED
    BY <1>1, <1>6, <2>3, <2>4, <2>5 DEF PersistInv
<1>8. SkipInv'
  <2>1. SUFFICES ASSUME params.skipProbe, ~interrupted
                 PROVE  Opens(params.cfg.url, secrets["repo.password"],
                              secrets["rest.username"], secrets["rest.password"])'
    BY <1>1, <2>1 DEF SkipInv
  <2>2. /\ SameConnection
        /\ Opens(params.cfg.url, secrets["repo.password"],
                 secrets["rest.username"], secrets["rest.password"])
    BY <1>1, <2>1 DEF IInv, VerifiedInv, SkipInv, Writing
  <2>3. Collected(n) = getStoredSecret(n)
    BY <1>1, <1>6, <2>2 DEF SameConnection, Collected, SecretNames
  <2>4. secrets[n] # NoSecret
    <3>1. SUFFICES ASSUME secrets[n] = NoSecret PROVE FALSE
      OBVIOUS
    <3>2. Collected(n) = Blank
      BY <2>3, <3>1 DEF getStoredSecret
    <3>3. n = "repo.password"
      BY <1>1, <1>6, <3>2 DEF ToPersist, Collected
    <3>4. params.cfg.url \in URLs
      BY <1>1 DEF IInv, TypeInv, ParamsInv, Writing, Params, Config
    <3>5. repo[params.cfg.url] \in Passwords \cup {NoRepo}
      BY <3>4 DEF IInv, TypeInv, TypeOK
    <3> QED
      BY <2>2, <3>1, <3>3, <3>5, SetupAssumption DEF Opens, SecretValues
  <2>5. Collected(n) = secrets[n]
    BY <2>3, <2>4 DEF getStoredSecret
  <2>6. secrets' = secrets
    BY <1>1, <1>2, <2>5
  <2> QED
    BY <1>1, <2>2, <2>6 DEF Opens, Authorized, restServerEnv
<1> QED
  BY <1>4, <1>5, <1>7, <1>8 DEF IInv

\* With every secret written, the disk holds the parameters' connection.
LEMMA Persisted ==
  ASSUME IInv, pc = "secrets", pending = {}, ProbeAuthorized
  PROVE  /\ secrets["repo.password"] = params.password
         /\ DiskAuthorized(params.cfg.url)
<1>1. \A n \in ToPersist : secrets[n] = Collected(n)
  BY DEF IInv, PersistInv
<1>2. secrets["repo.password"] = params.password
  BY <1>1 DEF ToPersist, Collected
<1>3. /\ params.cfg.url \in URLs
      /\ params.restUsername \in Users \cup {Blank}
      /\ params.restPassword \in RestPasswords \cup {Blank}
  BY DEF IInv, TypeInv, ParamsInv, Writing, Params, Config, SecretType
<1>4. /\ secrets["rest.username"] \in Users \cup {Blank, NoSecret}
      /\ secrets["rest.password"] \in RestPasswords \cup {Blank, NoSecret}
  BY DEF IInv, TypeInv, TypeOK, SecretNames, SecretType
<1>5. NoSecret \notin {params.restUsername, params.restPassword}
  BY <1>3, SetupAssumption DEF SecretValues
<1>6. <<params.restUsername, params.restPassword>> \in Accepts[params.cfg.url]
  BY <1>5 DEF ProbeAuthorized, Authorized, restServerEnv
<1>7. CASE Accepts[params.cfg.url] = Credentials
  <2>1. <<Blank, Blank>> \in Credentials
    BY DEF Credentials
  <2>2. NoSecret \notin {secrets["rest.username"], secrets["rest.password"]}
          => <<secrets["rest.username"], secrets["rest.password"]>> \in Credentials
    BY <1>4 DEF Credentials
  <2>3. restServerEnv(secrets["rest.username"], secrets["rest.password"]) \in Credentials
    BY <2>1, <2>2 DEF restServerEnv
  <2> QED
    BY <1>2, <1>7, <2>3 DEF DiskAuthorized, Authorized
<1>8. CASE Accepts[params.cfg.url] \subseteq Users \X RestPasswords
  <2>1. params.restUsername # Blank /\ params.restPassword # Blank
    BY <1>6, <1>8, SetupAssumption
  <2>2. /\ secrets["rest.username"] = params.restUsername
        /\ secrets["rest.password"] = params.restPassword
    BY <1>1, <2>1 DEF ToPersist, Collected
  <2>3. restServerEnv(secrets["rest.username"], secrets["rest.password"])
          = <<params.restUsername, params.restPassword>>
    BY <1>5, <2>2 DEF restServerEnv
  <2> QED
    BY <1>2, <1>6, <2>3 DEF DiskAuthorized, Authorized
<1> QED
  BY <1>2, <1>3, <1>7, <1>8, SetupAssumption

LEMMA FinishIInv ==
  ASSUME IInv, TypeInv', Finish
  PROVE  IInv'
<1>0. pc = "secrets" /\ pending = {} /\ config = params.cfg
  BY DEF Finish, FinishVerified, initRepository, InitRepositoryFails, IInv, PersistInv
<1>1. CASE FinishVerified
  <2>1. /\ ~created /\ UNCHANGED <<config, secrets, repo>>
        /\ interrupted' = (interrupted /\ params.skipProbe)
    BY <1>1 DEF FinishVerified, disk
  <2>a. Saved
    BY <1>0, SetupAssumption DEF Saved, IInv, TypeInv, ParamsInv, Writing, Params
  <2>2. SUFFICES ASSUME ~(interrupted /\ params.skipProbe) PROVE Usable
    <3>1. ~interrupted' => ~(interrupted /\ params.skipProbe)
      BY <2>1, Zenon
    <3>2. Usable' = Usable
      BY <2>1, SameDisk
    <3> QED
      BY <1>1, <2>2, <3>1, <3>2, ExitIInv, Zenon DEF FinishVerified
  <2>3. CASE params.skipProbe
    BY <1>0, <2>a, <2>2, <2>3 DEF IInv, SkipInv, Usable, Writing
  <2>4. CASE ~params.skipProbe
    <3>1. Opens(params.cfg.url, params.password, params.restUsername, params.restPassword)
      BY <1>0, <2>1, <2>4 DEF IInv, VerifiedInv, ProbedConnection, Writing
    <3>2. secrets["repo.password"] = params.password /\ DiskAuthorized(params.cfg.url)
      BY <1>0, <3>1, Persisted DEF Opens, ProbeAuthorized
    <3> QED
      BY <1>0, <2>a, <3>1, <3>2 DEF Usable, Opens, DiskAuthorized
  <2> QED
    BY <2>3, <2>4
<1>2. CASE initRepository
  <2>1. /\ UNCHANGED <<config, secrets>>
        /\ DiskAuthorized(params.cfg.url)
        /\ repo' = [repo EXCEPT ![params.cfg.url] = secrets["repo.password"]]
    BY <1>2 DEF initRepository, disk
  <2>2. params.cfg.url \in URLs
    BY <1>0 DEF IInv, TypeInv, ParamsInv, Writing, Params, Config
  <2>3. repo'[params.cfg.url] = secrets["repo.password"]
    BY <2>1, <2>2 DEF IInv, TypeInv, TypeOK
  <2>a. Saved
    BY <1>0, SetupAssumption DEF Saved, IInv, TypeInv, ParamsInv, Writing, Params
  <2>4. Usable'
    BY <1>0, <2>a, <2>1, <2>3 DEF Usable, Saved, Opens, DiskAuthorized, Authorized, restServerEnv
  <2> QED
    BY <1>2, <2>4, ExitIInv DEF initRepository
<1>3. CASE InitRepositoryFails
  BY <1>3, ExitIInv DEF InitRepositoryFails, ExitDirty
<1> QED
  BY <1>1, <1>2, <1>3 DEF Finish

LEMMA CrashIInv ==
  ASSUME IInv, TypeInv', Crash
  PROVE  IInv'
<1>1. /\ UNCHANGED <<config, secrets, repo>>
      /\ interrupted' = (interrupted \/ pc \in {"encode", "secrets"})
  BY DEF Crash, disk
<1>2. ~interrupted' => config' = NoConfig \/ Usable'
  BY <1>1, SameDisk DEF IInv, SettledInv, TypeInv, TypeOK, PCs, Probing
<1> QED
  BY <1>2, ExitIInv DEF Crash

LEMMA OtherHostIInv ==
  ASSUME IInv, TypeInv', NEW url \in URLs, NEW pw \in Passwords, OtherHostInit(url, pw)
  PROVE  IInv'
<1>1. /\ repo[url] = NoRepo /\ repo' = [repo EXCEPT ![url] = pw]
      /\ UNCHANGED <<config, secrets, pc, existing, stored, params, created, pending, interrupted>>
  BY DEF OtherHostInit, disk, process
<1>2. ASSUME NEW u, NEW p \in SecretValues \cup {NoSecret}, NEW a, NEW b, u \in URLs, Opens(u, p, a, b)
      PROVE  Opens(u, p, a, b)'
  <2>1. u # url
    BY <1>1, <1>2, SetupAssumption DEF Opens
  <2> QED
    BY <1>1, <1>2, <2>1 DEF Opens, Authorized, restServerEnv, IInv, TypeInv, TypeOK
<1>3. \A n \in SecretNames : secrets[n] \in SecretValues \cup {NoSecret}
  BY DEF IInv, TypeInv, TypeOK
<1>4. LoadedInv' /\ CreatedInv' /\ ProbingInv'
  BY <1>1
  DEF IInv, LoadedInv, CreatedInv, ProbingInv, loadStoredSecrets, getStoredSecret
<1>5. ToPersist' = ToPersist /\ \A m : Collected(m)' = Collected(m) /\ getStoredSecret(m)' = getStoredSecret(m)
  BY <1>1 DEF ToPersist, Collected, getStoredSecret
<1>6. PersistInv'
  BY <1>1, <1>5 DEF IInv, PersistInv
<1>7. Usable => Usable'
  <2>1. SUFFICES ASSUME Usable PROVE Usable'
    OBVIOUS
  <2>2. config.url \in URLs
    BY <2>1 DEF Usable, Saved, IInv, TypeInv, TypeOK, Config
  <2>3. Opens(config.url, secrets["repo.password"],
              secrets["rest.username"], secrets["rest.password"])'
    BY <1>1, <1>2, <1>3, <2>1, <2>2 DEF Usable, SecretNames, Opens, Authorized, restServerEnv
  <2> QED
    BY <1>1, <2>1, <2>3 DEF Usable, Saved
<1>8. SettledInv'
  BY <1>1, <1>7 DEF IInv, SettledInv, Saved
<1>9. pc \in Writing =>
        /\ params.cfg.url \in URLs
        /\ params.password \in SecretValues
  BY DEF IInv, TypeInv, ParamsInv, Params, Config, SecretType, SecretValues
<1>10. VerifiedInv'
  <2>1. ProbedConnection /\ pc \in Writing => ProbedConnection'
    BY <1>1, <1>2, <1>9 DEF ProbedConnection, ProbeAuthorized, Opens, Authorized, restServerEnv
  <2> QED
    BY <1>1, <2>1, SameConnectionKept DEF IInv, VerifiedInv
<1>11. SkipInv'
  BY <1>1, <1>2, <1>3, <1>9
  DEF IInv, SkipInv, SecretNames, Opens, Authorized, restServerEnv
<1> QED
  BY <1>4, <1>6, <1>8, <1>10, <1>11 DEF IInv

LEMMA UserIInv ==
  ASSUME IInv, TypeInv', NEW name \in UserSets, UserAddsSet(name)
  PROVE  IInv'
<1>1. /\ pc = "idle" /\ pc' = "idle" /\ Saved
      /\ config' = [config EXCEPT !.sets = Append(@, name)]
      /\ UNCHANGED <<secrets, repo, params, created, interrupted>>
  BY DEF UserAddsSet
<1>2. config'.url = config.url
  BY <1>1 DEF IInv, TypeInv, TypeOK, Saved, Config
<1>b. config \in Config
  BY <1>1 DEF IInv, TypeInv, TypeOK, Saved
<1>a. config' \in Config
  BY <1>1, <1>b DEF Config
<1>3. SettledInv'
  BY <1>1, <1>2, <1>a, SetupAssumption
  DEF IInv, SettledInv, Usable, Saved, Opens, Authorized, restServerEnv
<1>4. CreatedInv'
  BY <1>1 DEF IInv, CreatedInv, Writing
<1> QED
  BY <1>1, <1>3, <1>4
  DEF IInv, LoadedInv, ProbingInv, VerifiedInv, SkipInv, PersistInv, Probing, Writing

LEMMA StutterIInv ==
  ASSUME IInv, TypeInv', UNCHANGED vars
  PROVE  IInv'
  BY SameDisk, SameConnectionKept
  DEF vars, disk, process, IInv, LoadedInv, CreatedInv, ProbingInv, VerifiedInv, ProbedConnection,
      SettledInv, SkipInv, PersistInv, Opens, Authorized, restServerEnv

LEMMA NextIInv == IInv /\ [Next]_vars => IInv'
<1> SUFFICES ASSUME IInv, [Next]_vars PROVE IInv'
  OBVIOUS
<1>1. TypeInv'
  BY NextTypeInv DEF IInv
<1>2. ASSUME NEW cmd, StartSetup(cmd) \/ StartRefused(cmd) PROVE IInv'
  BY <1>1, <1>2, StartIInv, CleanIInv DEF StartRefused
<1>3. CASE Collect \/ CollectFails
  BY <1>1, <1>3, CollectIInv, CleanIInv DEF Collect, CollectFails
<1>4. CASE Probe \/ Answer
  <2>1. CASE ProbeCannotRun \/ RetryDeclined \/ AskPasswordEnds
    BY <1>1, <2>1, CleanIInv DEF ProbeCannotRun, RetryDeclined, AskPasswordEnds
  <2> QED
    BY <1>1, <1>4, <2>1, ProbeIInv DEF Probe, Answer
<1>5. CASE Persist
  <2>1. ASSUME NEW n \in SecretNames, PersistFails(n) PROVE IInv'
    BY <1>1, <2>1, ExitIInv DEF PersistFails, ExitDirty
  <2> QED
    BY <1>1, <1>5, <2>1, PersistIInv DEF Persist
<1>6. CASE Save \/ Finish \/ Crash \/ UNCHANGED vars
  BY <1>1, <1>6, SaveIInv, FinishIInv, CrashIInv, StutterIInv
<1>7. ASSUME NEW url \in URLs, NEW pw \in Passwords, OtherHostInit(url, pw) PROVE IInv'
  BY <1>1, <1>7, OtherHostIInv
<1>8. ASSUME NEW name \in UserSets, UserAddsSet(name) PROVE IInv'
  BY <1>1, <1>8, UserIInv
<1> QED
  BY <1>2, <1>3, <1>4, <1>5, <1>6, <1>7, <1>8 DEF Next, SetupStep

-----------------------------------------------------------------------------
(* The theorems *)

\* Nothing that was not verified is ever about to be written: neither retries,
\* nor failures, nor another host creating the repository between the probe
\* and the writes can change that.
THEOREM WritesAreVerified == Spec => []OnlyVerifiedIsWritten
<1>1. IInv => OnlyVerifiedIsWritten
  BY DEF IInv, VerifiedInv, ProbedConnection, SameConnection, OnlyVerifiedIsWritten, Verified, Writing
<1> QED
  BY <1>1, InitIInv, NextIInv, PTL DEF Spec

\* config.toml is absent, or it is complete and the disk opens its repository,
\* unless an invocation was cut short between its first and last write.
THEOREM UsableTheorem == Spec => []UsableUnlessInterrupted
<1>1. IInv => UsableUnlessInterrupted
  BY DEF IInv, SettledInv, UsableUnlessInterrupted
<1> QED
  BY <1>1, InitIInv, NextIInv, PTL DEF Spec

\* If nothing but the probe can fail, nothing cuts an invocation short: no
\* secret is empty, and the repository a probe found missing is still missing
\* when `restic init' is to create it.
QuietInv ==
    /\ ~interrupted
    /\ secrets["repo.password"] # Blank
    /\ pc \in Probing \cup Writing => params.password # Blank
    /\ created => repo[params.cfg.url] = NoRepo
    /\ outcome = "configured" => pc = "idle" /\ config # NoConfig

\* A `restic init' that nobody disturbs succeeds.
LEMMA InitSucceeds ==
  ASSUME Faults \subseteq {"probe"}, IInv, QuietInv
  PROVE  ~InitRepositoryFails
<1> SUFFICES ASSUME InitRepositoryFails PROVE FALSE
  OBVIOUS
<1>1. /\ pc = "secrets" /\ pending = {} /\ created /\ repo[params.cfg.url] = NoRepo
      /\ ~DiskAuthorized(params.cfg.url) \/ secrets["repo.password"] \notin Passwords
  BY DEF InitRepositoryFails, QuietInv
<1>2. ~params.skipProbe /\ params \in Params
  BY <1>1 DEF IInv, CreatedInv, TypeInv, ParamsInv, Writing
<1>3. ProbeAuthorized
  BY <1>1, <1>2 DEF IInv, VerifiedInv, ProbedConnection, Opens, ProbeAuthorized, Writing
<1>4. secrets["repo.password"] = params.password /\ DiskAuthorized(params.cfg.url)
  BY <1>1, <1>3, Persisted
<1>5. params.password \in Passwords
  BY <1>1, <1>2 DEF QuietInv, Params, SecretType, Writing
<1> QED
  BY <1>1, <1>4, <1>5

LEMMA NextQuiet ==
  ASSUME Faults \subseteq {"probe"}, IInv, QuietInv, [Next]_vars
  PROVE  QuietInv'
<1>1. ASSUME NEW how, ExitClean(how), how # "configured" PROVE QuietInv'
  BY <1>1 DEF ExitClean, Exit, QuietInv, Probing, Writing, disk
<1>2. ASSUME NEW cmd, StartSetup(cmd) \/ StartRefused(cmd) PROVE QuietInv'
  BY <1>1, <1>2 DEF StartSetup, StartRefused, QuietInv, Probing, Writing, disk
<1>3. CASE Collect
  <2>1. PICK in \in Inputs, l \in 0..MaxLines : CollectInputs(in, l)
    BY <1>3 DEF Collect
  <2>2. collectPassword(in, loadStoredSecrets) # Blank
    BY <2>1, SetupAssumption
    DEF CollectInputs, KeepsPassword, collectPassword, loadStoredSecrets, getStoredSecret,
        QuietInv, SecretNames
  <2>3. ~created
    BY <2>1 DEF CollectInputs, IInv, CreatedInv, Writing
  <2> QED
    BY <2>1, <2>2, <2>3 DEF CollectInputs, QuietInv, disk
<1>4. CASE CollectFails \/ ProbeCannotRun \/ RetryDeclined \/ AskPasswordEnds \/ SaveRefused
  BY <1>1, <1>4 DEF CollectFails, ProbeCannotRun, RetryDeclined, AskPasswordEnds, SaveRefused
<1>5. CASE ProbeVerifies \/ ProbeFindsNothing \/ ProbeRejectsPassword \/ ProbeFails
           \/ RetryAccepted \/ RetryUnclear
  BY <1>5
  DEF ProbeVerifies, ProbeFindsNothing, ProbeRejectsPassword, ProbeFails, RetryAccepted,
      RetryUnclear, QuietInv, Probing, Writing, disk
<1>6. ASSUME NEW pw \in Passwords \cup {Blank}, AskPassword(pw) PROVE QuietInv'
  <2>1. params \in Params /\ ~created
    BY <1>6 DEF AskPassword, IInv, TypeInv, ParamsInv, CreatedInv, Probing, Writing
  <2>2. params'.password \in {params.password, pw} \ {Blank}
    BY <1>6, <2>1 DEF AskPassword, Params, QuietInv, Probing
  <2> QED
    BY <1>6, <2>1, <2>2 DEF AskPassword, QuietInv, disk
<1>7. CASE SaveOpen \/ SaveEncode
  <2>1. params \in Params /\ pc \in Writing /\ pc' \in Writing
    BY <1>7 DEF SaveOpen, SaveEncode, IInv, TypeInv, ParamsInv, Writing
  <2> QED
    BY <1>7, <2>1 DEF SaveOpen, SaveEncode, QuietInv, Writing
<1>8. ASSUME NEW n \in SecretNames, PersistSecret(n) PROVE QuietInv'
  <2>1. params.password # Blank /\ secrets \in [SecretNames -> SecretValues \cup {NoSecret}]
    BY <1>8 DEF PersistSecret, QuietInv, Writing, IInv, TypeInv, TypeOK
  <2>2. secrets'["repo.password"] \in {secrets["repo.password"], params.password}
    BY <1>8, <2>1 DEF PersistSecret, Collected, SecretNames
  <2> QED
    BY <1>8, <2>1, <2>2 DEF PersistSecret, QuietInv
<1>9. CASE FinishVerified \/ initRepository
  <2>1. pc = "secrets" /\ config = params.cfg /\ params \in Params
    BY <1>9 DEF FinishVerified, initRepository, IInv, PersistInv, TypeInv, ParamsInv, Writing
  <2>2. config # NoConfig
    BY <2>1, SetupAssumption DEF Params
  <2> QED
    BY <1>9, <2>2
    DEF FinishVerified, initRepository, Exit, QuietInv, Probing, Writing, disk
<1>10. ASSUME NEW name, UserAddsSet(name) PROVE QuietInv'
  BY <1>10 DEF UserAddsSet, QuietInv
<1>11. CASE UNCHANGED vars
  BY <1>11 DEF vars, disk, process, QuietInv
<1>12. /\ ~SaveFails /\ ~Crash /\ ~InitRepositoryFails
       /\ \A n \in SecretNames : ~PersistFails(n)
       /\ \A url \in URLs, pw \in Passwords : ~OtherHostInit(url, pw)
  BY InitSucceeds DEF SaveFails, Crash, PersistFails, OtherHostInit
<1>13. CASE SetupStep
  <2>1. CASE Probe \/ Answer
    BY <1>4, <1>5, <1>6, <2>1 DEF Probe, Answer
  <2>2. CASE Save \/ Persist \/ Finish
    BY <1>4, <1>7, <1>8, <1>9, <1>12, <2>2 DEF Save, Persist, Finish
  <2> QED
    BY <1>3, <1>4, <1>13, <2>1, <2>2 DEF SetupStep
<1>14. CASE Next
  <2>1. CASE \E cmd \in {"init", "reconfigure"} : StartSetup(cmd) \/ StartRefused(cmd)
    BY <1>2, <2>1
  <2>2. CASE \E name \in UserSets : UserAddsSet(name)
    BY <1>10, <2>2
  <2> QED
    BY <1>12, <1>13, <1>14, <2>1, <2>2, Zenon DEF Next
<1> QED
  BY <1>11, <1>14

\* If nothing but the probe can fail, a setup that reports success has left a
\* disk that opens its repository, however often it was re-run and whatever was
\* typed: what run SetupCrash finds takes a kill.
THEOREM ConfiguredTheorem ==
  ASSUME Faults \subseteq {"probe"} PROVE Spec => []ConfiguredMeansUsable
<1>1. Init => QuietInv
  BY SetupAssumption DEF Init, QuietInv, SecretNames, SecretValues, Probing, Writing
<1>2. IInv /\ QuietInv => ConfiguredMeansUsable
  BY DEF IInv, SettledInv, QuietInv, ConfiguredMeansUsable
<1> QED
  BY <1>1, <1>2, InitIInv, NextIInv, NextQuiet, PTL DEF Spec

\* If runs are neither killed nor kept from writing, and `restic init' fails only
\* over a repository that another host has created, every saved configuration
\* names a repository that exists; a run that skips the probe relies on that.
InitializedInv ==
    /\ secrets["repo.password"] # Blank
    /\ pc \in Probing \cup Writing => params.password # Blank
    /\ pc = "encode" \/ config # BadConfig
    /\ outcome = "configured" => pc = "idle" /\ config # NoConfig
    /\ pc \in {"idle", "collect", "save"} \cup Probing
          => config = NoConfig \/ repo[config.url] # NoRepo
    /\ pc \in Writing /\ params.skipProbe => repo[params.cfg.url] # NoRepo

\* What is in the middle of being written will name such a repository.
LEMMA FinishInitialized ==
  ASSUME Faults \subseteq {"probe", "otherHost"}, IInv, InitializedInv, Finish
  PROVE  InitializedInv'
<1> DEFINE url == params.cfg.url
<1>1. /\ pc = "secrets" /\ pending = {} /\ config = params.cfg
      /\ UNCHANGED <<config, secrets>> /\ pc' = "idle" /\ url \in URLs
      /\ params.password \in Passwords
  BY DEF Finish, FinishVerified, initRepository, InitRepositoryFails, ExitDirty, Exit, disk, IInv,
         PersistInv, TypeInv, ParamsInv, Params, Config, SecretType, Writing, InitializedInv
<1>2. config # NoConfig /\ config # BadConfig
  BY <1>1, SetupAssumption DEF IInv, TypeInv, ParamsInv, Params, Writing
<1>3. repo'[url] # NoRepo
  <2>1. CASE FinishVerified /\ params.skipProbe
    BY <1>1, <2>1 DEF FinishVerified, InitializedInv, Writing
  <2>2. CASE FinishVerified /\ ~params.skipProbe
    <3>1. repo[url] = params.password
      BY <1>1, <2>2 DEF FinishVerified, IInv, VerifiedInv, ProbedConnection, Opens, Writing
    <3> QED
      BY <1>1, <2>2, <3>1, SetupAssumption DEF FinishVerified, SecretValues
  <2>3. CASE initRepository
    <3>1. repo' = [repo EXCEPT ![url] = secrets["repo.password"]]
          /\ secrets["repo.password"] \in Passwords
      BY <2>3 DEF initRepository
    <3> QED
      BY <1>1, <3>1, SetupAssumption DEF SecretValues, IInv, TypeInv, TypeOK
  <2>4. CASE InitRepositoryFails
    <3>1. ProbeAuthorized
      BY <1>1, <2>4
      DEF InitRepositoryFails, IInv, CreatedInv, VerifiedInv, ProbedConnection, Opens,
          ProbeAuthorized, Writing
    <3>2. secrets["repo.password"] \in Passwords /\ DiskAuthorized(url)
      BY <1>1, <3>1, Persisted
    <3> QED
      BY <2>4, <3>2 DEF InitRepositoryFails
  <2> QED
    BY <2>1, <2>2, <2>3, <2>4 DEF Finish
<1> QED
  BY <1>1, <1>2, <1>3 DEF InitializedInv, Probing, Writing

LEMMA NextInitialized ==
  ASSUME Faults \subseteq {"probe", "otherHost"}, IInv, InitializedInv, [Next]_vars
  PROVE  InitializedInv'
<1>1. ASSUME NEW how, ExitClean(how), how # "configured", pc # "encode", pc # "secrets"
      PROVE  InitializedInv'
  BY <1>1
  DEF ExitClean, Exit, InitializedInv, Probing, Writing, disk, IInv, TypeInv, TypeOK, PCs
<1>2. ASSUME NEW cmd, StartSetup(cmd) \/ StartRefused(cmd) PROVE InitializedInv'
  BY <1>1, <1>2 DEF StartSetup, StartRefused, InitializedInv, Probing, Writing, disk
<1>3. CASE Collect
  <2>1. PICK in \in Inputs, l \in 0..MaxLines : CollectInputs(in, l)
    BY <1>3 DEF Collect
  <2>2. collectPassword(in, loadStoredSecrets) # Blank
    BY <2>1, SetupAssumption
    DEF CollectInputs, KeepsPassword, collectPassword, loadStoredSecrets, getStoredSecret,
        InitializedInv, SecretNames
  <2>3. params'.skipProbe => config # NoConfig /\ params'.cfg.url = config.url
    BY <2>1 DEF CollectInputs, skipProbe, buildConfig, IInv, LoadedInv
  <2> QED
    BY <2>1, <2>2, <2>3 DEF CollectInputs, InitializedInv, Probing, disk
<1>4. CASE CollectFails \/ ProbeCannotRun \/ RetryDeclined \/ AskPasswordEnds \/ SaveRefused
  BY <1>1, <1>4 DEF CollectFails, ProbeCannotRun, RetryDeclined, AskPasswordEnds, SaveRefused
<1>5. CASE ProbeVerifies \/ ProbeFindsNothing \/ ProbeRejectsPassword \/ ProbeFails
           \/ RetryAccepted \/ RetryUnclear
  BY <1>5
  DEF ProbeVerifies, ProbeFindsNothing, ProbeRejectsPassword, ProbeFails, RetryAccepted,
      RetryUnclear, InitializedInv, IInv, ProbingInv, Probing, Writing, disk
<1>6. ASSUME NEW pw \in Passwords \cup {Blank}, AskPassword(pw) PROVE InitializedInv'
  <2>1. params \in Params
    BY <1>6 DEF AskPassword, IInv, TypeInv, ParamsInv, Probing
  <2>2. params'.password \in {params.password, pw} \ {Blank}
    BY <1>6, <2>1 DEF AskPassword, Params, InitializedInv, Probing
  <2> QED
    BY <1>6, <2>2 DEF AskPassword, InitializedInv, Probing, Writing, disk
<1>7. CASE SaveOpen
  BY <1>7 DEF SaveOpen, InitializedInv, Probing, Writing
<1>8. CASE SaveEncode
  <2>1. params.cfg \in Config
    BY <1>8 DEF SaveEncode, IInv, TypeInv, ParamsInv, Params, Writing
  <2>2. config' # BadConfig
    BY <1>8, <2>1, SetupAssumption DEF SaveEncode
  <2> QED
    BY <1>8, <2>2 DEF SaveEncode, InitializedInv, Probing, Writing
<1>9. ASSUME NEW n \in SecretNames, PersistSecret(n) PROVE InitializedInv'
  <2>1. params.password # Blank /\ secrets \in [SecretNames -> SecretValues \cup {NoSecret}]
    BY <1>9 DEF PersistSecret, InitializedInv, Writing, IInv, TypeInv, TypeOK
  <2>2. secrets'["repo.password"] \in {secrets["repo.password"], params.password}
    BY <1>9, <2>1 DEF PersistSecret, Collected, SecretNames
  <2> QED
    BY <1>9, <2>1, <2>2 DEF PersistSecret, InitializedInv, Probing, Writing
<1>10. ASSUME NEW url \in URLs, NEW pw \in Passwords, OtherHostInit(url, pw) PROVE InitializedInv'
  <2>1. \A u : repo[u] # NoRepo /\ u \in URLs => repo'[u] # NoRepo
    BY <1>10, SetupAssumption DEF OtherHostInit, SecretValues, IInv, TypeInv, TypeOK
  <2>2. pc \in Writing => params.cfg.url \in URLs
    BY DEF IInv, TypeInv, ParamsInv, Params, Config
  <2>3. pc \in {"idle", "collect", "save"} \cup Probing /\ config # NoConfig => config.url \in URLs
    BY DEF IInv, TypeInv, TypeOK, InitializedInv, Config, Probing
  <2> QED
    BY <1>10, <2>1, <2>2, <2>3 DEF OtherHostInit, InitializedInv, disk, process
<1>11. ASSUME NEW name \in UserSets, UserAddsSet(name) PROVE InitializedInv'
  <2>1. config \in Config /\ config' = [config EXCEPT !.sets = Append(@, name)]
    BY <1>11 DEF UserAddsSet, Saved, IInv, TypeInv, TypeOK
  <2>2. config'.url = config.url /\ config' \in Config
    BY <1>11, <2>1, SMTT(30) DEF Config
  <2> QED
    BY <1>11, <2>1, <2>2, SetupAssumption
    DEF UserAddsSet, Saved, InitializedInv, Probing, Writing
<1>12. CASE UNCHANGED vars
  BY <1>12 DEF vars, disk, process, InitializedInv
<1>13. ~SaveFails /\ ~Crash /\ \A n \in SecretNames : ~PersistFails(n)
  BY DEF SaveFails, Crash, PersistFails
<1>14. CASE SetupStep
  <2>1. CASE Probe \/ Answer
    BY <1>4, <1>5, <1>6, <2>1 DEF Probe, Answer
  <2>2. CASE Save \/ Persist \/ Finish
    BY <1>4, <1>7, <1>8, <1>9, <1>13, <2>2, FinishInitialized DEF Save, Persist
  <2> QED
    BY <1>3, <1>4, <1>14, <2>1, <2>2 DEF SetupStep
<1>15. CASE Next
  <2>1. CASE \E cmd \in {"init", "reconfigure"} : StartSetup(cmd) \/ StartRefused(cmd)
    BY <1>2, <2>1
  <2>2. CASE \E url \in URLs, pw \in Passwords : OtherHostInit(url, pw)
    BY <1>10, <2>2
  <2>3. CASE \E name \in UserSets : UserAddsSet(name)
    BY <1>11, <2>3
  <2> QED
    BY <1>13, <1>14, <1>15, <2>1, <2>2, <2>3, Zenon DEF Next
<1> QED
  BY <1>12, <1>15

\* A setup that reports success has a repository at its URL, even if another host
\* creates repositories at any moment, as long as nothing but the probe fails and
\* no run is killed: what run SetupInitFails finds takes a failing `restic init'.
THEOREM InitializedTheorem ==
  ASSUME Faults \subseteq {"probe", "otherHost"} PROVE Spec => []ConfiguredMeansInitialized
<1>1. Init => InitializedInv
  BY SetupAssumption
  DEF Init, InitializedInv, SecretNames, SecretValues, Probing, Writing
<1>2. InitializedInv => ConfiguredMeansInitialized
  BY DEF InitializedInv, ConfiguredMeansInitialized
<1> QED
  BY <1>1, <1>2, InitIInv, NextIInv, NextInitialized, PTL DEF Spec

\* A run that ends while it probes leaves the disk as it found it.
THEOREM AbortTheorem == Spec => AbortLeavesNothing
<1> DEFINE Aborts == pc \in {"probe", "askRetry", "askPassword"} /\ pc' = "idle"
<1>1. ASSUME IInv, Next, Aborts
      PROVE  config' = existing /\ loadStoredSecrets' = stored
  <2>1. config = existing /\ loadStoredSecrets = stored
    BY <1>1 DEF IInv, LoadedInv, Probing
  <2>2. UNCHANGED disk
    BY <1>1
    DEF Next, StartSetup, StartRefused, SetupStep, Collect, CollectInputs, CollectFails, Probe,
        ProbeVerifies, ProbeFindsNothing, ProbeRejectsPassword, ProbeFails, ProbeCannotRun,
        Answer, RetryDeclined, RetryAccepted, RetryUnclear, AskPasswordEnds, AskPassword,
        Save, SaveRefused, SaveOpen, SaveEncode, SaveFails, Persist, PersistSecret, PersistFails,
        Finish, FinishVerified, initRepository, InitRepositoryFails, Crash, OtherHostInit,
        UserAddsSet, ExitClean
  <2> QED
    BY <2>1, <2>2 DEF disk, loadStoredSecrets, getStoredSecret
<1>2. IInv /\ [Next]_vars => [Aborts => config' = existing /\ loadStoredSecrets' = stored]_vars
  BY <1>1
<1> QED
  BY <1>2, InitIInv, NextIInv, PTL DEF Spec, AbortLeavesNothing

\* The password of a repository is on disk before `restic init' creates it.
THEOREM NewRepositoryTheorem == Spec => NewRepositoryIsOnDisk
<1> DEFINE Creates == outcome = "running" /\ outcome' = "configured" /\ repo' # repo
           OnDisk == /\ Saved
                     /\ repo[config.url] = NoRepo
                     /\ repo'[config.url] = secrets["repo.password"]
                     /\ secrets["repo.password"] = params.password
<1>1. ASSUME IInv, Next, Creates PROVE OnDisk
  <2>1. initRepository
    <3>1. Finish
      BY <1>1
      DEF Next, StartSetup, StartRefused, SetupStep, Collect, CollectInputs, CollectFails, Probe,
          ProbeVerifies, ProbeFindsNothing, ProbeRejectsPassword, ProbeFails, ProbeCannotRun,
          Answer, RetryDeclined, RetryAccepted, RetryUnclear, AskPasswordEnds, AskPassword,
          Save, SaveRefused, SaveOpen, SaveEncode, SaveFails, Persist, PersistSecret, PersistFails,
          Crash, OtherHostInit, UserAddsSet, ExitClean, ExitDirty, Exit, process
    <3> QED
      BY <1>1, <3>1 DEF Finish, FinishVerified, InitRepositoryFails
  <2>2. /\ pc = "secrets" /\ pending = {} /\ config = params.cfg
        /\ repo[params.cfg.url] = NoRepo
        /\ repo' = [repo EXCEPT ![params.cfg.url] = secrets["repo.password"]]
    BY <1>1, <2>1 DEF initRepository, IInv, PersistInv
  <2>3. params.cfg \in Config /\ params.cfg.url \in URLs
    BY <1>1, <2>2 DEF IInv, TypeInv, ParamsInv, Writing, Params, Config
  <2>4. Saved
    BY <2>2, <2>3, SetupAssumption DEF Saved
  <2>5. secrets["repo.password"] = params.password
    BY <1>1, <2>2 DEF IInv, PersistInv, ToPersist, Collected
  <2> QED
    BY <1>1, <2>2, <2>3, <2>4, <2>5 DEF IInv, TypeInv, TypeOK
<1>2. IInv /\ [Next]_vars => [Creates => OnDisk]_vars
  BY <1>1
<1> QED
  BY <1>2, InitIInv, NextIInv, PTL DEF Spec, NewRepositoryIsOnDisk

-----------------------------------------------------------------------------
(* Setup implements Connection *)

CutPCs == {"encode", "secrets"}

\* The secrets a run that has its parameters is to write.
CollectedSecrets == [n \in SecretNames |-> Collected(n)]

LEMMA SecretsAreLoaded ==
  ASSUME TypeInv
  PROVE  loadStoredSecrets \in C!Secrets /\ stored \in C!Secrets
<1>1. \A n \in SecretNames : getStoredSecret(n) \in SecretType(n)
  BY DEF TypeInv, TypeOK, getStoredSecret, SecretNames, SecretType
<1>2. \A n \in SecretNames : stored[n] \in SecretType(n) /\ stored \in [SecretNames -> SecretValues]
  BY DEF TypeInv, TypeOK
<1> QED
  BY <1>1, <1>2 DEF C!Secrets, loadStoredSecrets, SecretNames, SecretType, SecretValues

LEMMA CollectedType ==
  ASSUME TypeInv, pc \in Writing
  PROVE  CollectedSecrets \in C!Secrets /\ params.cfg \in Config /\ params.cfg.url \in URLs
  BY DEF CollectedSecrets, Collected, TypeInv, ParamsInv, Params, Config, C!Secrets, SecretNames,
         SecretType

\* An absent secret and an empty one make no difference to restic.
LEMMA LetInAsLoaded ==
  ASSUME TypeInv, NEW u \in URLs, DiskAuthorized(u)
  PROVE  C!LetsIn(u, loadStoredSecrets)
<1> DEFINE user == secrets["rest.username"]
           rest == secrets["rest.password"]
<1>1. /\ user \in Users \cup {Blank, NoSecret}
      /\ rest \in RestPasswords \cup {Blank, NoSecret}
  BY DEF TypeInv, TypeOK, SecretNames, SecretType
<1>2. restServerEnv(user, rest) \in Accepts[u]
  BY DEF DiskAuthorized, Authorized
<1>3. /\ loadStoredSecrets["rest.username"] = IF user = NoSecret THEN Blank ELSE user
      /\ loadStoredSecrets["rest.password"] = IF rest = NoSecret THEN Blank ELSE rest
  BY DEF loadStoredSecrets, getStoredSecret, SecretNames
<1>4. CASE Accepts[u] = Credentials
  BY <1>1, <1>3, <1>4 DEF Credentials, C!LetsIn
<1>5. CASE Accepts[u] \subseteq Users \X RestPasswords
  <2>1. user # NoSecret /\ rest # NoSecret
    BY <1>2, <1>5, SetupAssumption DEF restServerEnv
  <2> QED
    BY <1>2, <1>3, <2>1 DEF restServerEnv, C!LetsIn
<1> QED
  BY <1>4, <1>5, SetupAssumption

LEMMA LetInAsProbed ==
  ASSUME TypeInv, pc \in Writing, ProbeAuthorized
  PROVE  C!LetsIn(params.cfg.url, CollectedSecrets)
<1>1. NoSecret \notin {params.restUsername, params.restPassword}
  BY SetupAssumption DEF TypeInv, ParamsInv, Params, SecretType, SecretValues
<1>2. /\ CollectedSecrets["rest.username"] = params.restUsername
      /\ CollectedSecrets["rest.password"] = params.restPassword
  BY DEF CollectedSecrets, Collected, SecretNames
<1> QED
  BY <1>1, <1>2 DEF ProbeAuthorized, Authorized, restServerEnv, C!LetsIn

\* A step between two states that are not in the middle of the writes.
LEMMA SameView ==
  ASSUME pc \notin CutPCs, pc' \notin CutPCs, UNCHANGED <<config, secrets>>
  PROVE  UNCHANGED <<ConnectionURL, ConnectionSecrets>>
  BY DEF CutPCs, ConnectionURL, ConnectionSecrets, loadStoredSecrets, getStoredSecret

\* From the middle of the writes it is what the process loaded.
LEMMA LoadedView ==
  ASSUME IInv, pc \in CutPCs
  PROVE  /\ ConnectionSecrets = stored
         /\ params.skipProbe => ConnectionURL = params.cfg.url /\ CollectedSecrets = stored
<1>1. ConnectionSecrets = stored
  BY DEF CutPCs, ConnectionSecrets
<1>2. ASSUME params.skipProbe PROVE ConnectionURL = params.cfg.url /\ CollectedSecrets = stored
  <2>1. SameConnection
    BY <1>2 DEF IInv, VerifiedInv, CutPCs, Writing
  <2>2. existing \in Config
    BY <2>1 DEF SameConnection, IInv, TypeInv, TypeOK
  <2>3. ConnectionURL = existing.url
    BY <2>2, SetupAssumption DEF ConnectionURL, CutPCs
  <2>4. stored \in [SecretNames -> SecretValues]
    BY DEF IInv, TypeInv, TypeOK
  <2>5. \A n \in SecretNames : Collected(n) = stored[n]
    BY <2>1 DEF SameConnection, Collected, SecretNames
  <2> QED
    BY <2>1, <2>3, <2>4, <2>5 DEF SameConnection, CollectedSecrets
<1> QED
  BY <1>1, <1>2

\* A run that ends in the middle of its writes is cut short.
LEMMA CutStep ==
  ASSUME IInv, TypeInv', pc \in CutPCs, pc' = "idle", interrupted' = TRUE, UNCHANGED repo,
         config' \in {BadConfig, params.cfg},
         \A n \in SecretNames : getStoredSecret(n)' \in {stored[n], Collected(n), Blank}
  PROVE  C!Next
<1> DEFINE u == params.cfg.url
<1>1. /\ pc \in Writing /\ TypeInv
      /\ u \in URLs /\ CollectedSecrets \in C!Secrets /\ params.cfg \in Config
  BY CollectedType DEF CutPCs, Writing, IInv
<1>2. ConnectionSecrets = stored
  BY LoadedView
<1>3. C!LetsIn(u, CollectedSecrets) \/ (u = ConnectionURL /\ CollectedSecrets = ConnectionSecrets)
  BY <1>1, LoadedView, LetInAsProbed
  DEF IInv, VerifiedInv, ProbedConnection, Opens, ProbeAuthorized
<1>4. ConnectionURL' \in {BadConfig, u}
  BY <1>1, SetupAssumption DEF ConnectionURL
<1>5. ConnectionSecrets' = loadStoredSecrets' /\ loadStoredSecrets' \in C!Secrets
  <2>1. \A n \in SecretNames : getStoredSecret(n)' \in SecretType(n)
    BY DEF TypeInv, TypeOK, getStoredSecret, SecretNames, SecretType
  <2> QED
    BY <2>1 DEF ConnectionSecrets, C!Secrets, loadStoredSecrets, SecretNames, SecretType, SecretValues
<1>6. \A n \in DOMAIN ConnectionSecrets :
         ConnectionSecrets'[n] \in {ConnectionSecrets[n], CollectedSecrets[n], Blank}
  <2>1. DOMAIN ConnectionSecrets = SecretNames
    BY <1>2 DEF IInv, TypeInv, TypeOK
  <2> QED
    BY <1>2, <1>5, <2>1 DEF loadStoredSecrets, CollectedSecrets
<1>7. C!CutShort(u, CollectedSecrets)
  BY <1>3, <1>4, <1>5, <1>6 DEF C!CutShort
<1> QED
  BY <1>1, <1>7 DEF C!Next

\* Before its first and between two writes a run has cut nothing short.
LEMMA WrittenSecrets ==
  ASSUME IInv, pc \in CutPCs, NEW n \in SecretNames
  PROVE  getStoredSecret(n) \in {stored[n], Collected(n)}
<1>1. CASE pc = "encode"
  BY <1>1 DEF IInv, LoadedInv, loadStoredSecrets
<1>2. CASE pc = "secrets"
  <2>1. CASE n \in ToPersist \ pending
    <3>1. secrets[n] = Collected(n)
      BY <1>2, <2>1 DEF IInv, PersistInv
    <3>2. Collected(n) \in SecretValues
      BY <1>2, <2>1
      DEF IInv, TypeInv, ParamsInv, Params, Writing, ToPersist, Collected, SecretType, SecretValues
    <3> QED
      BY <3>1, <3>2, SetupAssumption DEF getStoredSecret
  <2> QED
    BY <1>2, <2>1 DEF IInv, PersistInv
<1> QED
  BY <1>1, <1>2 DEF CutPCs

LEMMA CutShortStep ==
  ASSUME IInv, TypeInv',
         SaveFails \/ InitRepositoryFails \/ (Crash /\ pc \in CutPCs)
           \/ \E n \in SecretNames : PersistFails(n)
  PROVE  C!Next
<1>1. TypeInv /\ pc \in CutPCs
  BY DEF IInv, SaveFails, InitRepositoryFails, PersistFails, CutPCs
<1>2. pc' = "idle" /\ interrupted' = TRUE /\ UNCHANGED repo
  BY <1>1 DEF SaveFails, InitRepositoryFails, PersistFails, Crash, ExitDirty, Exit, CutPCs
<1>3. pc = "encode" => config = BadConfig
  BY DEF IInv, LoadedInv
<1>4. config' \in {BadConfig, params.cfg}
  BY <1>1, <1>3
  DEF SaveFails, InitRepositoryFails, PersistFails, Crash, disk, CutPCs, IInv, PersistInv
<1>5. \A m \in SecretNames : getStoredSecret(m)' \in {stored[m], Collected(m), Blank}
  <2>1. CASE UNCHANGED secrets
    BY <1>1, <2>1, WrittenSecrets DEF getStoredSecret
  <2>2. ASSUME NEW n \in SecretNames, PersistFails(n)
        PROVE  \A m \in SecretNames : getStoredSecret(m)' \in {stored[m], Collected(m), Blank}
    <3>1. PICK v \in {secrets[n], Blank, Collected(n)} : secrets' = [secrets EXCEPT ![n] = v]
      BY <2>2 DEF PersistFails
    <3>2. \A m \in SecretNames : secrets'[m] = IF m = n THEN v ELSE secrets[m]
      BY <1>1, <3>1 DEF TypeInv, TypeOK
    <3>3. \A m \in SecretNames : getStoredSecret(m)' \in {getStoredSecret(m), Collected(m), Blank}
      BY <3>2 DEF getStoredSecret
    <3> QED
      BY <1>1, <3>3, WrittenSecrets
  <2> QED
    BY <2>1, <2>2 DEF SaveFails, InitRepositoryFails, Crash, disk
<1> QED
  BY <1>1, <1>2, <1>4, <1>5, CutStep

LEMMA FinishStep ==
  ASSUME IInv, TypeInv', FinishVerified \/ initRepository
  PROVE  C!Next \/ UNCHANGED C!vars
<1> DEFINE u == params.cfg.url
<1>1. /\ pc = "secrets" /\ pending = {} /\ config = params.cfg /\ UNCHANGED <<config, secrets>>
      /\ pc' = "idle" /\ pc \in CutPCs /\ pc \in Writing /\ TypeInv
  BY DEF FinishVerified, initRepository, Exit, disk, IInv, PersistInv, CutPCs, Writing
<1>2. params.cfg \in Config /\ u \in URLs
  BY <1>1, CollectedType
<1>3. /\ ConnectionURL' = u
      /\ ConnectionSecrets' = loadStoredSecrets /\ loadStoredSecrets \in C!Secrets
  <2>1. ConnectionURL' = u
    BY <1>1, <1>2, SetupAssumption DEF ConnectionURL
  <2>2. ConnectionSecrets' = loadStoredSecrets
    BY <1>1 DEF ConnectionSecrets, loadStoredSecrets, getStoredSecret
  <2> QED
    BY <1>1, <2>1, <2>2, SecretsAreLoaded
<1>4. repo[u] \in Passwords \cup {NoRepo}
  BY <1>2 DEF IInv, TypeInv, TypeOK
<1>5. secrets["repo.password"] \in Passwords
        => loadStoredSecrets["repo.password"] = secrets["repo.password"]
  BY SetupAssumption DEF loadStoredSecrets, getStoredSecret, SecretNames, SecretValues
<1>6. CASE FinishVerified /\ params.skipProbe
  <2>1. \A n \in SecretNames : getStoredSecret(n) = stored[n]
    <3>1. \A n \in SecretNames : Collected(n) = stored[n]
      BY <1>1, <1>6, LoadedView DEF CollectedSecrets
    <3> QED
      BY <1>1, <3>1, WrittenSecrets
  <2>2. loadStoredSecrets = stored
    BY <2>1 DEF loadStoredSecrets, IInv, TypeInv, TypeOK
  <2>3. UNCHANGED <<ConnectionURL, ConnectionSecrets>>
    BY <1>1, <1>3, <1>6, <2>2, LoadedView
  <2> QED
    BY <1>6, <2>3 DEF C!vars, FinishVerified, IInv, TypeInv, TypeOK
<1>7. CASE FinishVerified /\ ~params.skipProbe
  <2>1. Opens(u, params.password, params.restUsername, params.restPassword) /\ ProbeAuthorized
    BY <1>1, <1>7 DEF FinishVerified, IInv, VerifiedInv, ProbedConnection, Opens, ProbeAuthorized
  <2>2. secrets["repo.password"] = params.password /\ DiskAuthorized(u)
    BY <1>1, <2>1, Persisted
  <2>3. repo[u] = secrets["repo.password"] /\ secrets["repo.password"] \in Passwords
    BY <1>1, <1>2, <1>4, <2>1, <2>2, SetupAssumption
    DEF Opens, TypeInv, ParamsInv, Params, SecretType, SecretValues
  <2>4. C!LetsIn(u, loadStoredSecrets)
    BY <1>1, <1>2, <2>2, LetInAsLoaded
  <2>5. C!Establish(u, loadStoredSecrets)
    BY <1>3, <1>5, <1>7, <2>3, <2>4 DEF C!Establish, FinishVerified
  <2> QED
    BY <1>2, <1>3, <2>5 DEF C!Next
<1>8. CASE initRepository
  <2>1. /\ repo[u] = NoRepo /\ DiskAuthorized(u) /\ secrets["repo.password"] \in Passwords
        /\ repo' = [repo EXCEPT ![u] = secrets["repo.password"]]
        /\ interrupted' = FALSE
    BY <1>8 DEF initRepository
  <2>2. C!Establish(u, loadStoredSecrets)
    BY <1>1, <1>2, <1>3, <1>5, <2>1, LetInAsLoaded DEF C!Establish
  <2> QED
    BY <1>2, <1>3, <2>2 DEF C!Next
<1> QED
  BY <1>6, <1>7, <1>8

\* Every step of Setup is a step of Connection or leaves the connection alone.
LEMMA ConnectionStep ==
  ASSUME IInv, TypeInv', [Next]_vars
  PROVE  C!Next \/ UNCHANGED C!vars
<1>1. ASSUME pc \notin CutPCs, pc' \notin CutPCs, UNCHANGED <<config, secrets, repo, interrupted>>
      PROVE  UNCHANGED C!vars
  BY <1>1, SameView DEF C!vars
<1>2. ASSUME NEW how, ExitClean(how), pc \notin CutPCs PROVE UNCHANGED C!vars
  BY <1>1, <1>2 DEF ExitClean, Exit, CutPCs, disk
<1>3. ASSUME NEW cmd, StartSetup(cmd) \/ StartRefused(cmd) PROVE UNCHANGED C!vars
  BY <1>1, <1>2, <1>3 DEF StartSetup, StartRefused, CutPCs, disk
<1>4. CASE Collect \/ CollectFails
  BY <1>1, <1>2, <1>4 DEF Collect, CollectInputs, CollectFails, CutPCs, disk
<1>5. CASE Probe \/ Answer
  BY <1>1, <1>2, <1>5
  DEF Probe, ProbeVerifies, ProbeFindsNothing, ProbeRejectsPassword, ProbeFails, ProbeCannotRun,
      Answer, RetryDeclined, RetryAccepted, RetryUnclear, AskPasswordEnds, AskPassword, CutPCs, disk
<1>6. CASE SaveRefused
  BY <1>2, <1>6 DEF SaveRefused, CutPCs
<1>7. CASE SaveOpen
  <2>1. config = existing /\ loadStoredSecrets = stored /\ pc = "save"
    BY <1>7 DEF SaveOpen, IInv, LoadedInv
  <2> QED
    BY <1>7, <2>1 DEF SaveOpen, ConnectionURL, ConnectionSecrets, C!vars
<1>8. ASSUME SaveEncode \/ \E n \in SecretNames : PersistSecret(n) PROVE UNCHANGED C!vars
  BY <1>8 DEF SaveEncode, PersistSecret, ConnectionURL, ConnectionSecrets, C!vars
<1>9. CASE Crash
  <2>1. CASE pc \in CutPCs
    BY <1>9, <2>1, CutShortStep
  <2>2. CASE pc \notin CutPCs
    BY <1>1, <1>9, <2>2 DEF Crash, Exit, CutPCs, disk, IInv, TypeInv, TypeOK
  <2> QED
    BY <2>1, <2>2
<1>10. ASSUME NEW u \in URLs, NEW pw \in Passwords, OtherHostInit(u, pw) PROVE C!Next
  <2>1. UNCHANGED <<ConnectionURL, ConnectionSecrets>>
    BY <1>10
    DEF OtherHostInit, disk, process, ConnectionURL, ConnectionSecrets, loadStoredSecrets,
        getStoredSecret
  <2>2. C!Appear(u, pw)
    BY <1>10, <2>1 DEF OtherHostInit, C!Appear
  <2> QED
    BY <2>2 DEF C!Next
<1>11. ASSUME NEW name \in UserSets, UserAddsSet(name) PROVE UNCHANGED C!vars
  <2>1. config \in Config /\ config' = [config EXCEPT !.sets = Append(@, name)]
    BY <1>11 DEF UserAddsSet, Saved, IInv, TypeInv, TypeOK
  <2>2. config'.url = config.url /\ config' \in Config
    BY <1>11, <2>1, SMTT(30) DEF Config
  <2> QED
    BY <1>11, <2>1, <2>2, SetupAssumption
    DEF UserAddsSet, ConnectionURL, ConnectionSecrets, loadStoredSecrets, getStoredSecret, C!vars
<1>12. CASE UNCHANGED vars
  BY <1>12
  DEF vars, disk, process, ConnectionURL, ConnectionSecrets, loadStoredSecrets, getStoredSecret, C!vars
<1>13. CASE SetupStep
  BY <1>4, <1>5, <1>6, <1>7, <1>8, <1>13, CutShortStep, FinishStep
  DEF SetupStep, Save, Persist, Finish
<1> QED
  BY <1>3, <1>9, <1>10, <1>11, <1>12, <1>13 DEF Next

LEMMA InitConnection == Init => C!Init
<1> SUFFICES ASSUME Init PROVE C!Init
  OBVIOUS
<1>1. ConnectionURL = NoConfig
  BY DEF Init, ConnectionURL
<1>2. ConnectionSecrets = [n \in {"repo.password", "rest.username", "rest.password"} |-> Blank]
  BY DEF Init, ConnectionSecrets, loadStoredSecrets, getStoredSecret, SecretNames
<1> QED
  BY <1>1, <1>2 DEF Init, C!Init

\* The whole engine, with its prompts, its probe loop and its five writes,
\* replaces the connection in one step or not at all unless it is cut short, and
\* then leaves a mixture of the old and the verified one.
THEOREM ConnectionTheorem == Spec => ImplementsConnection
<1>1. IInv /\ [Next]_vars => [C!Next]_(C!vars)
  BY NextIInv, ConnectionStep DEF IInv
<1> QED
  BY <1>1, InitConnection, InitIInv, NextIInv, PTL DEF Spec, ImplementsConnection, C!Spec

\* Connection keeps its promise by itself: between two steps that cut something
\* short, what is on disk opens its repository.
LEMMA ConnectionSettles == C!Spec => []C!Settled
<1> DEFINE Types == /\ repo \in [URLs -> Passwords \cup {NoRepo}]
                    /\ ConnectionSecrets["repo.password"] \in Passwords \cup {Blank}
<1>1. C!Init => Types /\ C!Settled
  BY DEF C!Init, C!Settled
<1>2. ASSUME Types, C!Settled, [C!Next]_(C!vars) PROVE Types' /\ C!Settled'
  <2>1. ASSUME NEW u \in URLs, NEW s \in C!Secrets, C!Establish(u, s)
        PROVE  Types' /\ C!Settled'
    BY <1>2, <2>1 DEF C!Establish, C!Settled, C!LetsIn, C!Secrets
  <2>2. ASSUME NEW u \in URLs, NEW s \in C!Secrets, C!CutShort(u, s)
        PROVE  Types' /\ C!Settled'
    BY <1>2, <2>2 DEF C!CutShort, C!Settled, C!Secrets
  <2>3. ASSUME NEW u \in URLs, NEW pw \in Passwords, C!Appear(u, pw)
        PROVE  Types' /\ C!Settled'
    <3>1. SUFFICES ASSUME ~interrupted, ConnectionURL' # NoConfig PROVE Types' /\ C!Settled'
      BY <1>2, <2>3 DEF C!Appear, C!Settled
    <3>2. ConnectionURL' = ConnectionURL /\ ConnectionSecrets' = ConnectionSecrets
      BY <2>3 DEF C!Appear
    <3>3. C!Settled /\ ConnectionURL # u
      BY <1>2, <2>3, <3>1, <3>2, SetupAssumption DEF C!Appear, C!Settled, SecretValues
    <3> QED
      BY <1>2, <2>3, <3>1, <3>2, <3>3 DEF C!Appear, C!Settled, C!LetsIn
  <2>4. CASE UNCHANGED C!vars
    BY <1>2, <2>4 DEF C!vars, C!Settled, C!LetsIn
  <2> QED
    BY <1>2, <2>1, <2>2, <2>3, <2>4 DEF C!Next
<1> QED
  BY <1>1, <1>2, PTL DEF C!Spec

\* So it is for the engine as well, at every moment of a run: what the run would
\* leave if it changed nothing opens its repository.
THEOREM SettledTheorem == Spec => []C!Settled
  BY ConnectionTheorem, ConnectionSettles, PTL DEF ImplementsConnection

-----------------------------------------------------------------------------
(* Every step of a setup counts *)

\* The secrets are few, and so are the pending ones.
LEMMA SecretCount ==
    /\ IsFiniteSet(SecretNames)
    /\ Cardinality(SecretNames) \in Nat
<1>1. IsFiniteSet({"repo.password"}) /\ IsFiniteSet({"rest.username"})
      /\ IsFiniteSet({"rest.password"})
  BY FS_Singleton
<1>2. IsFiniteSet({"repo.password"} \cup {"rest.username"} \cup {"rest.password"})
  BY <1>1, FS_Union
<1>3. SecretNames = {"repo.password"} \cup {"rest.username"} \cup {"rest.password"}
  BY DEF SecretNames
<1> QED
  BY <1>2, <1>3, FS_CardinalityType

LEMMA PendingCount ==
  ASSUME NEW S \in SUBSET SecretNames
  PROVE  /\ Cardinality(S) \in Nat
         /\ Cardinality(S) <= Cardinality(SecretNames)
         /\ \A n \in S : Cardinality(S \ {n}) = Cardinality(S) - 1
  BY SecretCount, FS_Subset, FS_CardinalityType, FS_RemoveElement

\* Whoever is at work has a step left, and may end at any time.
LEMMA SomethingLeft ==
  ASSUME TypeInv, pc # "idle"
  PROVE  StepsLeft \in Nat /\ StepsLeft > 0
<1>1. Cardinality(SecretNames) \in Nat /\ Cardinality(pending) \in Nat
      /\ lines \in Nat /\ MaxLines \in Nat
  BY SecretCount, PendingCount, SetupAssumption DEF TypeInv, TypeOK
<1> QED
  BY <1>1 DEF StepsLeft, TypeInv, TypeOK, PCs

LEMMA ExitCounts ==
  ASSUME TypeInv, pc # "idle", NEW how, Exit(how)
  PROVE  StepsLeft' < StepsLeft
  BY SomethingLeft DEF StepsLeft, Exit

\* Reading the inputs, probing and answering.
LEMMA PromptCounts ==
  ASSUME TypeInv, Collect \/ CollectFails \/ Probe \/ Answer
  PROVE  StepsLeft' < StepsLeft
<1>1. Cardinality(SecretNames) \in Nat /\ lines \in Nat /\ MaxLines \in Nat
  BY SecretCount, SetupAssumption DEF TypeInv, TypeOK
<1>2. ASSUME NEW how, ExitClean(how), pc # "idle" PROVE StepsLeft' < StepsLeft
  BY <1>2, ExitCounts DEF ExitClean
<1>3. CASE Collect
  <2>1. PICK in \in Inputs, l \in 0..MaxLines : CollectInputs(in, l)
    BY <1>3 DEF Collect
  <2>2. lines' \in Nat /\ lines' <= MaxLines /\ pc = "collect" /\ pc' \in {"save", "probe"}
    BY <1>1, <2>1 DEF CollectInputs
  <2> QED
    BY <1>1, <2>2 DEF StepsLeft
<1>4. CASE CollectFails \/ ProbeCannotRun \/ RetryDeclined \/ AskPasswordEnds
  BY <1>2, <1>4 DEF CollectFails, ProbeCannotRun, RetryDeclined, AskPasswordEnds
<1>5. CASE ProbeVerifies \/ ProbeFindsNothing \/ ProbeRejectsPassword \/ ProbeFails
  BY <1>1, <1>5
  DEF ProbeVerifies, ProbeFindsNothing, ProbeRejectsPassword, ProbeFails, StepsLeft
<1>6. CASE RetryAccepted \/ RetryUnclear
  BY <1>1, <1>6 DEF RetryAccepted, RetryUnclear, StepsLeft
<1>7. ASSUME NEW pw \in Passwords \cup {Blank}, AskPassword(pw) PROVE StepsLeft' < StepsLeft
  <2>1. pc = "askPassword" /\ pc' \in {"askPassword", "probe"} /\ lines > 0 /\ lines' = lines - 1
    BY <1>7 DEF AskPassword
  <2> QED
    BY <1>1, <2>1 DEF StepsLeft
<1> QED
  BY <1>3, <1>4, <1>5, <1>6, <1>7 DEF Probe, Answer

\* Writing config and secrets, and the end.
LEMMA WriteCounts ==
  ASSUME TypeInv, Save \/ Persist \/ Finish
  PROVE  StepsLeft' < StepsLeft
<1>1. Cardinality(SecretNames) \in Nat
  BY SecretCount
<1>2. CASE SaveRefused \/ SaveFails \/ (\E n \in SecretNames : PersistFails(n)) \/ Finish
  BY <1>2, ExitCounts
  DEF SaveRefused, SaveFails, PersistFails, Finish, FinishVerified, initRepository,
      InitRepositoryFails, ExitClean, ExitDirty
<1>3. CASE SaveOpen
  BY <1>1, <1>3 DEF SaveOpen, StepsLeft
<1>4. CASE SaveEncode
  <2>1. Cardinality(ToPersist) \in Nat /\ Cardinality(ToPersist) <= Cardinality(SecretNames)
    BY PendingCount DEF ToPersist, SecretNames
  <2> QED
    BY <1>1, <1>4, <2>1 DEF SaveEncode, StepsLeft
<1>5. ASSUME NEW n \in SecretNames, PersistSecret(n) PROVE StepsLeft' < StepsLeft
  <2>1. Cardinality(pending) \in Nat /\ Cardinality(pending \ {n}) = Cardinality(pending) - 1
    BY <1>5, PendingCount DEF PersistSecret, TypeInv, TypeOK
  <2> QED
    BY <1>5, <2>1 DEF PersistSecret, StepsLeft
<1> QED
  BY <1>2, <1>3, <1>4, <1>5 DEF Save, Persist

\* Every setup ends after a number of steps that is known when its inputs are,
\* for any amount of stdin: the probe loop cannot spin.
THEOREM CountsTheorem == Spec => EveryStepCounts /\ [](StepsLeft \in Nat)
<1>1. ASSUME TypeInv, Next, pc # "idle", process' # process PROVE StepsLeft' < StepsLeft
  <2>1. SetupStep \/ Crash
    BY <1>1 DEF Next, StartSetup, StartRefused, OtherHostInit, UserAddsSet
  <2>2. CASE SetupStep
    BY <1>1, <2>2, PromptCounts, WriteCounts DEF SetupStep
  <2>3. CASE Crash
    BY <1>1, <2>3, ExitCounts DEF Crash
  <2> QED
    BY <2>1, <2>2, <2>3
<1>2. TypeInv /\ [Next]_vars
        => [pc # "idle" /\ process' # process => StepsLeft' < StepsLeft]_vars
  BY <1>1
<1>3. TypeInv => StepsLeft \in Nat
  BY SomethingLeft DEF StepsLeft
<1> QED
  BY <1>2, <1>3, InitTypeInv, NextTypeInv, PTL DEF Spec, EveryStepCounts

=============================================================================
